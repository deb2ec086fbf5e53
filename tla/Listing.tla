------------------------------ MODULE Listing ------------------------------
(***************************************************************************)
(* A client that lists the resources of a project page by page while       *)
(* others create and delete them.  Each page is cut out of a list computed *)
(* anew and a page token is an index into it (src/model.rs, paginate).     *)
(*                                                                         *)
(* Names are numbers, in the order the code sorts them in.  The index of a *)
(* name in the sorted list is the number of names before it.               *)
(***************************************************************************)
EXTENDS Integers, FiniteSets

CONSTANTS
  Names,         \* resource names of all projects
  Project,       \* those of the project that is listed
  PageSizes,     \* page sizes a client may ask for; zero: none given
  DefaultPage, MaxPageSize,  \* 100 and 1000 in the code
  MaxChanges     \* bound: creations and deletions during one listing

ASSUME ListAssumption ==
  /\ Names \subseteq Int /\ IsFiniteSet(Names)
  /\ PageSizes \subseteq Int
  /\ DefaultPage \in Nat \ {0} /\ MaxPageSize \in Nat \ {0}

VARIABLES
  present,    \* names the broker holds
  parent,     \* whether the topic whose subscriptions are listed exists
  listing,    \* the client: what it lists, page size, next token, whether it goes on
  received,   \* names received so far
  repeats,    \* history: how often a name came that had been received before
  created, deleted,   \* history: changes since the listing began
  steady      \* history: names present ever since the listing began

gvars == <<present, parent, listing, received, repeats, created, deleted, steady>>

\* Where a name is when the items are sorted, as every list function of the
\* backend does.
IndexOf(n, items) == Cardinality({m \in items : m < n})

\* list_topics: the names that belong to the project.  (For the subscriptions
\* of a topic, Project stands for those whose spec names the topic.)
ListTopics == present \cap Project

\* A page size of zero is taken as it is.
BadPageSize(asked) == IF asked > MaxPageSize THEN MaxPageSize ELSE asked

PageSize(asked) ==
  IF asked <= 0 THEN DefaultPage
  ELSE IF asked > MaxPageSize THEN MaxPageSize ELSE asked

\* The empty token: starts a listing, and says that there is no further page.
NoToken == -1

StartOf(token) == IF token = NoToken THEN 0 ELSE token

EndOf(items, size, token) ==
  IF StartOf(token) + size < Cardinality(items) THEN StartOf(token) + size
  ELSE Cardinality(items)

Slice(items, start, end) == {n \in items : start <= IndexOf(n, items) /\ IndexOf(n, items) < end}

\* Continues one item too far.
BadPaginate(items, size, token) ==
  LET end == EndOf(items, size, token)
  IN  [items |-> Slice(items, StartOf(token), end),
       next |-> IF end < Cardinality(items) THEN end + 1 ELSE NoToken]

\* paginate: the slice items[start .. end) and the token of the next page.
Paginate(items, size, token) ==
  LET end == EndOf(items, size, token)
  IN  [items |-> Slice(items, StartOf(token), end),
       next |-> IF end < Cardinality(items) THEN end ELSE NoToken]

ListInit ==
  /\ present \in SUBSET Names
  /\ parent = TRUE
  /\ \E of \in {"project", "topic"}, size \in PageSizes :
       listing = [of |-> of, size |-> size, token |-> NoToken, on |-> TRUE]
  /\ received = {} /\ repeats = 0
  /\ created = 0 /\ deleted = 0 /\ steady = present

\* One request: list_topics, list_subscriptions, list_snapshots, list_schemas.
NextPage ==
  /\ listing.on
  /\ listing.of = "topic" => parent
  /\ LET page == Paginate(ListTopics, PageSize(listing.size), listing.token)
     IN  /\ received' = received \cup page.items
         /\ repeats' = repeats + Cardinality(page.items \cap received)
         /\ listing' = [listing EXCEPT !.token = page.next, !.on = page.next # NoToken]
  /\ UNCHANGED <<present, parent, created, deleted, steady>>

\* list_topic_subscriptions: as above, but not found once its topic is gone.
TopicGone ==
  /\ listing.on
  /\ listing.of = "topic" /\ ~parent
  /\ listing' = [listing EXCEPT !.on = FALSE]
  /\ UNCHANGED <<present, parent, received, repeats, created, deleted, steady>>

Create(n) ==
  /\ listing.on /\ n \in Names \ present
  /\ created + deleted < MaxChanges
  /\ present' = present \cup {n}
  /\ created' = created + 1
  /\ UNCHANGED <<parent, listing, received, repeats, deleted, steady>>

Delete(n) ==
  /\ listing.on /\ n \in present
  /\ created + deleted < MaxChanges
  /\ present' = present \ {n}
  /\ deleted' = deleted + 1
  /\ steady' = steady \ {n}
  /\ UNCHANGED <<parent, listing, received, repeats, created>>

\* The topic's subscriptions stay when the topic is deleted.
DeleteParent ==
  /\ listing.on /\ parent
  /\ parent' = FALSE
  /\ UNCHANGED <<present, listing, received, repeats, created, deleted, steady>>

ListNext ==
  \/ NextPage \/ TopicGone \/ DeleteParent
  \/ \E n \in Names : Create(n) \/ Delete(n)

ListSpec == ListInit /\ [][ListNext]_gvars

KeepsListing == WF_gvars(NextPage \/ TopicGone)

\* A complete listing misses at most as many of the names that were there all
\* along as names were deleted under it, and repeats at most as many as were
\* created: an index shifts by one for every change before it.
MissedPerDeletion ==
  /\ ~listing.on /\ (listing.of = "topic" => parent) =>
       Cardinality((steady \cap Project) \ received) <= deleted
  /\ repeats <= created

\* A client that asks for page after page comes to an end, whatever page size
\* it asked for and whatever is created and deleted meanwhile.
ListingEnds == <>~listing.on
=============================================================================
