---------------------------- MODULE DiscussionProofs ----------------------------
(***************************************************************************)
(* Discussions, for any number of writers, comments, events and uploads.   *)
(***************************************************************************)
EXTENDS Discussion, FiniteSetTheorems, WellFoundedInduction, TLAPS

CommentIds == 1 .. MaxComments
EventIds == 1 .. MaxEvents
PCs == {"quiet", "insert", "update", "write", "record", "commit", "enqueue"}
Post == [pc : PCs, op : Kinds \union {Nothing},
         of : CommentIds \union Uploads \union {Nothing},
         seen : {"none", "live", Nothing}, event : Nat, locks : BOOLEAN]
Event == [kind : Kinds \union {Nothing}, of : CommentIds \union Uploads \union {Nothing},
          stale : BOOLEAN]

\* Numbers are those a table has handed out.
DiscussionType ==
  /\ comments \in [CommentIds -> {"none", "live", "deleted"}]
  /\ events \in [EventIds -> Event]
  /\ files \in [Uploads -> {"none", "partial", "whole"}]
  /\ scans \in [Uploads -> {"none", "queued", "done"}]
  /\ given \in [Tables -> Nat]
  /\ post \in [Writers -> Post]

-----------------------------------------------------------------------------
(* A walk over a table.                                                    *)

\* The page and what it left out account for every number up to the cursor.
WalkInv == reader.cursor \in Nat /\ 1 .. reader.cursor \subseteq reader.read \union reader.late

LEMMA Least ==
  ASSUME NEW S \in SUBSET Nat, S # {}
  PROVE  \E m \in S : \A n \in S : m <= n
<1>1. PICK m \in S : \A n \in S : ~ (<<n, m>> \in OpToRel(<, Nat))
  BY NatLessThanWellFounded, WFMin
<1>2. \A n \in S : ~ (n < m)
  BY <1>1 DEF OpToRel
<1> QED
  BY <1>2

LEMMA Greatest ==
  ASSUME NEW N \in Nat, NEW S \in SUBSET (0 .. N), S # {}
  PROVE  \E m \in S : \A n \in S : n <= m
<1> DEFINE T == {t \in Nat : t <= N /\ N - t \in S}
<1>1. T \in SUBSET Nat
  OBVIOUS
<1>2. PICK s \in S : TRUE
  OBVIOUS
<1>3. N - s \in T
  BY <1>2
<1>4. PICK t \in T : \A u \in T : t <= u
  <2> HIDE DEF T
  <2> QED
    BY <1>1, <1>3, Least
<1>5. N - t \in S
  OBVIOUS
<1>6. ASSUME NEW n \in S PROVE n <= N - t
  <2>1. N - n \in T
    OBVIOUS
  <2>2. t <= N - n
    BY <1>4, <2>1
  <2>3. t \in 0 .. N /\ n \in 0 .. N
    OBVIOUS
  <2> QED
    BY <2>2, <2>3
<1> QED
  BY <1>5, <1>6

\* A page ends with the last row it has, and holds every row before that.
LEMMA PageHoldsItsPrefix ==
  ASSUME NEW N \in Nat, NEW S \in SUBSET (0 .. N), S # {}
  PROVE  /\ LastOf(S) \in S
         /\ \A n \in S : n <= LastOf(S)
BY Greatest DEF LastOf

LEMMA FirstsAreAPrefix ==
  ASSUME NEW N \in Nat, NEW S \in SUBSET (0 .. N), NEW size \in Nat,
         NEW n \in FirstOf(S, size), NEW m \in S, m <= n
  PROVE  m \in FirstOf(S, size)
<1> DEFINE below(k) == {i \in S : i <= k}
<1>1. n \in S /\ Cardinality(below(n)) <= size
  BY DEF FirstOf
<1>2. IsFiniteSet(S)
  <2>1. IsFiniteSet(0 .. N)
    BY FS_Interval
  <2> QED
    BY <2>1, FS_Subset
<1>3. IsFiniteSet(below(n)) /\ IsFiniteSet(below(m))
  BY <1>2, FS_Subset
<1>4. below(m) \subseteq below(n)
  <2>1. S \subseteq Nat /\ m \in Nat /\ n \in Nat
    BY <1>1
  <2>2. \A i \in S : i <= m => i <= n
    BY <2>1
  <2> QED
    BY <2>2
<1>5. Cardinality(below(m)) <= Cardinality(below(n))
  <2> HIDE DEF below
  <2> QED
    BY <1>3, <1>4, FS_Subset
<1>6. Cardinality(below(m)) \in Nat /\ Cardinality(below(n)) \in Nat
  BY <1>3, FS_CardinalityType
<1>7. Cardinality(below(m)) <= size
  <2> HIDE DEF below
  <2> QED
    BY <1>1, <1>5, <1>6
<1> QED
  BY <1>7 DEF FirstOf

\* Up to its last row a page after c holds every row of V there is.
LEMMA PageCoversItsNumbers ==
  ASSUME NEW N \in Nat, NEW V \in SUBSET (0 .. N), NEW c \in Nat, NEW size \in Nat,
         NEW A, A = {n \in V : n > c}, NEW P, P = FirstOf(A, size), P # {}
  PROVE  LastOf(P) \in Nat /\ \A n \in V : c < n /\ n <= LastOf(P) => n \in P
<1>1. A \in SUBSET (0 .. N)
  OBVIOUS
<1>2. P \in SUBSET (0 .. N)
  BY <1>1 DEF FirstOf
<1>3. LastOf(P) \in P
  BY <1>2, PageHoldsItsPrefix
<1>4. LastOf(P) \in Nat
  BY <1>2, <1>3
<1>5. ASSUME NEW n \in V, c < n, n <= LastOf(P) PROVE n \in P
  <2>1. n \in A
    BY <1>5
  <2>2. LastOf(P) \in FirstOf(A, size)
    BY <1>3
  <2> QED
    BY <1>1, <1>5, <2>1, <2>2, FirstsAreAPrefix
<1> QED
  BY <1>4, <1>5

\* The cursor moves over rows of the page and numbers that no row shows.
LEMMA CursorPassesThePage ==
  ASSUME WalkInv, NEW t \in Tables, ReadPage(t)
  PROVE  WalkInv'
<1>1. PICK c, A, P, V, next :
        /\ c = reader.cursor /\ V = Visible(t) /\ A = {n \in V : n > c}
        /\ P = FirstOf(A, PageSize) /\ P # {}
        /\ next = IF HasMore(t, c) THEN LastOf(P) ELSE c
        /\ reader'.cursor = next
        /\ reader'.read = reader.read \union P
        /\ reader'.late = reader.late \union ((c + 1) .. next \ V)
  BY DEF ReadPage, NextCursor, Page, After
<1>2. c \in Nat /\ 1 .. c \subseteq reader.read \union reader.late
  BY <1>1 DEF WalkInv
<1>3. CASE next = c
  BY <1>1, <1>2, <1>3 DEF WalkInv
<1>4. CASE next # c
  <2>1. next = LastOf(P)
    BY <1>1, <1>4
  <2>2. /\ MaxComments + MaxEvents \in Nat
        /\ V \in SUBSET (0 .. MaxComments + MaxEvents) /\ PageSize \in Nat
    <3>1. MaxComments \in Nat /\ MaxEvents \in Nat /\ PageSize \in Nat
      BY DiscussionAssumption
    <3>2. V \subseteq 1 .. MaxComments \/ V \subseteq 1 .. MaxEvents
      BY <1>1 DEF Visible
    <3> QED
      BY <3>1, <3>2
  <2>3. next \in Nat /\ \A n \in V : c < n /\ n <= next => n \in P
    <3>1. A = {n \in V : n > c} /\ P = FirstOf(A, PageSize) /\ P # {}
      BY <1>1
    <3>2. LastOf(P) \in Nat /\ \A n \in V : c < n /\ n <= LastOf(P) => n \in P
      BY <1>2, <2>2, <3>1, PageCoversItsNumbers
    <3> QED
      BY <2>1, <3>2
  <2>4. ASSUME NEW n \in 1 .. next
        PROVE  n \in reader'.read \union reader'.late
    <3>1. n \in Nat /\ 1 <= n /\ n <= next
      BY <2>3, <2>4
    <3>2. CASE n <= c
      BY <1>1, <1>2, <3>1, <3>2
    <3>3. CASE c < n
      BY <1>1, <1>2, <2>3, <3>1, <3>3
    <3> QED
      BY <1>2, <3>1, <3>2, <3>3
  <2> QED
    BY <1>1, <2>3, <2>4 DEF WalkInv
<1> QED
  BY <1>3, <1>4

\* "A cursor pins the position to the last row seen" (pagination.py): a walk misses
\* only rows that became visible after the cursor had passed their number.
THEOREM WalksSkipNothing == DiscussionSpec => []WalkSkipsNothing
<1>1. DiscussionInit => WalkInv
  BY DEF DiscussionInit, WalkInv
<1>2. WalkInv /\ [DiscussionNext]_discussionVars => WalkInv'
  <2> SUFFICES ASSUME WalkInv, [DiscussionNext]_discussionVars PROVE WalkInv'
    OBVIOUS
  <2>1. CASE reader' = reader
    BY <2>1 DEF WalkInv
  <2>2. CASE \E t \in Tables : ReadPage(t)
    BY <2>2, CursorPassesThePage
  <2>3. ASSUME NEW w \in Writers,
               \/ AddComment(w) \/ EditComment(w) \/ DeleteComment(w)
               \/ InsertComment(w) \/ UpdateComment(w)
               \/ OpenFile(w) \/ FinishFile(w) \/ TooLarge(w) \/ EnqueueScan(w)
               \/ ScanAttachment(w) \/ Record(w) \/ CommitPost(w) \/ FailPost(w)
        PROVE  reader' = reader
    BY <2>3 DEF AddComment, EditComment, DeleteComment, InsertComment, UpdateComment,
      OpenFile, FinishFile, TooLarge, EnqueueScan, ScanAttachment, Record, CommitPost,
      FailPost, Begins
  <2> QED
    BY <2>1, <2>2, <2>3 DEF DiscussionNext, discussionVars
<1>3. WalkInv => WalkSkipsNothing
  <2> SUFFICES ASSUME WalkInv, NEW n \in Visible(reader.table), n <= reader.cursor
               PROVE  n \in reader.read \union reader.late
    BY DEF WalkSkipsNothing
  <2>1. n \in 1 .. reader.cursor
    BY DiscussionAssumption DEF Visible, WalkInv
  <2> QED
    BY <2>1 DEF WalkInv
<1> QED
  BY <1>1, <1>2, <1>3, PTL DEF DiscussionSpec

-----------------------------------------------------------------------------
(* Types.                                                                  *)

LEMMA TypeInitially == DiscussionInit => DiscussionType
BY DEF DiscussionInit, DiscussionType, NoEvent, Quiet, Event, Post, PCs, Kinds, Changes,
  Tables, CommentIds, EventIds

\* One request moves.
LEMMA OnePostMoves ==
  ASSUME DiscussionType, NEW w \in Writers, NEW to \in Post, post' = [post EXCEPT ![w] = to]
  PROVE  /\ post' \in [Writers -> Post] /\ post'[w] = to
         /\ \A v \in Writers \ {w} : post'[v] = post[v]
BY DEF DiscussionType

LEMMA RequestsBegin ==
  ASSUME DiscussionType, NEW w \in Writers, NEW op \in Kinds,
         NEW of \in CommentIds \union Uploads \union {Nothing},
         NEW seen \in {"none", "live", Nothing}, NEW pc \in PCs, Begins(w, op, of, seen, pc)
  PROVE  /\ DiscussionType' /\ post[w].pc = "quiet"
         /\ post'[w] = [Quiet EXCEPT !.pc = pc, !.op = op, !.of = of, !.seen = seen]
         /\ \A v \in Writers \ {w} : post'[v] = post[v]
         /\ UNCHANGED <<shown, stored, given, reader, failed>>
<1> DEFINE to == [Quiet EXCEPT !.pc = pc, !.op = op, !.of = of, !.seen = seen]
<1>1. to \in Post
  BY DEF Quiet, Post
<1>2. post' = [post EXCEPT ![w] = to] /\ post[w].pc = "quiet"
      /\ UNCHANGED <<shown, stored, given, reader, failed>>
  BY DEF Begins
<1>3. /\ post' \in [Writers -> Post] /\ post'[w] = to
      /\ \A v \in Writers \ {w} : post'[v] = post[v]
  <2> HIDE DEF to
  <2> QED
    BY <1>1, <1>2, OnePostMoves
<1> QED
  BY <1>2, <1>3 DEF DiscussionType, shown, stored

\* What a request that goes on leaves of itself as it was.
Same(w) == post'[w].op = post[w].op /\ post'[w].of = post[w].of /\ post'[w].seen = post[w].seen

\* The requests that only move, with what they then hold.
LEMMA RequestsMove ==
  ASSUME DiscussionType, NEW w \in Writers, NEW pc \in PCs,
         post' = [post EXCEPT ![w].pc = pc]
  PROVE  /\ post' \in [Writers -> Post] /\ post'[w].pc = pc /\ Same(w)
         /\ post'[w].event = post[w].event /\ (post'[w].locks <=> post[w].locks)
         /\ \A v \in Writers \ {w} : post'[v] = post[v]
<1> DEFINE to == [post[w] EXCEPT !.pc = pc]
<1>1. to \in Post
  BY DEF Post, DiscussionType
<1>2. post' = [post EXCEPT ![w] = to]
  BY DEF DiscussionType
<1>3. to.pc = pc /\ to.op = post[w].op /\ to.of = post[w].of /\ to.seen = post[w].seen
      /\ to.event = post[w].event /\ (to.locks <=> post[w].locks)
  BY DEF Post, DiscussionType
<1> HIDE DEF to
<1>4. /\ post' \in [Writers -> Post] /\ post'[w] = to
      /\ \A v \in Writers \ {w} : post'[v] = post[v]
  BY <1>1, <1>2, OnePostMoves
<1> QED
  BY <1>3, <1>4 DEF Same
LEMMA Inserts ==
  ASSUME DiscussionType, NEW w \in Writers, InsertComment(w)
  PROVE  /\ DiscussionType' /\ post[w].pc = "insert" /\ post[w].op = "added"
         /\ given["comments"] < MaxComments
         /\ given' = [given EXCEPT !["comments"] = @ + 1]
         /\ post'[w].pc = "record" /\ post'[w].op = "added" /\ (post'[w].locks <=> post[w].locks)
         /\ post'[w].of = given["comments"] + 1
         /\ \A v \in Writers \ {w} : post'[v] = post[v]
         /\ UNCHANGED <<shown, stored, reader, failed>>
<1> DEFINE n == given["comments"] + 1
<1>1. /\ post[w].pc = "insert" /\ post[w].op = "added" /\ given["comments"] < MaxComments
      /\ given' = [given EXCEPT !["comments"] = @ + 1]
      /\ post' = [post EXCEPT ![w].pc = "record", ![w].of = given'["comments"]]
      /\ UNCHANGED <<shown, stored, reader, failed>>
  BY DEF InsertComment, Does
<1>2. given["comments"] \in Nat /\ given'["comments"] = n /\ given' \in [Tables -> Nat]
  BY <1>1 DEF DiscussionType, Tables
<1>3. n \in CommentIds
  BY <1>1, <1>2, DiscussionAssumption DEF CommentIds
<1> DEFINE to == [post[w] EXCEPT !.pc = "record", !.of = n]
<1>4. to \in Post
  <2>1. post[w] \in Post
    BY DEF DiscussionType
  <2> HIDE DEF n
  <2> QED
    BY <1>3, <2>1 DEF Post, PCs
<1>5. post' = [post EXCEPT ![w] = to]
  BY <1>1, <1>2 DEF DiscussionType
<1>6. to.pc = "record" /\ to.of = n /\ to.op = post[w].op /\ (to.locks <=> post[w].locks)
  BY DEF Post, DiscussionType
<1> HIDE DEF to
<1>7. /\ post' \in [Writers -> Post] /\ post'[w] = to
      /\ \A v \in Writers \ {w} : post'[v] = post[v]
  BY <1>4, <1>5, OnePostMoves
<1> QED
  BY <1>1, <1>2, <1>6, <1>7 DEF DiscussionType, shown, stored

LEMMA Updates ==
  ASSUME DiscussionType, NEW w \in Writers, UpdateComment(w)
  PROVE  /\ DiscussionType' /\ post[w].pc = "update" /\ post[w].op \in {"edited", "deleted"}
         /\ \A v \in Writers : post[v].locks => post[v].of # post[w].of
         /\ post'[w].pc = "record" /\ post'[w].locks /\ Same(w)
         /\ \A v \in Writers \ {w} : post'[v] = post[v]
         /\ UNCHANGED <<shown, stored, given, reader, failed>>
<1> DEFINE to == [post[w] EXCEPT !.pc = "record", !.locks = TRUE]
<1>1. /\ post[w].pc = "update" /\ post[w].op \in {"edited", "deleted"}
      /\ \A v \in Writers : post[v].locks => post[v].of # post[w].of
      /\ post' = [post EXCEPT ![w].pc = "record", ![w].locks = TRUE]
      /\ UNCHANGED <<shown, stored, given, reader, failed>>
  BY DEF UpdateComment, Does
<1>2. to \in Post
  <2>1. post[w] \in Post
    BY DEF DiscussionType
  <2> QED
    BY <2>1 DEF Post, PCs
<1>3. post' = [post EXCEPT ![w] = to]
  BY <1>1 DEF DiscussionType
<1>4. /\ to.pc = "record" /\ to.of = post[w].of /\ to.op = post[w].op
      /\ to.seen = post[w].seen /\ to.locks
  BY DEF Post, DiscussionType
<1> HIDE DEF to
<1>5. /\ post' \in [Writers -> Post] /\ post'[w] = to
      /\ \A v \in Writers \ {w} : post'[v] = post[v]
  BY <1>2, <1>3, OnePostMoves
<1> QED
  BY <1>1, <1>4, <1>5 DEF DiscussionType, shown, stored, Same

LEMMA Records ==
  ASSUME DiscussionType, NEW w \in Writers, Record(w)
  PROVE  /\ DiscussionType' /\ post[w].pc = "record"
         /\ given["events"] < MaxEvents /\ given["events"] \in Nat
         /\ given' = [given EXCEPT !["events"] = @ + 1]
         /\ post'[w].pc = "commit" /\ post'[w].event = given["events"] + 1
         /\ Same(w) /\ (post'[w].locks <=> post[w].locks)
         /\ \A v \in Writers \ {w} : post'[v] = post[v]
         /\ UNCHANGED <<shown, stored, reader, failed>>
<1> DEFINE k == given["events"] + 1
<1>1. /\ post[w].pc = "record" /\ given["events"] < MaxEvents
      /\ given' = [given EXCEPT !["events"] = @ + 1]
      /\ post' = [post EXCEPT ![w].pc = "commit", ![w].event = given'["events"]]
      /\ UNCHANGED <<shown, stored, reader, failed>>
  BY DEF Record
<1>2. given["events"] \in Nat /\ given'["events"] = k /\ given' \in [Tables -> Nat]
  BY <1>1 DEF DiscussionType, Tables
<1> DEFINE to == [post[w] EXCEPT !.pc = "commit", !.event = k]
<1>3. to \in Post
  <2>1. k \in Nat /\ post[w] \in Post
    BY <1>2 DEF DiscussionType
  <2> HIDE DEF k
  <2> QED
    BY <2>1 DEF Post, PCs
<1>4. post' = [post EXCEPT ![w] = to]
  BY <1>1, <1>2 DEF DiscussionType
<1>5. /\ to.pc = "commit" /\ to.event = k /\ to.of = post[w].of /\ to.op = post[w].op
      /\ to.seen = post[w].seen /\ (to.locks <=> post[w].locks)
  BY DEF Post, DiscussionType
<1> HIDE DEF to
<1>6. /\ post' \in [Writers -> Post] /\ post'[w] = to
      /\ \A v \in Writers \ {w} : post'[v] = post[v]
  BY <1>3, <1>4, OnePostMoves
<1> QED
  BY <1>1, <1>2, <1>5, <1>6 DEF DiscussionType, shown, stored, Same

\* The end of a request.
LEMMA RequestsEnd ==
  ASSUME DiscussionType, NEW w \in Writers, post' = [post EXCEPT ![w] = Quiet]
  PROVE  /\ post' \in [Writers -> Post] /\ post'[w] = Quiet
         /\ \A v \in Writers \ {w} : post'[v] = post[v]
<1>1. Quiet \in Post
  BY DEF Quiet, Post, PCs
<1> QED
  BY <1>1, OnePostMoves

LEMMA Commits ==
  ASSUME DiscussionType, NEW w \in Writers, CommitPost(w)
  PROVE  /\ DiscussionType' /\ post[w].pc = "commit"
         /\ comments' = CASE post[w].op = "added" -> [comments EXCEPT ![post[w].of] = "live"]
                          [] post[w].op = "deleted" -> [comments EXCEPT ![post[w].of] = "deleted"]
                          [] OTHER -> comments
         /\ events' = [events EXCEPT ![post[w].event] =
              [kind |-> post[w].op, of |-> post[w].of, stale |-> Stale(w)]]
         /\ attachments' = attachments \union
              (IF post[w].op = "attached" THEN {post[w].of} ELSE {})
         /\ ScanEnds(w)
         /\ IF post[w].op = "attached"
              THEN post'[w].pc = "enqueue" /\ Same(w) /\ (post'[w].locks <=> post[w].locks)
              ELSE post'[w] = Quiet
         /\ \A v \in Writers \ {w} : post'[v] = post[v]
         /\ UNCHANGED <<files, given, reader, failed>>
<1>1. /\ post[w].pc = "commit"
      /\ comments' = CASE post[w].op = "added" -> [comments EXCEPT ![post[w].of] = "live"]
                          [] post[w].op = "deleted" -> [comments EXCEPT ![post[w].of] = "deleted"]
                          [] OTHER -> comments
      /\ events' = [events EXCEPT ![post[w].event] =
              [kind |-> post[w].op, of |-> post[w].of, stale |-> Stale(w)]]
      /\ attachments' = attachments \union
              (IF post[w].op = "attached" THEN {post[w].of} ELSE {})
      /\ ScanEnds(w)
      /\ post' = [post EXCEPT ![w] = IF post[w].op = "attached"
                                       THEN [post[w] EXCEPT !.pc = "enqueue"] ELSE Quiet]
      /\ UNCHANGED <<files, given, reader, failed>>
  BY DEF CommitPost
<1>2. post[w] \in Post
  BY DEF DiscussionType
<1>3. comments' \in [CommentIds -> {"none", "live", "deleted"}]
  <2>1. comments \in [CommentIds -> {"none", "live", "deleted"}]
    BY DEF DiscussionType
  <2>2. \/ comments' = [comments EXCEPT ![post[w].of] = "live"]
        \/ comments' = [comments EXCEPT ![post[w].of] = "deleted"]
        \/ comments' = comments
    BY <1>1
  <2> QED
    BY <2>1, <2>2
<1>4. events' \in [EventIds -> Event]
  <2>1. Stale(w) \in BOOLEAN
    BY DEF Stale
  <2> DEFINE e == [kind |-> post[w].op, of |-> post[w].of, stale |-> Stale(w)]
  <2>2. e \in Event
    BY <1>2, <2>1 DEF Event, Post
  <2>3. events' = [events EXCEPT ![post[w].event] = e] /\ events \in [EventIds -> Event]
    BY <1>1 DEF DiscussionType
  <2> HIDE DEF e
  <2> QED
    BY <2>2, <2>3
<1>5. scans' \in [Uploads -> {"none", "queued", "done"}]
  BY <1>1 DEF DiscussionType, ScanEnds
<1>6. /\ post' \in [Writers -> Post]
      /\ \A v \in Writers \ {w} : post'[v] = post[v]
      /\ IF post[w].op = "attached"
           THEN post'[w].pc = "enqueue" /\ Same(w) /\ (post'[w].locks <=> post[w].locks)
           ELSE post'[w] = Quiet
  <2>1. CASE post[w].op = "attached"
    <3>1. post' = [post EXCEPT ![w].pc = "enqueue"]
      BY <1>1, <2>1 DEF DiscussionType
    <3>2. "enqueue" \in PCs
      BY DEF PCs
    <3> QED
      BY <2>1, <3>1, <3>2, RequestsMove
  <2>2. CASE post[w].op # "attached"
    BY <1>1, <2>2, RequestsEnd
  <2> QED
    BY <2>1, <2>2
<1> QED
  BY <1>1, <1>3, <1>4, <1>5, <1>6 DEF DiscussionType
LEMMA Opens ==
  ASSUME DiscussionType, NEW w \in Writers, OpenFile(w)
  PROVE  \E u \in Uploads :
           /\ DiscussionType' /\ files[u] = "none" /\ post[w].pc = "quiet"
           /\ post'[w].pc = "write" /\ post'[w].op = "attached" /\ post'[w].of = u
           /\ ~ post'[w].locks
           /\ \A v \in Writers \ {w} : post'[v] = post[v]
           /\ files' = [files EXCEPT ![u] = "partial"]
           /\ UNCHANGED <<shown, scans, given, reader, failed>>
<1>1. PICK u \in Uploads :
        /\ files[u] = "none" /\ post[w].pc = "quiet"
        /\ post' = [post EXCEPT ![w] = [Quiet EXCEPT
             !.pc = "write", !.op = "attached", !.of = u]]
        /\ files' = [files EXCEPT ![u] = "partial"]
        /\ UNCHANGED <<shown, scans, given, reader, failed>>
  BY DEF OpenFile
<1> DEFINE to == [Quiet EXCEPT !.pc = "write", !.op = "attached", !.of = u]
<1>2. to \in Post
  BY DEF Quiet, Post, PCs, Kinds
<1>3. post' = [post EXCEPT ![w] = to]
  BY <1>1
<1>4. /\ post' \in [Writers -> Post] /\ post'[w] = to
      /\ \A v \in Writers \ {w} : post'[v] = post[v]
  <2> HIDE DEF to
  <2> QED
    BY <1>2, <1>3, OnePostMoves
<1>5. files' \in [Uploads -> {"none", "partial", "whole"}]
  BY <1>1 DEF DiscussionType
<1>6. to.pc = "write" /\ to.op = "attached" /\ to.of = u /\ ~ to.locks
  BY DEF Quiet
<1> HIDE DEF to
<1> QED
  BY <1>1, <1>4, <1>5, <1>6 DEF DiscussionType, shown

LEMMA Finishes ==
  ASSUME DiscussionType, NEW w \in Writers, FinishFile(w)
  PROVE  /\ DiscussionType' /\ post[w].op = "attached" /\ post[w].pc = "write"
         /\ files' = [files EXCEPT ![post[w].of] = "whole"]
         /\ post'[w].pc = "record" /\ Same(w) /\ (post'[w].locks <=> post[w].locks)
         /\ \A v \in Writers \ {w} : post'[v] = post[v]
         /\ UNCHANGED <<shown, scans, given, reader, failed>>
<1>1. /\ post[w].op = "attached" /\ post[w].pc = "write"
      /\ files' = [files EXCEPT ![post[w].of] = "whole"]
      /\ post' = [post EXCEPT ![w].pc = "record"]
      /\ UNCHANGED <<shown, scans, given, reader, failed>>
  BY DEF FinishFile, Does, Goes
<1>2. /\ post' \in [Writers -> Post] /\ post'[w].pc = "record" /\ Same(w)
      /\ (post'[w].locks <=> post[w].locks)
      /\ \A v \in Writers \ {w} : post'[v] = post[v]
  <2>1. "record" \in PCs
    BY DEF PCs
  <2> QED
    BY <1>1, <2>1, RequestsMove
<1>3. files' \in [Uploads -> {"none", "partial", "whole"}]
  BY <1>1 DEF DiscussionType
<1> QED
  BY <1>1, <1>2, <1>3 DEF DiscussionType, shown

LEMMA Refuses ==
  ASSUME DiscussionType, NEW w \in Writers, TooLarge(w)
  PROVE  /\ DiscussionType' /\ post[w].op = "attached" /\ post[w].pc = "write"
         /\ files' = [files EXCEPT ![post[w].of] = "none"]
         /\ failed' = failed \union {post[w].of}
         /\ post'[w] = Quiet
         /\ \A v \in Writers \ {w} : post'[v] = post[v]
         /\ UNCHANGED <<shown, scans, given, reader>>
<1>1. /\ post[w].op = "attached" /\ post[w].pc = "write"
      /\ files' = [files EXCEPT ![post[w].of] = "none"]
      /\ failed' = failed \union {post[w].of}
      /\ post' = [post EXCEPT ![w] = Quiet]
      /\ UNCHANGED <<shown, scans, given, reader>>
  BY DEF TooLarge, Does
<1>2. /\ post' \in [Writers -> Post] /\ post'[w] = Quiet
      /\ \A v \in Writers \ {w} : post'[v] = post[v]
  BY <1>1, RequestsEnd
<1>3. files' \in [Uploads -> {"none", "partial", "whole"}]
  BY <1>1 DEF DiscussionType
<1> QED
  BY <1>1, <1>2, <1>3 DEF DiscussionType, shown

LEMMA Enqueues ==
  ASSUME DiscussionType, NEW w \in Writers, EnqueueScan(w)
  PROVE  /\ DiscussionType' /\ post[w].op = "attached" /\ post[w].pc = "enqueue"
         /\ scans' = [scans EXCEPT ![post[w].of] = "queued"]
         /\ post'[w] = Quiet
         /\ \A v \in Writers \ {w} : post'[v] = post[v]
         /\ UNCHANGED <<shown, files, given, reader, failed>>
<1>1. /\ post[w].op = "attached" /\ post[w].pc = "enqueue"
      /\ scans' = [scans EXCEPT ![post[w].of] = "queued"]
      /\ post' = [post EXCEPT ![w] = Quiet]
      /\ UNCHANGED <<shown, files, given, reader, failed>>
  BY DEF EnqueueScan, Does
<1>2. /\ post' \in [Writers -> Post] /\ post'[w] = Quiet
      /\ \A v \in Writers \ {w} : post'[v] = post[v]
  BY <1>1, RequestsEnd
<1>3. scans' \in [Uploads -> {"none", "queued", "done"}]
  BY <1>1 DEF DiscussionType
<1> QED
  BY <1>1, <1>2, <1>3 DEF DiscussionType, shown

LEMMA Fails ==
  ASSUME DiscussionType, NEW w \in Writers, FailPost(w)
  PROVE  /\ DiscussionType'
         /\ failed \subseteq failed'
         /\ post[w].op = "attached" => post[w].of \in failed'
         /\ ScanEnds(w)
         /\ post'[w] = Quiet
         /\ \A v \in Writers \ {w} : post'[v] = post[v]
         /\ UNCHANGED <<shown, files, given, reader>>
<1>1. /\ failed \subseteq failed'
      /\ post[w].op = "attached" => post[w].of \in failed'
      /\ ScanEnds(w)
      /\ post' = [post EXCEPT ![w] = Quiet]
      /\ UNCHANGED <<shown, files, given, reader>>
  BY DEF FailPost
<1>2. /\ post' \in [Writers -> Post] /\ post'[w] = Quiet
      /\ \A v \in Writers \ {w} : post'[v] = post[v]
  BY <1>1, RequestsEnd
<1>3. scans' \in [Uploads -> {"none", "queued", "done"}]
  BY <1>1 DEF DiscussionType, ScanEnds
<1> QED
  BY <1>1, <1>2, <1>3 DEF DiscussionType, shown
LEMMA Begun ==
  ASSUME DiscussionType, NEW w \in Writers,
         AddComment(w) \/ EditComment(w) \/ DeleteComment(w) \/ ScanAttachment(w)
  PROVE  /\ DiscussionType' /\ post[w].pc = "quiet"
         /\ \A v \in Writers \ {w} : post'[v] = post[v]
         /\ ~ post'[w].locks
         /\ UNCHANGED <<shown, stored, given, reader, failed>>
         /\ \/ post'[w].op = "added" /\ post'[w].pc = "insert"
            \/ /\ post'[w].op \in {"edited", "deleted"} /\ post'[w].pc = "update"
               /\ post'[w].of \in CommentIds /\ comments[post'[w].of] = "live"
               /\ post'[w].seen = "live"
            \/ post'[w].op = "scanned" /\ post'[w].pc = "record"
<1> DEFINE fresh(op, of, seen, pc) ==
      [Quiet EXCEPT !.pc = pc, !.op = op, !.of = of, !.seen = seen]
<1>0. ASSUME NEW op, NEW of, NEW seen, NEW pc
      PROVE  /\ fresh(op, of, seen, pc).op = op /\ fresh(op, of, seen, pc).of = of
             /\ fresh(op, of, seen, pc).seen = seen /\ fresh(op, of, seen, pc).pc = pc
             /\ ~ fresh(op, of, seen, pc).locks
  BY DEF Quiet
<1>1. CASE AddComment(w)
  <2>1. /\ Begins(w, "added", Nothing, "none", "insert")
        /\ "added" \in Kinds /\ "insert" \in PCs
    BY <1>1 DEF AddComment, Kinds, Changes, PCs
  <2>2. /\ DiscussionType' /\ post[w].pc = "quiet"
        /\ post'[w] = fresh("added", Nothing, "none", "insert")
        /\ \A v \in Writers \ {w} : post'[v] = post[v]
        /\ UNCHANGED <<shown, stored, given, reader, failed>>
    BY <2>1, RequestsBegin
  <2> HIDE DEF fresh
  <2> QED
    BY <1>0, <2>2
<1>2. CASE EditComment(w)
  <2>1. PICK n \in CommentIds : comments[n] = "live" /\ Begins(w, "edited", n, "live", "update")
    BY <1>2 DEF EditComment, CommentIds
  <2>2. "edited" \in Kinds /\ "update" \in PCs
    BY DEF Kinds, Changes, PCs
  <2>3. /\ DiscussionType' /\ post[w].pc = "quiet"
        /\ post'[w] = fresh("edited", n, "live", "update")
        /\ \A v \in Writers \ {w} : post'[v] = post[v]
        /\ UNCHANGED <<shown, stored, given, reader, failed>>
    BY <2>1, <2>2, RequestsBegin
  <2> HIDE DEF fresh
  <2> QED
    BY <1>0, <2>1, <2>3 DEF shown
<1>3. CASE DeleteComment(w)
  <2>1. PICK n \in CommentIds : comments[n] = "live" /\ Begins(w, "deleted", n, "live", "update")
    BY <1>3 DEF DeleteComment, CommentIds
  <2>2. "deleted" \in Kinds /\ "update" \in PCs
    BY DEF Kinds, Changes, PCs
  <2>3. /\ DiscussionType' /\ post[w].pc = "quiet"
        /\ post'[w] = fresh("deleted", n, "live", "update")
        /\ \A v \in Writers \ {w} : post'[v] = post[v]
        /\ UNCHANGED <<shown, stored, given, reader, failed>>
    BY <2>1, <2>2, RequestsBegin
  <2> HIDE DEF fresh
  <2> QED
    BY <1>0, <2>1, <2>3 DEF shown
<1>4. CASE ScanAttachment(w)
  <2>1. PICK u \in Uploads : Begins(w, "scanned", u, Nothing, "record")
    BY <1>4 DEF ScanAttachment
  <2>2. "scanned" \in Kinds /\ "record" \in PCs
    BY DEF Kinds, PCs
  <2>3. /\ DiscussionType' /\ post[w].pc = "quiet"
        /\ post'[w] = fresh("scanned", u, Nothing, "record")
        /\ \A v \in Writers \ {w} : post'[v] = post[v]
        /\ UNCHANGED <<shown, stored, given, reader, failed>>
    BY <2>1, <2>2, RequestsBegin
  <2> HIDE DEF fresh
  <2> QED
    BY <1>0, <2>3
<1> QED
  BY <1>1, <1>2, <1>3, <1>4

-----------------------------------------------------------------------------
(* Files, attachments and their scans.                                     *)

Uploading(w, u) == post[w].op = "attached" /\ post[w].of = u

\* Of each upload there is one request at most; where it is tells what there is.
UploadsOK ==
  \A w \in Writers : \A u : Uploading(w, u) =>
    /\ u \in Uploads
    /\ post[w].pc \in {"write", "record", "commit", "enqueue"}
    /\ files[u] # "none"
    /\ post[w].pc # "write" => files[u] = "whole"
    /\ (post[w].pc = "enqueue") <=> u \in attachments
    /\ \A v \in Writers \ {w} : ~ Uploading(v, u)

UploadInv == DiscussionType /\ UploadsOK /\ AttachmentsAreStored

\* A request that has no upload to do with.
LEMMA Elsewhere ==
  ASSUME UploadInv, DiscussionType', NEW w \in Writers,
         post[w].op # "attached", post'[w].op # "attached",
         \A v \in Writers \ {w} : post'[v] = post[v],
         files' = files, attachments' = attachments, failed \subseteq failed',
         \A u \in Uploads : scans[u] # "none" => scans'[u] # "none"
  PROVE  UploadInv'
<1>1. \A v \in Writers : (post'[v].op = "attached" \/ post[v].op = "attached") =>
                            post'[v] = post[v]
  OBVIOUS
<1>2. \A v \in Writers : \A u : (post'[v].op = "attached" /\ post'[v].of = u) <=> Uploading(v, u)
  BY <1>1 DEF Uploading
<1>3. UploadsOK'
  BY <1>1, <1>2 DEF UploadInv, UploadsOK, Uploading
<1>4. AttachmentsAreStored'
  BY <1>1 DEF UploadInv, AttachmentsAreStored
<1> QED
  BY <1>3, <1>4 DEF UploadInv
\* One request moves on and its upload with it; what the others upload is untouched.
LEMMA Ashore ==
  ASSUME UploadInv, DiscussionType', NEW w \in Writers, NEW u \in Uploads,
         post[w].op = "attached" => post[w].of = u,
         post'[w].op = "attached" => post'[w].of = u,
         \A v \in Writers \ {w} : post'[v] = post[v] /\ ~ Uploading(v, u),
         \A x \in Uploads \ {u} : /\ files'[x] = files[x] /\ scans'[x] = scans[x]
                                  /\ x \in attachments' <=> x \in attachments,
         failed \subseteq failed',
         post'[w].op = "attached" =>
           /\ post'[w].pc \in {"write", "record", "commit", "enqueue"}
           /\ files'[u] # "none"
           /\ post'[w].pc # "write" => files'[u] = "whole"
           /\ (post'[w].pc = "enqueue") <=> u \in attachments',
         u \in attachments' =>
           files'[u] = "whole" /\ (scans'[u] = "none" => post'[w].op = "attached" \/ u \in failed'),
         u \notin attachments' /\ files'[u] # "none" =>
           post'[w].op = "attached" \/ u \in failed'
  PROVE  UploadInv'
<1>1. ASSUME NEW v \in Writers, NEW x, post'[v].op = "attached", post'[v].of = x
      PROVE  /\ x \in Uploads
             /\ post'[v].pc \in {"write", "record", "commit", "enqueue"}
             /\ files'[x] # "none"
             /\ post'[v].pc # "write" => files'[x] = "whole"
             /\ (post'[v].pc = "enqueue") <=> x \in attachments'
             /\ \A z \in Writers \ {v} : ~ (post'[z].op = "attached" /\ post'[z].of = x)
  <2>1. CASE v = w
    BY <1>1, <2>1 DEF Uploading
  <2>2. CASE v # w
    <3>1. post'[v] = post[v] /\ x # u /\ Uploading(v, x)
      BY <1>1, <2>2 DEF Uploading
    <3>2. /\ x \in Uploads
          /\ post[v].pc \in {"write", "record", "commit", "enqueue"}
          /\ files[x] # "none"
          /\ post[v].pc # "write" => files[x] = "whole"
          /\ (post[v].pc = "enqueue") <=> x \in attachments
          /\ \A z \in Writers \ {v} : ~ Uploading(z, x)
      BY <3>1 DEF UploadInv, UploadsOK
    <3>3. \A z \in Writers \ {v} : ~ (post'[z].op = "attached" /\ post'[z].of = x)
      BY <3>1, <3>2 DEF Uploading
    <3> QED
      BY <3>1, <3>2, <3>3
  <2> QED
    BY <2>1, <2>2
<1>2. UploadsOK'
  BY <1>1 DEF UploadsOK, Uploading
<1>3. ASSUME NEW x \in Uploads
      PROVE  LET underWay == \E v \in Writers : post'[v].op = "attached" /\ post'[v].of = x
             IN IF x \in attachments'
                  THEN files'[x] = "whole" /\ (scans'[x] = "none" => underWay \/ x \in failed')
                  ELSE files'[x] # "none" => underWay \/ x \in failed'
  <2>1. CASE x = u
    BY <2>1
  <2>2. CASE x # u
    <3>1. (\E v \in Writers : post[v].op = "attached" /\ post[v].of = x) =>
            \E v \in Writers : post'[v].op = "attached" /\ post'[v].of = x
      BY <2>2
    <3> QED
      BY <2>2, <3>1 DEF UploadInv, AttachmentsAreStored
  <2> QED
    BY <2>1, <2>2
<1>4. AttachmentsAreStored'
  BY <1>3 DEF AttachmentsAreStored
<1> QED
  BY <1>2, <1>4 DEF UploadInv

\* What is known of a request that uploads.
LEMMA UploadUnderWay ==
  ASSUME UploadInv, NEW w \in Writers, post[w].op = "attached"
  PROVE  /\ post[w].of \in Uploads
         /\ post[w].pc \in {"write", "record", "commit", "enqueue"}
         /\ files[post[w].of] # "none"
         /\ post[w].pc # "write" => files[post[w].of] = "whole"
         /\ (post[w].pc = "enqueue") <=> post[w].of \in attachments
         /\ \A v \in Writers \ {w} : ~ Uploading(v, post[w].of)
         /\ post[w].of \in attachments => files[post[w].of] = "whole"
BY DEF UploadInv, UploadsOK, Uploading, AttachmentsAreStored

LEMMA UploadMoves ==
  ASSUME UploadInv, NEW w \in Writers,
         \/ OpenFile(w) \/ FinishFile(w) \/ TooLarge(w) \/ EnqueueScan(w)
  PROVE  UploadInv'
<1>0. DiscussionType
  BY DEF UploadInv
<1>1. CASE OpenFile(w)
  <2>1. PICK u \in Uploads :
           /\ DiscussionType' /\ files[u] = "none" /\ post[w].pc = "quiet"
           /\ post'[w].pc = "write" /\ post'[w].op = "attached" /\ post'[w].of = u
           /\ \A v \in Writers \ {w} : post'[v] = post[v]
           /\ files' = [files EXCEPT ![u] = "partial"]
           /\ UNCHANGED <<shown, scans, given, reader, failed>>
    BY <1>0, <1>1, Opens
  <2>2. post'[w].op = "attached" => post'[w].of = u
    BY <2>1
  <2>3. \A v \in Writers : ~ Uploading(v, u)
    BY <2>1 DEF UploadInv, UploadsOK
  <2>4. u \notin attachments /\ post[w].op # "attached"
    BY <2>1, UploadUnderWay DEF UploadInv, AttachmentsAreStored
  <2>5. /\ files'[u] = "partial" /\ attachments' = attachments /\ scans' = scans
        /\ failed' = failed /\ \A x \in Uploads \ {u} : files'[x] = files[x]
    BY <1>0, <2>1 DEF shown, DiscussionType
  <2>6. /\ \A v \in Writers \ {w} : post'[v] = post[v] /\ ~ Uploading(v, u)
        /\ \A x \in Uploads \ {u} : /\ files'[x] = files[x] /\ scans'[x] = scans[x]
                                    /\ x \in attachments' <=> x \in attachments
        /\ failed \subseteq failed'
    BY <2>1, <2>3, <2>5
  <2> QED
    <3>1. /\ DiscussionType'
          /\ post[w].op = "attached" => post[w].of = u
          /\ files'[u] # "none" /\ post'[w].op = "attached" /\ post'[w].pc = "write"
          /\ u \notin attachments'
      BY <2>1, <2>4, <2>5
    <3> QED
      BY <2>2, <2>6, <3>1, Ashore
<1> DEFINE u == post[w].of
<1>2. CASE FinishFile(w)
  <2>1. /\ DiscussionType' /\ post[w].op = "attached" /\ post[w].pc = "write"
        /\ files' = [files EXCEPT ![u] = "whole"]
        /\ post'[w].pc = "record" /\ post'[w].op = "attached" /\ post'[w].of = u
        /\ \A v \in Writers \ {w} : post'[v] = post[v]
        /\ attachments' = attachments /\ scans' = scans /\ failed' = failed
    BY <1>0, <1>2, Finishes DEF Same, shown
  <2>2. /\ u \in Uploads /\ u \notin attachments
        /\ \A v \in Writers \ {w} : ~ Uploading(v, u)
    BY <2>1, UploadUnderWay
  <2>3. files'[u] = "whole" /\ \A x \in Uploads \ {u} : files'[x] = files[x]
    BY <1>0, <2>1, <2>2 DEF DiscussionType
  <2> HIDE DEF u
  <2>4. /\ \A v \in Writers \ {w} : post'[v] = post[v] /\ ~ Uploading(v, u)
        /\ \A x \in Uploads \ {u} : /\ files'[x] = files[x] /\ scans'[x] = scans[x]
                                    /\ x \in attachments' <=> x \in attachments
        /\ failed \subseteq failed'
    BY <2>1, <2>2, <2>3
  <2>5. post[w].op = "attached" => post[w].of = u
    BY DEF u
  <2> QED
    BY <2>1, <2>2, <2>3, <2>4, <2>5, Ashore
<1>3. CASE TooLarge(w)
  <2>1. /\ DiscussionType' /\ post[w].op = "attached" /\ post[w].pc = "write"
        /\ files' = [files EXCEPT ![u] = "none"]
        /\ post'[w].op # "attached" /\ failed' = failed \union {u}
        /\ \A v \in Writers \ {w} : post'[v] = post[v]
        /\ attachments' = attachments /\ scans' = scans
    BY <1>0, <1>3, Refuses, DiscussionAssumption DEF shown, Quiet, Kinds
  <2>2. /\ u \in Uploads /\ u \notin attachments
        /\ \A v \in Writers \ {w} : ~ Uploading(v, u)
    BY <2>1, UploadUnderWay
  <2>3. files'[u] = "none" /\ \A x \in Uploads \ {u} : files'[x] = files[x]
    BY <1>0, <2>1, <2>2 DEF DiscussionType
  <2> HIDE DEF u
  <2>4. /\ \A v \in Writers \ {w} : post'[v] = post[v] /\ ~ Uploading(v, u)
        /\ \A x \in Uploads \ {u} : /\ files'[x] = files[x] /\ scans'[x] = scans[x]
                                    /\ x \in attachments' <=> x \in attachments
        /\ failed \subseteq failed'
    BY <2>1, <2>2, <2>3
  <2>5. post[w].op = "attached" => post[w].of = u
    BY DEF u
  <2> QED
    BY <2>1, <2>2, <2>3, <2>4, <2>5, Ashore
<1>4. CASE EnqueueScan(w)
  <2>1. /\ DiscussionType' /\ post[w].op = "attached" /\ post[w].pc = "enqueue"
        /\ scans' = [scans EXCEPT ![u] = "queued"]
        /\ post'[w].op # "attached" /\ failed' = failed
        /\ \A v \in Writers \ {w} : post'[v] = post[v]
        /\ attachments' = attachments /\ files' = files
    BY <1>0, <1>4, Enqueues, DiscussionAssumption DEF shown, Quiet, Kinds
  <2>2. /\ u \in Uploads /\ files[u] = "whole" /\ u \in attachments
        /\ \A v \in Writers \ {w} : ~ Uploading(v, u)
    BY <2>1, UploadUnderWay
  <2>3. scans'[u] = "queued" /\ \A x \in Uploads \ {u} : scans'[x] = scans[x]
    BY <1>0, <2>1, <2>2 DEF DiscussionType
  <2> HIDE DEF u
  <2>4. /\ \A v \in Writers \ {w} : post'[v] = post[v] /\ ~ Uploading(v, u)
        /\ \A x \in Uploads \ {u} : /\ files'[x] = files[x] /\ scans'[x] = scans[x]
                                    /\ x \in attachments' <=> x \in attachments
        /\ failed \subseteq failed'
    BY <2>1, <2>2, <2>3
  <2>5. post[w].op = "attached" => post[w].of = u
    BY DEF u
  <2> QED
    BY <2>1, <2>2, <2>3, <2>4, <2>5, Ashore
<1> QED
  BY <1>1, <1>2, <1>3, <1>4
LEMMA UploadIsRecorded ==
  ASSUME UploadInv, NEW w \in Writers, Record(w) \/ CommitPost(w) \/ FailPost(w)
  PROVE  UploadInv'
<1>0. DiscussionType
  BY DEF UploadInv
<1> DEFINE u == post[w].of
<1>1. CASE post[w].op = "attached"
  <2>1. /\ u \in Uploads
        /\ post[w].pc # "write" => files[u] = "whole"
        /\ (post[w].pc = "enqueue") <=> u \in attachments
        /\ \A v \in Writers \ {w} : ~ Uploading(v, u)
    BY <1>1, UploadUnderWay
  <2>2. CASE Record(w)
    <3>1. /\ DiscussionType' /\ post[w].pc = "record"
          /\ post'[w].pc = "commit" /\ post'[w].op = "attached" /\ post'[w].of = u
          /\ \A v \in Writers \ {w} : post'[v] = post[v]
          /\ UNCHANGED <<files, scans, attachments, failed>>
      BY <1>0, <1>1, <2>2, Records DEF Same, shown, stored
    <3>2. /\ \A v \in Writers \ {w} : post'[v] = post[v] /\ ~ Uploading(v, u)
          /\ \A x \in Uploads \ {u} : /\ files'[x] = files[x] /\ scans'[x] = scans[x]
                                      /\ x \in attachments' <=> x \in attachments
          /\ failed \subseteq failed' /\ files'[u] = "whole"
      BY <2>1, <3>1
    <3> HIDE DEF u
    <3>3. post[w].op = "attached" => post[w].of = u
      BY DEF u
    <3> QED
      BY <2>1, <3>1, <3>2, <3>3, Ashore
  <2>3. CASE CommitPost(w)
    <3>1. /\ DiscussionType' /\ post[w].pc = "commit"
          /\ post'[w].pc = "enqueue" /\ post'[w].op = "attached" /\ post'[w].of = u
          /\ \A v \in Writers \ {w} : post'[v] = post[v]
          /\ files' = files /\ scans' = scans /\ failed' = failed
          /\ attachments' = attachments \union {u}
      BY <1>0, <1>1, <2>3, Commits DEF Same, ScanEnds
    <3>2. /\ \A v \in Writers \ {w} : post'[v] = post[v] /\ ~ Uploading(v, u)
          /\ \A x \in Uploads \ {u} : /\ files'[x] = files[x] /\ scans'[x] = scans[x]
                                      /\ x \in attachments' <=> x \in attachments
          /\ failed \subseteq failed' /\ files'[u] = "whole" /\ u \in attachments'
      BY <2>1, <3>1
    <3> HIDE DEF u
    <3>3. post[w].op = "attached" => post[w].of = u
      BY DEF u
    <3> QED
      BY <2>1, <3>1, <3>2, <3>3, Ashore
  <2>4. CASE FailPost(w)
    <3>1. /\ DiscussionType' /\ post'[w].op # "attached"
          /\ \A v \in Writers \ {w} : post'[v] = post[v]
          /\ files' = files /\ scans' = scans /\ attachments' = attachments
          /\ failed \subseteq failed' /\ u \in failed'
      BY <1>0, <1>1, <2>4, Fails, DiscussionAssumption DEF Quiet, shown, Kinds, ScanEnds
    <3>2. /\ \A v \in Writers \ {w} : post'[v] = post[v] /\ ~ Uploading(v, u)
          /\ \A x \in Uploads \ {u} : /\ files'[x] = files[x] /\ scans'[x] = scans[x]
                                      /\ x \in attachments' <=> x \in attachments
      BY <2>1, <3>1
    <3>3. u \in attachments => files[u] = "whole"
      BY <1>1, UploadUnderWay
    <3> HIDE DEF u
    <3>4. post[w].op = "attached" => post[w].of = u
      BY DEF u
    <3> QED
      BY <2>1, <3>1, <3>2, <3>3, <3>4, Ashore
  <2> QED
    BY <2>2, <2>3, <2>4
<1>2. CASE post[w].op # "attached"
  <2>1. CASE Record(w)
    BY <1>0, <1>2, <2>1, Records, Elsewhere DEF Same, shown, stored
  <2>2. CASE CommitPost(w) \/ FailPost(w)
    <3>1. /\ DiscussionType' /\ post'[w] = Quiet
          /\ ScanEnds(w)
          /\ \A v \in Writers \ {w} : post'[v] = post[v]
          /\ files' = files /\ attachments' = attachments /\ failed \subseteq failed'
      <4>1. CASE CommitPost(w)
        BY <1>0, <1>2, <4>1, Commits
      <4>2. CASE FailPost(w)
        BY <1>0, <1>2, <4>2, Fails DEF shown
      <4> QED
        BY <2>2, <4>1, <4>2
    <3>2. post'[w].op # "attached"
      BY <3>1, DiscussionAssumption DEF Quiet, Kinds
    <3>3. \A x \in Uploads : scans[x] # "none" => scans'[x] # "none"
      BY <1>0, <3>1 DEF DiscussionType, ScanEnds
    <3> QED
      BY <1>2, <3>1, <3>2, <3>3, Elsewhere
  <2> QED
    BY <2>1, <2>2
<1> QED
  BY <1>1, <1>2

LEMMA UploadStep == UploadInv /\ [DiscussionNext]_discussionVars => UploadInv'
<1> SUFFICES ASSUME UploadInv, [DiscussionNext]_discussionVars PROVE UploadInv'
  OBVIOUS
<1>0. DiscussionType
  BY DEF UploadInv
<1>1. CASE UNCHANGED discussionVars
  BY <1>1 DEF discussionVars, shown, stored, UploadInv, DiscussionType, UploadsOK, Uploading,
    AttachmentsAreStored
<1>2. CASE \E t \in Tables : ReadPage(t)
  BY <1>2 DEF ReadPage, shown, stored, UploadInv, DiscussionType, UploadsOK, Uploading,
    AttachmentsAreStored
<1>3. ASSUME NEW w \in Writers,
             AddComment(w) \/ EditComment(w) \/ DeleteComment(w) \/ ScanAttachment(w)
      PROVE  UploadInv'
  <2>1. /\ DiscussionType' /\ post[w].pc = "quiet" /\ post'[w].op # "attached"
        /\ \A v \in Writers \ {w} : post'[v] = post[v]
        /\ UNCHANGED <<files, scans, attachments, failed>>
    BY <1>0, <1>3, Begun DEF shown, stored
  <2>2. post[w].op # "attached"
    BY <2>1, UploadUnderWay
  <2> QED
    BY <2>1, <2>2, Elsewhere
<1>4. ASSUME NEW w \in Writers, InsertComment(w) \/ UpdateComment(w)
      PROVE  UploadInv'
  <2>1. /\ DiscussionType' /\ post[w].op # "attached" /\ post'[w].op # "attached"
        /\ \A v \in Writers \ {w} : post'[v] = post[v]
        /\ UNCHANGED <<files, scans, attachments, failed>>
    BY <1>0, <1>4, Inserts, Updates DEF shown, stored, Same
  <2> QED
    BY <2>1, Elsewhere
<1> QED
  BY <1>1, <1>2, <1>3, <1>4, UploadMoves, UploadIsRecorded DEF DiscussionNext

\* save_attachment, download_attachment and scan_attachment: however uploads overlap
\* and fail, what is listed can be downloaded, and what lies on the disk is an
\* attachment's or an unfinished or failed upload's.
THEOREM AttachmentsStayStored == DiscussionSpec => []AttachmentsAreStored
<1>1. DiscussionInit => UploadInv
  <2> SUFFICES ASSUME DiscussionInit PROVE UploadInv
    OBVIOUS
  <2>1. \A w \in Writers : post[w].op # "attached"
    BY DiscussionAssumption DEF DiscussionInit, Quiet, Kinds
  <2> QED
    BY <2>1, TypeInitially DEF DiscussionInit, UploadInv, UploadsOK, Uploading,
      AttachmentsAreStored
<1> QED
  BY <1>1, UploadStep, PTL DEF DiscussionSpec, UploadInv

-----------------------------------------------------------------------------
(* Deletions.                                                              *)

\* A request that edits or deletes locks its comment before it gets the number of
\* its event, and keeps it until the event is shown: nothing that happens to the
\* comment meanwhile can get a later number.  A comment being added is not shown.
RequestOK(p, rows, shows, numbers) ==
  /\ p.op \in {"edited", "deleted"} =>
       /\ p.of \in CommentIds /\ rows[p.of] # "none" /\ p.seen = "live"
       /\ p.pc \in {"record", "commit"} => p.locks
  /\ p.op = "added" /\ p.pc \in {"record", "commit"} =>
       p.of \in CommentIds /\ rows[p.of] = "none" /\ p.of <= numbers["comments"]
  /\ p.locks => p.op \in {"edited", "deleted"}
  /\ p.pc = "commit" => p.event \in EventIds /\ p.event <= numbers["events"]
  /\ p.pc = "commit" /\ p.op \in {"edited", "deleted"} =>
       \A k \in EventIds : k > p.event /\ shows[k].of = p.of => shows[k].kind \notin Changes

Apart(p, q) ==
  /\ p.locks /\ q.locks => p.of # q.of
  /\ /\ p.op = "added" /\ p.pc \in {"record", "commit"}
     /\ q.op = "added" /\ q.pc \in {"record", "commit"}
     => p.of # q.of

NumbersOK ==
  /\ \A n \in CommentIds : comments[n] # "none" => n <= given["comments"]
  /\ \A k \in EventIds : events[k].kind \in Changes => k <= given["events"]
  /\ \A k \in EventIds : events[k].kind \in Changes =>
       /\ events[k].of \in CommentIds /\ comments[events[k].of] # "none"
       /\ events[k].kind = "deleted" => comments[events[k].of] = "deleted"

DeletionInv ==
  /\ DiscussionType
  /\ NumbersOK
  /\ \A w \in Writers : RequestOK(post[w], comments, events, given)
  /\ \A w \in Writers : \A v \in Writers \ {w} : Apart(post[w], post[v])
  /\ DeletionIsFinal

LEMMA Transitive ==
  ASSUME NEW S \in SUBSET Nat, NEW i, NEW m \in Nat, NEW n \in Nat, i \in S, i <= m, m <= n
  PROVE  i <= n
<1>1. i \in Nat
  OBVIOUS
<1> QED
  BY <1>1

LEMMA NumbersGrow ==
  ASSUME NEW p, NEW rows, NEW shows, NEW g, NEW h, RequestOK(p, rows, shows, g),
         g["comments"] \in Nat, g["events"] \in Nat, h["comments"] \in Nat, h["events"] \in Nat,
         g["comments"] <= h["comments"], g["events"] <= h["events"],
         CommentIds \subseteq Nat, EventIds \subseteq Nat
  PROVE  RequestOK(p, rows, shows, h)
<1>1. p.of \in CommentIds /\ p.of <= g["comments"] => p.of <= h["comments"]
  BY Transitive
<1>2. p.event \in EventIds /\ p.event <= g["events"] => p.event <= h["events"]
  BY Transitive
<1> QED
  BY <1>1, <1>2 DEF RequestOK

\* A request that shows nothing answers for itself alone.
LEMMA Behind ==
  ASSUME DeletionInv, DiscussionType', NEW w \in Writers,
         comments' = comments, events' = events,
         given["comments"] <= given'["comments"], given["events"] <= given'["events"],
         \A v \in Writers \ {w} : post'[v] = post[v],
         RequestOK(post'[w], comments, events, given'),
         \A v \in Writers \ {w} : Apart(post'[w], post[v])
  PROVE  DeletionInv'
<1>0. /\ given["comments"] \in Nat /\ given["events"] \in Nat
      /\ given'["comments"] \in Nat /\ given'["events"] \in Nat
      /\ CommentIds \subseteq Nat /\ EventIds \subseteq Nat
  BY DEF DeletionInv, DiscussionType, Tables, CommentIds, EventIds
<1>1. NumbersOK'
  <2>1. \A n \in CommentIds : comments[n] # "none" => n <= given'["comments"]
    BY <1>0 DEF DeletionInv, NumbersOK
  <2>2. \A k \in EventIds : events[k].kind \in Changes => k <= given'["events"]
    BY <1>0 DEF DeletionInv, NumbersOK
  <2> QED
    BY <2>1, <2>2 DEF DeletionInv, NumbersOK
<1>2. ASSUME NEW v \in Writers PROVE RequestOK(post'[v], comments, events, given')
  <2>1. CASE v # w
    <3>1. RequestOK(post[v], comments, events, given) /\ post'[v] = post[v]
      BY <2>1 DEF DeletionInv
    <3> QED
      BY <1>0, <3>1, NumbersGrow
  <2> QED
    BY <2>1
<1>3. ASSUME NEW v \in Writers, NEW x \in Writers \ {v} PROVE Apart(post'[v], post'[x])
  <2>1. \A y \in Writers \ {w} : Apart(post[y], post'[w])
    BY DEF Apart
  <2> QED
    BY <2>1 DEF DeletionInv
<1>4. DeletionIsFinal'
  BY DEF DeletionInv, DeletionIsFinal
<1> QED
  BY <1>1, <1>2, <1>3, <1>4 DEF DeletionInv

\* An idle request, and any that neither locks nor adds, is apart from every other.
LEMMA Bystander ==
  ASSUME NEW p, ~ p.locks, p.op # "added" \/ p.pc \notin {"record", "commit"}, NEW q
  PROVE  Apart(p, q)
BY DEF Apart

LEMMA QuietOK == RequestOK(Quiet, comments, events, given) /\ \A q : Apart(Quiet, q)
<1>1. Quiet.op \notin Kinds /\ Quiet.pc = "quiet" /\ ~ Quiet.locks
  BY DiscussionAssumption DEF Quiet
<1> QED
  BY <1>1, Bystander DEF RequestOK, Kinds, Changes
LEMMA GivenNumbers ==
  ASSUME DiscussionType
  PROVE  given["comments"] \in Nat /\ given["events"] \in Nat
BY DEF DiscussionType, Tables

\* Requests that begin, and all there is to an upload before it is recorded.
LEMMA BystandersKeep ==
  ASSUME DeletionInv, NEW w \in Writers,
         \/ AddComment(w) \/ EditComment(w) \/ DeleteComment(w) \/ ScanAttachment(w)
         \/ OpenFile(w) \/ FinishFile(w) \/ TooLarge(w) \/ EnqueueScan(w) \/ FailPost(w)
  PROVE  DeletionInv'
<1>0. DiscussionType /\ RequestOK(post[w], comments, events, given)
      /\ given["comments"] \in Nat /\ given["events"] \in Nat
  BY GivenNumbers DEF DeletionInv
<1>1. CASE AddComment(w) \/ EditComment(w) \/ DeleteComment(w) \/ ScanAttachment(w)
  <2>1. /\ DiscussionType' /\ \A v \in Writers \ {w} : post'[v] = post[v]
        /\ UNCHANGED <<comments, events, given>> /\ ~ post'[w].locks
        /\ \/ post'[w].op = "added" /\ post'[w].pc = "insert"
           \/ /\ post'[w].op \in {"edited", "deleted"} /\ post'[w].pc = "update"
              /\ post'[w].of \in CommentIds /\ comments[post'[w].of] = "live"
              /\ post'[w].seen = "live"
           \/ post'[w].op = "scanned" /\ post'[w].pc = "record"
    BY <1>0, <1>1, Begun DEF shown
  <2>2. RequestOK(post'[w], comments, events, given)
    BY <2>1 DEF RequestOK
  <2>3. \A v \in Writers \ {w} : Apart(post'[w], post[v])
    BY <2>1, Bystander
  <2> QED
    BY <1>0, <2>1, <2>2, <2>3, Behind
<1>2. CASE TooLarge(w) \/ EnqueueScan(w) \/ FailPost(w)
  <2>1. /\ DiscussionType' /\ \A v \in Writers \ {w} : post'[v] = post[v]
        /\ UNCHANGED <<comments, events, given>> /\ post'[w] = Quiet
    BY <1>0, <1>2, Refuses, Enqueues, Fails DEF shown
  <2> QED
    BY <1>0, <2>1, QuietOK, Behind
<1>3. CASE OpenFile(w)
  <2>1. /\ DiscussionType' /\ \A v \in Writers \ {w} : post'[v] = post[v]
        /\ UNCHANGED <<comments, events, given>>
        /\ post'[w].op = "attached" /\ post'[w].pc = "write" /\ ~ post'[w].locks
    BY <1>0, <1>3, Opens DEF shown
  <2>2. RequestOK(post'[w], comments, events, given)
    BY <2>1 DEF RequestOK
  <2> QED
    BY <1>0, <2>1, <2>2, Bystander, Behind
<1>4. CASE FinishFile(w)
  <2>1. /\ DiscussionType' /\ \A v \in Writers \ {w} : post'[v] = post[v]
        /\ UNCHANGED <<comments, events, given>> /\ post[w].op = "attached"
        /\ post'[w].op = "attached" /\ post'[w].pc = "record"
        /\ post'[w].locks <=> post[w].locks
    BY <1>0, <1>4, Finishes DEF shown, Same
  <2>2. ~ post'[w].locks
    BY <1>0, <2>1 DEF RequestOK
  <2>3. RequestOK(post'[w], comments, events, given)
    BY <2>1, <2>2 DEF RequestOK
  <2> QED
    BY <1>0, <2>1, <2>2, <2>3, Bystander, Behind
<1> QED
  BY <1>1, <1>2, <1>3, <1>4

\* A new comment has a number of its own, which no row shows.
LEMMA NewCommentIsApart ==
  ASSUME DeletionInv, NEW w \in Writers, InsertComment(w)
  PROVE  DeletionInv'
<1>0. DiscussionType /\ RequestOK(post[w], comments, events, given) /\ NumbersOK
      /\ given["comments"] \in Nat /\ given["events"] \in Nat
  BY GivenNumbers DEF DeletionInv
<1> DEFINE n == given["comments"] + 1
<1>1. /\ DiscussionType' /\ \A v \in Writers \ {w} : post'[v] = post[v]
      /\ UNCHANGED <<comments, events>> /\ post[w].op = "added"
      /\ post'[w].op = "added" /\ post'[w].pc = "record"
      /\ post'[w].locks <=> post[w].locks
      /\ post'[w].of = n /\ given["comments"] < MaxComments
      /\ given' = [given EXCEPT !["comments"] = @ + 1]
  BY <1>0, Inserts DEF shown
<1>2. given'["comments"] = n /\ given'["events"] = given["events"] /\ n \in CommentIds
      /\ ~ (n <= given["comments"]) /\ given["comments"] <= n /\ n <= n
  BY <1>0, <1>1, DiscussionAssumption DEF DiscussionType, Tables, CommentIds
<1>3. ~ post'[w].locks
  BY <1>0, <1>1 DEF RequestOK
<1>4. comments[n] = "none"
  BY <1>0, <1>2 DEF NumbersOK
<1>5. RequestOK(post'[w], comments, events, given')
  <2> HIDE DEF n
  <2> QED
    BY <1>1, <1>2, <1>3, <1>4 DEF RequestOK
<1>6. ASSUME NEW v \in Writers \ {w} PROVE Apart(post'[w], post[v])
  <2>1. RequestOK(post[v], comments, events, given)
    BY DEF DeletionInv
  <2>2. post[v].op = "added" /\ post[v].pc \in {"record", "commit"} => post[v].of <= given["comments"]
    BY <2>1 DEF RequestOK
  <2> HIDE DEF n
  <2> QED
    BY <1>1, <1>2, <1>3, <2>2 DEF Apart
<1>7. given["events"] <= given'["events"] /\ given["comments"] <= given'["comments"]
  BY <1>0, <1>2
<1> QED
  BY <1>1, <1>5, <1>6, <1>7, Behind

\* The row lock keeps two changes of one comment apart.
LEMMA UpdateIsApart ==
  ASSUME DeletionInv, NEW w \in Writers, UpdateComment(w)
  PROVE  DeletionInv'
<1>0. DiscussionType /\ RequestOK(post[w], comments, events, given)
      /\ given["comments"] \in Nat /\ given["events"] \in Nat
  BY GivenNumbers DEF DeletionInv
<1>1. /\ DiscussionType' /\ \A v \in Writers \ {w} : post'[v] = post[v]
      /\ UNCHANGED <<comments, events, given>>
      /\ post[w].op \in {"edited", "deleted"} /\ post'[w].op = post[w].op
      /\ post'[w].of = post[w].of /\ post'[w].seen = post[w].seen
      /\ post'[w].pc = "record" /\ post'[w].locks
      /\ \A v \in Writers : post[v].locks => post[v].of # post[w].of
  BY <1>0, Updates DEF shown, Same
<1>2. RequestOK(post'[w], comments, events, given)
  BY <1>0, <1>1 DEF RequestOK
<1>3. \A v \in Writers \ {w} : Apart(post'[w], post[v])
  BY <1>1 DEF Apart
<1> QED
  BY <1>0, <1>1, <1>2, <1>3, Behind

\* The number of an event is later than those of all that were handed out.
LEMMA RecordIsLatest ==
  ASSUME DeletionInv, NEW w \in Writers, Record(w)
  PROVE  DeletionInv'
<1>0. DiscussionType /\ RequestOK(post[w], comments, events, given) /\ NumbersOK
      /\ given["comments"] \in Nat /\ given["events"] \in Nat
  BY GivenNumbers DEF DeletionInv
<1> DEFINE e == given["events"] + 1
<1>1. /\ DiscussionType' /\ \A v \in Writers \ {w} : post'[v] = post[v]
      /\ UNCHANGED <<comments, events>> /\ post[w].pc = "record"
      /\ given["events"] < MaxEvents /\ given' = [given EXCEPT !["events"] = @ + 1]
      /\ post'[w].pc = "commit" /\ post'[w].event = e
      /\ post'[w].op = post[w].op /\ post'[w].of = post[w].of /\ post'[w].seen = post[w].seen
      /\ post'[w].locks <=> post[w].locks
  BY <1>0, Records DEF shown, Same
<1>2. given'["events"] = e /\ given'["comments"] = given["comments"] /\ e \in EventIds
      /\ e <= e
  BY <1>0, <1>1, DiscussionAssumption DEF DiscussionType, Tables, EventIds
<1>3. given["events"] <= given'["events"] /\ given["comments"] <= given'["comments"]
  BY <1>0, <1>2
<1>4. \A k \in EventIds : k > e => events[k].kind \notin Changes
  BY <1>0 DEF NumbersOK, EventIds
<1>5. RequestOK(post'[w], comments, events, given')
  <2> HIDE DEF e
  <2> QED
    BY <1>0, <1>1, <1>2, <1>4 DEF RequestOK
<1>6. \A v \in Writers \ {w} : Apart(post'[w], post[v])
  <2>1. \A v \in Writers \ {w} : Apart(post[w], post[v])
    BY DEF DeletionInv
  <2> QED
    BY <1>1, <2>1 DEF Apart
<1> QED
  BY <1>1, <1>3, <1>5, <1>6, Behind
\* What a commit shows of a comment agrees with what is shown already.
LEMMA CommitIsInOrder ==
  ASSUME DeletionInv, NEW w \in Writers, CommitPost(w)
  PROVE  DeletionInv'
<1>0. DiscussionType /\ RequestOK(post[w], comments, events, given) /\ NumbersOK
      /\ DeletionIsFinal
  BY DEF DeletionInv
<1> DEFINE n == post[w].of
<1> DEFINE e == post[w].event
<1>1. /\ DiscussionType' /\ \A v \in Writers \ {w} : post'[v] = post[v]
      /\ post[w].pc = "commit" /\ given' = given
      /\ comments' = CASE post[w].op = "added" -> [comments EXCEPT ![n] = "live"]
                       [] post[w].op = "deleted" -> [comments EXCEPT ![n] = "deleted"]
                       [] OTHER -> comments
      /\ events' = [events EXCEPT ![e] = [kind |-> post[w].op, of |-> n, stale |-> Stale(w)]]
  BY <1>0, Commits
<1>2. e \in EventIds /\ e <= given["events"]
  BY <1>0, <1>1 DEF RequestOK
<1>3. /\ events'[e].kind = post[w].op /\ events'[e].of = n
      /\ events'[e].stale <=> Stale(w)
      /\ \A k \in EventIds \ {e} : events'[k] = events[k]
  BY <1>0, <1>1, <1>2 DEF DiscussionType
<1>4. /\ post[w].op = "added" => /\ n \in CommentIds /\ comments[n] = "none"
                                 /\ n <= given["comments"] /\ comments'[n] = "live"
      /\ post[w].op \in {"edited", "deleted"} =>
           /\ n \in CommentIds /\ comments[n] # "none" /\ post[w].seen = "live"
           /\ post[w].locks
           /\ \A k \in EventIds : k > e /\ events[k].of = n => events[k].kind \notin Changes
      /\ post[w].op = "deleted" => comments'[n] = "deleted"
      /\ post[w].op = "edited" => comments' = comments
  BY <1>0, <1>1 DEF RequestOK, DiscussionType
<1>5. \A m \in CommentIds : \/ comments'[m] = comments[m]
                            \/ m = n /\ post[w].op \in {"added", "deleted"}
  BY <1>0, <1>1 DEF DiscussionType
<1> HIDE DEF n, e
<1>6. NumbersOK'
  <2>1. ASSUME NEW m \in CommentIds, comments'[m] # "none" PROVE m <= given'["comments"]
    BY <1>0, <1>1, <1>4, <1>5, <2>1 DEF NumbersOK
  <2>2. ASSUME NEW k \in EventIds, events'[k].kind \in Changes PROVE k <= given'["events"]
    BY <1>0, <1>1, <1>2, <1>3, <2>2 DEF NumbersOK
  <2>3. ASSUME NEW k \in EventIds, events'[k].kind \in Changes
        PROVE  /\ events'[k].of \in CommentIds /\ comments'[events'[k].of] # "none"
               /\ events'[k].kind = "deleted" => comments'[events'[k].of] = "deleted"
    <3>1. CASE k = e
      BY <1>3, <1>4, <2>3, <3>1 DEF Changes
    <3>2. CASE k # e
      <4>1. /\ events[k].of \in CommentIds /\ comments[events[k].of] # "none"
            /\ events[k].kind = "deleted" => comments[events[k].of] = "deleted"
        BY <1>0, <1>3, <2>3, <3>2 DEF NumbersOK
      <4>2. /\ comments'[events[k].of] # "none"
            /\ events[k].kind = "deleted" => comments'[events[k].of] = "deleted"
        BY <1>4, <1>5, <4>1
      <4> QED
        BY <1>3, <3>2, <4>1, <4>2
    <3> QED
      BY <3>1, <3>2
  <2> QED
    BY <2>1, <2>2, <2>3 DEF NumbersOK
<1>7. post'[w] = Quiet \/ (post'[w].op = "attached" /\ post'[w].pc = "enqueue"
                            /\ ~ post'[w].locks)
  <2>1. CASE post[w].op = "attached"
    <3>1. ~ post[w].locks
      BY <1>0, <2>1 DEF RequestOK
    <3> QED
      BY <1>0, <2>1, <3>1, Commits DEF Same
  <2>2. CASE post[w].op # "attached"
    BY <1>0, <2>2, Commits
  <2> QED
    BY <2>1, <2>2
<1>8. ASSUME NEW v \in Writers PROVE RequestOK(post[v]', comments', events', given')
  <2>1. CASE v = w
    <3>1. ASSUME NEW p, p.op = "attached", p.pc = "enqueue", ~ p.locks
          PROVE  RequestOK(p, comments', events', given')
      BY <3>1 DEF RequestOK
    <3>2. RequestOK(Quiet, comments', events', given')
      <4>1. Quiet.op \notin Kinds /\ Quiet.pc = "quiet" /\ ~ Quiet.locks
        BY DiscussionAssumption DEF Quiet
      <4> QED
        BY <4>1 DEF RequestOK, Kinds, Changes
    <3> QED
      BY <1>7, <2>1, <3>1, <3>2
  <2>2. CASE v # w
    <3> DEFINE p == post[v]
    <3>1. /\ RequestOK(p, comments, events, given) /\ post'[v] = p
          /\ Apart(post[w], p)
      BY <1>1, <2>2 DEF DeletionInv
    <3> HIDE DEF p
    <3>2. p.op \in {"edited", "deleted"} =>
            p.of \in CommentIds /\ comments'[p.of] # "none" /\ p.seen = "live"
      BY <1>4, <1>5, <3>1 DEF RequestOK
    <3>3. p.op = "added" /\ p.pc \in {"record", "commit"} =>
            p.of \in CommentIds /\ comments'[p.of] = "none" /\ p.of <= given'["comments"]
      BY <1>1, <1>4, <1>5, <3>1 DEF RequestOK, Apart, n
    <3>4. ASSUME p.pc = "commit", p.op \in {"edited", "deleted"},
                 NEW k \in EventIds, k > p.event, events'[k].of = p.of
          PROVE  events'[k].kind \notin Changes
      <4>1. CASE k # e
        BY <1>3, <3>1, <3>4, <4>1 DEF RequestOK
      <4>2. CASE k = e
        <5>1. n = p.of /\ comments[p.of] # "none" /\ p.locks
          BY <1>3, <3>1, <3>4, <4>2 DEF RequestOK
        <5>2. post[w].op \notin Changes
          BY <1>4, <3>1, <5>1 DEF Apart, Changes, n
        <5> QED
          BY <1>3, <4>2, <5>2
      <4> QED
        BY <4>1, <4>2
    <3> QED
      BY <1>1, <3>1, <3>2, <3>3, <3>4 DEF RequestOK
  <2> QED
    BY <2>1, <2>2
<1>9. ASSUME NEW v \in Writers, NEW x \in Writers \ {v} PROVE Apart(post'[v], post'[x])
  <2>1. \A q : Apart(post'[w], q) /\ Apart(q, post'[w])
    BY <1>7, QuietOK, Bystander, DiscussionAssumption DEF Apart, Quiet, Kinds, Changes
  <2> QED
    BY <1>1, <2>1 DEF DeletionInv
<1>10. ASSUME NEW j \in EventIds, NEW k \in EventIds, j < k,
              events'[j].kind \in Changes, events'[k].kind \in Changes,
              events'[k].of = events'[j].of
       PROVE  /\ events'[k].kind # "added"
              /\ events'[j].kind = "deleted" => events'[k].stale
  <2>1. CASE j # e /\ k # e
    BY <1>0, <1>3, <1>10, <2>1 DEF DeletionIsFinal, EventIds
  <2>2. CASE j = e
    <3>1. k # e /\ k > e
      BY <1>10, <2>2 DEF EventIds
    <3>2. post[w].op \in Changes /\ events[k].of = n /\ events[k].kind \in Changes
      BY <1>3, <1>10, <2>2, <3>1
    <3>3. comments[n] # "none"
      BY <1>0, <3>2 DEF NumbersOK
    <3> QED
      BY <1>4, <3>1, <3>2, <3>3 DEF Changes
  <2>3. CASE k = e /\ j # e
    <3>1. /\ events[j].of = n /\ comments[n] # "none" /\ post[w].op \in Changes
          /\ events[j].kind = "deleted" => comments[n] = "deleted"
      BY <1>0, <1>3, <1>10, <2>3 DEF NumbersOK
    <3>2. post[w].op \in {"edited", "deleted"} /\ post[w].seen = "live"
      BY <1>4, <3>1 DEF Changes
    <3>3. events[j].kind = "deleted" => Stale(w)
      BY <3>1, <3>2 DEF Stale, n
    <3> QED
      BY <1>3, <2>3, <3>2, <3>3
  <2> QED
    BY <2>1, <2>2, <2>3
<1>11. DeletionIsFinal'
  BY <1>10 DEF DeletionIsFinal, EventIds
<1> QED
  BY <1>1, <1>6, <1>8, <1>9, <1>11 DEF DeletionInv

LEMMA DeletionStep == DeletionInv /\ [DiscussionNext]_discussionVars => DeletionInv'
<1> SUFFICES ASSUME DeletionInv, [DiscussionNext]_discussionVars PROVE DeletionInv'
  OBVIOUS
<1>1. CASE UNCHANGED <<shown, stored, given, post, failed>>
  BY <1>1 DEF shown, stored, DeletionInv, DiscussionType, NumbersOK, DeletionIsFinal
<1>2. \A t \in Tables : ReadPage(t) => UNCHANGED <<shown, stored, given, post, failed>>
  BY DEF ReadPage, stored
<1> QED
  BY <1>1, <1>2, BystandersKeep, NewCommentIsApart, UpdateIsApart, RecordIsLatest,
    CommitIsInOrder DEF DiscussionNext, discussionVars

\* "Comment not found" for one that is deleted or not there yet (_get_comment):
\* nothing happens to a comment before the event that it was added, nor after that
\* of its deletion but by requests that had read it before.
THEOREM DeletionsAreFinal == DiscussionSpec => []DeletionIsFinal
<1>1. DiscussionInit => DeletionInv
  <2> SUFFICES ASSUME DiscussionInit PROVE DeletionInv
    OBVIOUS
  <2>1. /\ \A w \in Writers : post[w] = Quiet
        /\ \A n \in CommentIds : comments[n] = "none"
        /\ \A k \in EventIds : events[k].kind \notin Kinds
    BY DiscussionAssumption DEF DiscussionInit, NoEvent, CommentIds, EventIds
  <2>2. NumbersOK /\ DeletionIsFinal
    BY <2>1 DEF NumbersOK, DeletionIsFinal, Kinds, Changes, EventIds
  <2> QED
    BY <2>1, <2>2, TypeInitially, QuietOK DEF DeletionInv
<1> QED
  BY <1>1, DeletionStep, PTL DEF DiscussionSpec, DeletionInv
===============================================================================
