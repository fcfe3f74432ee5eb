------------------------------ MODULE Discussion ------------------------------
(***************************************************************************)
(* The discussion of one incident: comments, attachments with their files  *)
(* and their scan jobs, the timeline that records them, and the readers    *)
(* who page through comments and timeline.  Requests overlap: each reads   *)
(* without a lock, numbers its rows when it flushes them and shows them    *)
(* when it commits.  Who may edit or delete is decided on columns that do  *)
(* not change (the author, the role), and left out.                        *)
(***************************************************************************)
EXTENDS Naturals, FiniteSets

CONSTANTS
  Writers,      \* requests and jobs that can be under way at a time
  Uploads,      \* attachment ids; how many are ever sent is bounded by them
  MaxComments, MaxEvents,   \* bounds on the numbers handed out
  PageSize,
  Nothing

Changes == {"added", "edited", "deleted"}
Kinds == Changes \union {"attached", "scanned"}

ASSUME DiscussionAssumption ==
  /\ MaxComments \in Nat /\ MaxEvents \in Nat /\ PageSize \in Nat \ {0}
  /\ Nothing \notin Kinds

VARIABLES
  comments,     \* committed rows by seq: "none", "live" or "deleted"
  events,       \* the same: [kind, of, stale]; the last is history: what the
                \* event is about had changed since its request read it
  attachments,  \* committed rows
  files,        \* what is on the disk: "none", "partial" or "whole"
  scans,        \* scan jobs: "none", "queued" or "done"
  given,        \* the numbers each table has handed out
  post,         \* the request of each writer
  reader,       \* who pages through one table: [table, cursor, read, late]; the
                \* last is history: rows not visible when the cursor passed them
  failed        \* history: uploads whose request failed

shown == <<comments, events, attachments>>
stored == <<files, scans>>
discussionVars == <<shown, stored, given, post, reader, failed>>

Quiet == [pc |-> "quiet", op |-> Nothing, of |-> Nothing,
          seen |-> Nothing, event |-> 0, locks |-> FALSE]
NoEvent == [kind |-> Nothing, of |-> Nothing, stale |-> FALSE]
Tables == {"comments", "events"}

DiscussionInit ==
  /\ comments = [n \in 1 .. MaxComments |-> "none"]
  /\ events = [k \in 1 .. MaxEvents |-> NoEvent]
  /\ attachments = {}
  /\ files = [u \in Uploads |-> "none"]
  /\ scans = [u \in Uploads |-> "none"]
  /\ given = [t \in Tables |-> 0]
  /\ post = [w \in Writers |-> Quiet]
  /\ reader = [table |-> Nothing, cursor |-> 0, read |-> {}, late |-> {}]
  /\ failed = {}

Begins(w, op, of, seen, pc) ==
  /\ post[w].pc = "quiet"
  /\ post' = [post EXCEPT ![w] = [Quiet EXCEPT
       !.pc = pc, !.op = op, !.of = of, !.seen = seen]]
  /\ UNCHANGED <<shown, stored, given, reader, failed>>

Does(w, ops, pc) == post[w].pc = pc /\ post[w].op \in ops
Goes(w, pc) == post' = [post EXCEPT ![w].pc = pc]

-----------------------------------------------------------------------------
(* Comments.                                                               *)

AddComment(w) == Begins(w, "added", Nothing, "none", "insert")

EditComment(w) ==
  \E n \in 1 .. MaxComments :
    /\ comments[n] = "live"
    /\ Begins(w, "edited", n, "live", "update")

\* A bug the handler could have had: deleted comments are found as well.
DeleteAnyComment(w) ==
  \E n \in 1 .. MaxComments :
    /\ comments[n] # "none"
    /\ Begins(w, "deleted", n, comments[n], "update")

DeleteComment(w) ==
  \E n \in 1 .. MaxComments :
    /\ comments[n] = "live"
    /\ Begins(w, "deleted", n, "live", "update")

\* The identity column gives the next number, whatever becomes of the request.
InsertComment(w) ==
  /\ Does(w, {"added"}, "insert")
  /\ given["comments"] < MaxComments
  /\ given' = [given EXCEPT !["comments"] = @ + 1]
  /\ post' = [post EXCEPT ![w].pc = "record", ![w].of = given'["comments"]]
  /\ UNCHANGED <<shown, stored, reader, failed>>

\* The UPDATE is by id: it waits for the row and does not look at deleted_at.
UpdateComment(w) ==
  /\ Does(w, {"edited", "deleted"}, "update")
  /\ \A v \in Writers : post[v].locks => post[v].of # post[w].of
  /\ post' = [post EXCEPT ![w].pc = "record", ![w].locks = TRUE]
  /\ UNCHANGED <<shown, stored, given, reader, failed>>

-----------------------------------------------------------------------------
(* Attachments.                                                            *)

OpenFile(w) ==
  \E u \in Uploads :
    /\ files[u] = "none"
    /\ u \notin failed
    /\ post[w].pc = "quiet"
    /\ post' = [post EXCEPT ![w] = [Quiet EXCEPT
         !.pc = "write", !.op = "attached", !.of = u]]
    /\ files' = [files EXCEPT ![u] = "partial"]
    /\ UNCHANGED <<shown, scans, given, reader, failed>>

\* A bug the handler could have had: the row is written before the file.
RowFirst(w) ==
  /\ Does(w, {"attached"}, "write")
  /\ Goes(w, "record")
  /\ UNCHANGED <<shown, stored, given, reader, failed>>

FinishFile(w) ==
  /\ Does(w, {"attached"}, "write")
  /\ files' = [files EXCEPT ![post[w].of] = "whole"]
  /\ Goes(w, "record")
  /\ UNCHANGED <<shown, scans, given, reader, failed>>

\* AttachmentTooLargeError unlinks the file; no other failure does.
TooLarge(w) ==
  /\ Does(w, {"attached"}, "write")
  /\ files' = [files EXCEPT ![post[w].of] = "none"]
  /\ failed' = failed \union {post[w].of}
  /\ post' = [post EXCEPT ![w] = Quiet]
  /\ UNCHANGED <<shown, scans, given, reader>>

EnqueueScan(w) ==
  /\ Does(w, {"attached"}, "enqueue")
  /\ scans' = [scans EXCEPT ![post[w].of] = "queued"]
  /\ post' = [post EXCEPT ![w] = Quiet]
  /\ UNCHANGED <<shown, files, given, reader, failed>>

\* The hook has nothing to scan with, and says so on the timeline.
ScanAttachment(w) ==
  \E u \in Uploads :
    /\ scans[u] = "queued"
    /\ \A v \in Writers : post[v].op = "scanned" => post[v].of # u
    /\ Begins(w, "scanned", u, Nothing, "record")

-----------------------------------------------------------------------------
(* timeline.record, and the end of every request.                          *)

Record(w) ==
  /\ post[w].pc = "record"
  /\ given["events"] < MaxEvents
  /\ given' = [given EXCEPT !["events"] = @ + 1]
  /\ post' = [post EXCEPT ![w].pc = "commit", ![w].event = given'["events"]]
  /\ UNCHANGED <<shown, stored, reader, failed>>

Stale(w) == /\ post[w].op \in {"edited", "deleted"}
            /\ comments[post[w].of] # post[w].seen

\* A scan job that returns or raises is not run again; one whose worker is gone
\* before it is noted as ended is still queued.
ScanEnds(w) ==
  \/ /\ post[w].op = "scanned"
     /\ scans' = [scans EXCEPT ![post[w].of] = "done"]
  \/ UNCHANGED scans

CommitPost(w) ==
  LET p == post[w]
  IN /\ p.pc = "commit"
     /\ comments' = CASE p.op = "added" -> [comments EXCEPT ![p.of] = "live"]
                      [] p.op = "deleted" -> [comments EXCEPT ![p.of] = "deleted"]
                      [] OTHER -> comments
     /\ events' = [events EXCEPT
          ![p.event] = [kind |-> p.op, of |-> p.of, stale |-> Stale(w)]]
     /\ attachments' = attachments \union (IF p.op = "attached" THEN {p.of} ELSE {})
     /\ ScanEnds(w)
     /\ post' = [post EXCEPT ![w] = IF p.op = "attached" THEN [p EXCEPT !.pc = "enqueue"]
                                    ELSE Quiet]
     /\ UNCHANGED <<files, given, reader, failed>>

\* An exception, a client that goes away, a crash.
FailPost(w) ==
  LET p == post[w]
  IN /\ p.pc # "quiet"
     /\ failed' = failed \union (IF p.op = "attached" THEN {p.of} ELSE {})
     /\ ScanEnds(w)
     /\ post' = [post EXCEPT ![w] = Quiet]
     /\ UNCHANGED <<shown, files, given, reader>>

-----------------------------------------------------------------------------
(* list_comments and list_events.                                          *)

Visible(t) == IF t = "comments"
                THEN {n \in 1 .. MaxComments : comments[n] = "live"}
                ELSE {k \in 1 .. MaxEvents : events[k] # NoEvent}

FirstOf(S, size) == {n \in S : Cardinality({m \in S : m <= n}) <= size}
LastOf(S) == CHOOSE n \in S : \A m \in S : m <= n

After(t, cursor) == {n \in Visible(t) : n > cursor}
Page(t, cursor) == FirstOf(After(t, cursor), PageSize)
HasMore(t, cursor) == Cardinality(After(t, cursor)) > PageSize

\* A bug the query could have had: the cursor is the row it fetched too much.
NextCursorPastPage(t, cursor) ==
  IF HasMore(t, cursor) THEN LastOf(FirstOf(After(t, cursor), PageSize + 1)) ELSE cursor

\* The last row of a page that is not the last one; with the last page there is no
\* cursor, and who wants more asks for it again.
NextCursor(t, cursor) == IF HasMore(t, cursor) THEN LastOf(Page(t, cursor)) ELSE cursor

ReadPage(t) ==
  LET next == NextCursor(t, reader.cursor)
  IN /\ reader.table \in {Nothing, t}
     /\ Page(t, reader.cursor) # {}
     /\ reader' =
          [table |-> t, cursor |-> next,
           read |-> reader.read \union Page(t, reader.cursor),
           late |-> reader.late \union ((reader.cursor + 1) .. next \ Visible(t))]
     /\ UNCHANGED <<shown, stored, given, post, failed>>

DiscussionNext ==
  \/ \E w \in Writers :
       \/ AddComment(w) \/ EditComment(w) \/ DeleteComment(w)
       \/ InsertComment(w) \/ UpdateComment(w)
       \/ OpenFile(w) \/ FinishFile(w) \/ TooLarge(w) \/ EnqueueScan(w)
       \/ ScanAttachment(w) \/ Record(w) \/ CommitPost(w) \/ FailPost(w)
  \/ \E t \in Tables : ReadPage(t)

DiscussionSpec == DiscussionInit /\ [][DiscussionNext]_discussionVars

-----------------------------------------------------------------------------
(* "A cursor pins the position to the last row seen" (pagination.py): who   *)
(* follows the cursors has read every comment and every event up to the     *)
(* cursor, whatever is added and deleted meanwhile, but for those whose     *)
(* transaction committed after the page that passed their number.  (The     *)
(* code does miss those.)                                                   *)
WalkSkipsNothing ==
  reader.table # Nothing =>
    \A n \in Visible(reader.table) :
      n <= reader.cursor => n \in reader.read \union reader.late

(* A comment nobody sees is a 404, and so is a deleted one (_get_comment):  *)
(* on the timeline nothing happens to a comment before it was added, and    *)
(* nothing after its deletion unless the request had read the comment       *)
(* before it was deleted.                                                   *)
DeletionIsFinal ==
  \A j, k \in 1 .. MaxEvents :
    /\ j < k
    /\ events[j].kind \in Changes /\ events[k].kind \in Changes
    /\ events[k].of = events[j].of
    => /\ events[k].kind # "added"
       /\ events[j].kind = "deleted" => events[k].stale

(* An attachment that can be listed can be downloaded, and its scan is      *)
(* asked for, unless its request fails right after the commit; a file on    *)
(* the disk is an attachment's, or its request is under way or failed.      *)
AttachmentsAreStored ==
  \A u \in Uploads :
    LET underWay == \E w \in Writers : post[w].op = "attached" /\ post[w].of = u
    IN IF u \in attachments
         THEN files[u] = "whole" /\ (scans[u] = "none" => underWay \/ u \in failed)
         ELSE files[u] # "none" => underWay \/ u \in failed
===============================================================================
