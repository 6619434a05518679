------------------------------ MODULE Storage ------------------------------
(***************************************************************************)
(* The files in the data directory: src/file-storage.c, the file functions *)
(* of src/util.c, and their users in src/history.c, src/bookmark.c,        *)
(* src/main.c and src/normal.c.                                            *)
(*                                                                         *)
(* Every vimb process is an instance; the instances of a profile share the *)
(* files.  An operation is as many steps as it has system calls that other *)
(* instances can come between: a file is read, and later replaced by a     *)
(* renamed one or opened, truncated and written.  stdio keeps what is      *)
(* printed until fclose, which comes behind the unlock, so that flock      *)
(* orders nothing and is left out.                                         *)
(*                                                                         *)
(* A line is its URI; titles and tags are left out.  The three histories   *)
(* are alike and one is modelled.  history_cleanup is never called.        *)
(***************************************************************************)
EXTENDS Naturals, Sequences, SequencesExt, FiniteSets

CONSTANTS
    Instance,    \* the processes
    Incognito,   \* those started with --incognito
    Uri,         \* the URIs
    Existing,    \* the files that exist at first; they are empty
    MaxClosed,   \* closed-max-items
    Kills,       \* the kinds of operations in which instances may be killed
    DiskFails,   \* TRUE: creating a temporary file may fail
    MaxOps       \* bound: operations in a behaviour

File == {"history", "bookmark", "queue", "closed"}

\* "append": the file is open; "unshift": it was read; "write": it was read,
\* and opened and truncated since; the others were read, and lines will
\* replace the file.
Replacing == {"pop", "reopen", "close", "remove"}
Kind == {"append", "unshift", "write"} \cup Replacing
NoOp == [kind |-> "none"]

ASSUME StorageAssumption ==
    /\ Incognito \subseteq Instance
    /\ Existing \subseteq File
    /\ MaxClosed \in Nat \ {0} /\ MaxOps \in Nat
    /\ Kills \subseteq Kind \cup {NoOp.kind}
    /\ DiskFails \in BOOLEAN

VARIABLES
    present, \* the files that exist
    file,    \* the lines of every file
    memory,  \* FileStorage.str of the incognito instances
    op,      \* the operation every instance is in
    page,    \* the URI an instance opened from the queue last, if any
    alive,   \* the instances that run
    ops      \* operations so far

vars == <<present, file, memory, op, page, alive, ops>>

-----------------------------------------------------------------------------
\* linked: there was a file to be read; what is open is still the file of that
\* name.
Op == [kind : Kind, file : File, uri : Uri, lines : Seq(Uri), linked : BOOLEAN]

Free(p) == p \in alive /\ op[p] = NoOp /\ ops < MaxOps

\* The instance begins an operation.
Begin(p, k, f, u, lines) ==
    /\ op' = [op EXCEPT ![p] = [kind |-> k, file |-> f, uri |-> u,
                                lines |-> lines, linked |-> k = "append" \/ f \in present]]
    /\ ops' = ops + 1
    /\ UNCHANGED <<memory, page, alive>>

\* Text is written at the beginning of an open file.
Overlay(new, old) == new \o SubSeq(old, Len(new) + 1, Len(old))

-----------------------------------------------------------------------------
(* Appending: history_add, bookmark_add, bookmark_queue_push.              *)

\* Mutant: the file is not created.
MutantNotCreated(p, f, u) ==
    /\ Free(p)
    /\ f \in {"history", "bookmark", "queue"}
    /\ f = "history" => p \notin Incognito
    /\ Begin(p, "append", f, u, <<>>)
    /\ UNCHANGED <<present, file>>

\* fopen(file, "a+") of file_storage_append and util_file_append.
OpenAppend(p, f, u) ==
    /\ Free(p)
    /\ f \in {"history", "bookmark", "queue"}
    /\ f = "history" => p \notin Incognito
    /\ present' = present \cup {f}
    /\ Begin(p, "append", f, u, <<>>)
    /\ UNCHANGED file

\* file_storage_append of a read only storage.
Remember(p, u) ==
    /\ Free(p) /\ p \in Incognito
    /\ memory' = [memory EXCEPT ![p] = Append(@, u)]
    /\ ops' = ops + 1
    /\ UNCHANGED <<present, file, op, page, alive>>

\* Mutant: the line is written where the file ended before.
MutantNoAppendMode(p) ==
    /\ op[p].kind = "append"
    /\ file' = IF op[p].linked
               THEN [file EXCEPT ![op[p].file] = Overlay(<<op[p].uri>>, @)] ELSE file
    /\ op' = [op EXCEPT ![p] = NoOp]
    /\ UNCHANGED <<present, memory, page, alive, ops>>

\* fclose of a file opened for appending.
Flush(p) ==
    /\ op[p].kind = "append"
    /\ file' = IF op[p].linked
               THEN [file EXCEPT ![op[p].file] = Append(@, op[p].uri)] ELSE file
    /\ op' = [op EXCEPT ![p] = NoOp]
    /\ UNCHANGED <<present, memory, page, alive, ops>>

-----------------------------------------------------------------------------
(* bookmark_queue_unshift: util_file_prepend.                              *)

\* The file is read.
ReadUnshift(p, u) ==
    /\ Free(p)
    /\ Begin(p, "unshift", "queue", u, file["queue"])
    /\ UNCHANGED <<present, file>>

\* fopen(file, "w").  Without a file there was no content to read, and fputs
\* of a null pointer ends the process.
Truncate(p) ==
    /\ op[p].kind = "unshift"
    /\ present' = present \cup {"queue"}
    /\ file' = [file EXCEPT !["queue"] = <<>>]
    /\ IF op[p].linked
       THEN op' = [op EXCEPT ![p].kind = "write"] /\ UNCHANGED alive
       ELSE op' = [op EXCEPT ![p] = NoOp] /\ alive' = alive \ {p}
    /\ UNCHANGED <<memory, page, ops>>

\* Mutant: the file is written before the new line.
MutantFileFirst(p) ==
    /\ op[p].kind = "write"
    /\ file' = IF op[p].linked
               THEN [file EXCEPT !["queue"] = Overlay(Append(op[p].lines, op[p].uri), @)]
               ELSE file
    /\ op' = [op EXCEPT ![p] = NoOp]
    /\ UNCHANGED <<present, memory, page, alive, ops>>

\* fclose of the truncated file.
WriteBack(p) ==
    /\ op[p].kind = "write"
    /\ file' = IF op[p].linked
               THEN [file EXCEPT !["queue"] = Overlay(<<op[p].uri>> \o op[p].lines, @)]
               ELSE file
    /\ op' = [op EXCEPT ![p] = NoOp]
    /\ UNCHANGED <<present, memory, page, alive, ops>>

\* bookmark_queue_clear.
ClearQueue(p) ==
    /\ Free(p)
    /\ present' = present \cup {"queue"}
    /\ file' = [file EXCEPT !["queue"] = <<>>]
    /\ ops' = ops + 1
    /\ UNCHANGED <<memory, op, page, alive>>

-----------------------------------------------------------------------------
(* Reading a file and replacing it with util_file_set_content.             *)

\* util_file_pop_line of bookmark_queue_pop and of normal_open.
ReadPop(p, k) ==
    /\ Free(p)
    /\ k = "reopen" => p \notin Incognito
    /\ LET f == IF k = "pop" THEN "queue" ELSE "closed"
       IN  /\ file[f] # <<>>
           /\ Begin(p, k, f, Head(file[f]), Tail(file[f]))
    /\ UNCHANGED <<present, file>>

FirstLines(lines, n) == SubSeq(lines, 1, IF Len(lines) < n THEN Len(lines) ELSE n)

\* Mutant: one line more than allowed is kept.
MutantOneMore(p, u) ==
    /\ Free(p) /\ p \notin Incognito
    /\ Begin(p, "close", "closed", u,
             <<u>> \o FirstLines(file["closed"], MaxClosed))
    /\ UNCHANGED <<present, file>>

\* util_file_prepend_line of vb_tab_close.
ReadClosed(p, u) ==
    /\ Free(p) /\ p \notin Incognito
    /\ Begin(p, "close", "closed", u,
             <<u>> \o FirstLines(file["closed"], MaxClosed - 1))
    /\ UNCHANGED <<present, file>>

\* The lines that are not the URI.
Without(lines, u) ==
    LET kept[i \in 0 .. Len(lines)] ==
            IF i = 0 THEN <<>>
            ELSE IF lines[i] = u THEN kept[i - 1] ELSE Append(kept[i - 1], lines[i])
    IN  kept[Len(lines)]

\* Mutant: the last line is taken for the empty rest behind a newline.
MutantDropLast(p, u) ==
    /\ Free(p)
    /\ "bookmark" \in present /\ file["bookmark"] # <<>>
    /\ Begin(p, "remove", "bookmark", u, Without(Front(file["bookmark"]), u))
    /\ UNCHANGED <<present, file>>

\* bookmark_remove: all lines of the URI are left out.
ReadRemove(p, u) ==
    /\ Free(p)
    /\ "bookmark" \in present
    /\ Begin(p, "remove", "bookmark", u, Without(file["bookmark"], u))
    /\ UNCHANGED <<present, file>>

\* The temporary file gets the name of the old one, which is gone for those
\* that have it open.
Rename(p) ==
    /\ op[p].kind \in Replacing
    /\ LET f == op[p].file
           IsOpen(q) == op[q].kind \in {"append", "write"} /\ op[q].file = f
       IN  /\ present' = present \cup {f}
           /\ file' = [file EXCEPT ![f] = op[p].lines]
           /\ op' = [q \in Instance |->
                        CASE q = p     -> NoOp
                          [] q # p /\ IsOpen(q) -> [op[q] EXCEPT !.linked = FALSE]
                          [] OTHER     -> op[q]]
    /\ page' = IF op[p].kind = "pop" THEN [page EXCEPT ![p] = {op[p].uri}] ELSE page
    /\ UNCHANGED <<memory, alive, ops>>

\* g_mkstemp_full fails: g_error ends the process.
RenameFails(p) ==
    /\ DiskFails
    /\ op[p].kind \in Replacing
    /\ op' = [op EXCEPT ![p] = NoOp]
    /\ alive' = alive \ {p}
    /\ UNCHANGED <<present, file, memory, page, ops>>

-----------------------------------------------------------------------------
(* The life of an instance.                                                *)

Kill(p) ==
    /\ p \in alive /\ op[p].kind \in Kills
    /\ op' = [op EXCEPT ![p] = NoOp]
    /\ alive' = alive \ {p}
    /\ UNCHANGED <<present, file, memory, page, ops>>

\* main and vimb_setup.
Start(p) ==
    /\ p \notin alive
    /\ alive' = alive \cup {p}
    /\ memory' = [memory EXCEPT ![p] = <<>>]
    /\ page' = [page EXCEPT ![p] = {}]
    /\ UNCHANGED <<present, file, op, ops>>

Init ==
    /\ present = Existing
    /\ file = [f \in File |-> <<>>]
    /\ memory = [p \in Instance |-> <<>>]
    /\ op = [p \in Instance |-> NoOp]
    /\ page = [p \in Instance |-> {}]
    /\ alive = Instance
    /\ ops = 0

Next ==
    \/ \E p \in Instance, f \in File, u \in Uri : OpenAppend(p, f, u)
    \/ \E p \in Instance, u \in Uri : Remember(p, u)
    \/ \E p \in Instance : Flush(p)
    \/ \E p \in Instance, u \in Uri : ReadUnshift(p, u)
    \/ \E p \in Instance : Truncate(p)
    \/ \E p \in Instance : WriteBack(p)
    \/ \E p \in Instance : ClearQueue(p)
    \/ \E p \in Instance, k \in {"pop", "reopen"} : ReadPop(p, k)
    \/ \E p \in Instance, u \in Uri : ReadClosed(p, u)
    \/ \E p \in Instance, u \in Uri : ReadRemove(p, u)
    \/ \E p \in Instance : Rename(p)
    \/ \E p \in Instance : RenameFails(p)
    \/ \E p \in Instance : Kill(p)
    \/ \E p \in Instance : Start(p)

Spec == Init /\ [][Next]_vars

-----------------------------------------------------------------------------
(* Properties.                                                             *)

\* Types; only what runs is in an operation.
TypeOK ==
    /\ present \subseteq File
    /\ file \in [File -> Seq(Uri)]
    /\ \A f \in File \ present : file[f] = <<>>
    /\ memory \in [Instance -> Seq(Uri)]
    /\ op \in [Instance -> Op \cup {NoOp}]
    /\ page \in [Instance -> SUBSET Uri]
    /\ alive \subseteq Instance
    /\ \A p \in Instance \ alive : op[p] = NoOp
    /\ ops \in 0 .. MaxOps

\* doc/vimb.1, closed-max-items: "Maximum number of stored last closed URLs."
\* Instances that read the file before one another's changes keep the bound.
ClosedBounded == Len(file["closed"]) <= MaxClosed

\* What was added to the history stays, in its order, whatever other instances
\* add and whenever one is killed.
HistoryOnlyGrows == [][IsPrefix(file["history"], file'["history"])]_vars

\* A bookmark of the only instance goes by a :bmremove of its URI, by no kill
\* and no failure: util_file_set_content "Atomicly writes contents to given file."
BookmarksStay ==
    [][\A u \in Uri :
          u \in Range(file["bookmark"]) \ Range(file'["bookmark"]) =>
             \E p \in Instance : op[p].kind = "remove" /\ op[p].uri = u]_vars

\* The queue of an instance that has the files for itself is the list of
\* ReadLater, whenever the instance is killed except while the file is written
\* back; then the list is what is going to be written behind the new line.
Writing == {p \in Instance : op[p].kind = "write"}
Queue == IF Writing = {} THEN file["queue"]
         ELSE op[CHOOSE p \in Writing : TRUE].lines
Asked(o) ==
    CASE o.kind \in {"unshift", "write"} -> [kind |-> "unshift", uri |-> o.uri]
      [] o.kind = "append" /\ o.file = "queue" -> [kind |-> "push", uri |-> o.uri]
      [] o.kind = "pop" -> [kind |-> "pop"]
      [] OTHER -> [kind |-> "nothing"]
ReadLaterList == INSTANCE ReadLater
                 WITH queue <- Queue, asked <- [p \in Instance |-> Asked(op[p])]
QueueIsReadLater == ReadLaterList!Spec

-----------------------------------------------------------------------------
(* What the manual or a comment says and the code does not keep.           *)

\* doc/vimb.1 on the queue: "This list is shared between the single instances
\* of Vimb."  An entry leaves it when it is taken, or when the list is cleared.
QueueIsShared ==
    [][\A u \in Range(Queue) \ Range(Queue') :
          \/ \E p \in Instance : op[p].kind = "pop" /\ op[p].uri = u
          \/ \E p \in Instance : ClearQueue(p)]_vars

\* util.c, util_file_set_content: "Returns TRUE on success, FALSE otherwise."
\* An instance that is not killed goes on.
OperationsReturn == [][Kills = {} => alive \subseteq alive']_vars
=============================================================================
