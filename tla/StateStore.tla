----------------------------- MODULE StateStore -----------------------------
(* The index file state.md, shared by the server and the commands of the    *)
(* command line, and the copy of it that the server keeps; and one kind of   *)
(* entity whose files are listed from memory.                               *)
(*                                                                          *)
(* A process reads state.md, applies its change and writes all of it back.  *)
(* The calls are synchronous, so within a process nothing comes between;     *)
(* between two processes anything does. The file is written in place: it is *)
(* emptied first and filled then.                                           *)
EXTENDS Naturals, FiniteSets

CONSTANTS
    Update,        \* changes of the state; the content is the set of those made
    Resizing,      \* those that change the length of the file
    Command,       \* processes of the command line; each makes one update
    Item,          \* ids of files of the listed kind
    Nothing,       \* no value: an idle process, an empty cache, no file
    Torn,          \* a file that a crash left half written
    MaxTime, MaxStops    \* bounds: ticks of the file clock, stops of the server

Server == "server"

ASSUME StoreAssumption ==
    /\ Resizing \subseteq Update
    /\ Server \notin Command
    /\ MaxTime \in Nat /\ MaxStops \in Nat

VARIABLES
    disk,       \* state.md: content, or Torn; its mtime and size
    cached,     \* the copy of the server with the mtime and size it goes by
    doing,      \* what each process is in the middle of
    clock,      \* the clock of the file system, in its own resolution
    files,      \* the files of the listed kind
    listed,     \* the list of them in the memory of the server
    stops,
    applied,    \* history: updates whose write was completed
    overlapped, \* history: updates during which another process wrote
    recent      \* history: what the file held during the tick it was last written

stateVars == <<disk, cached, doing, clock, files, listed, stops,
               applied, overlapped, recent>>

-----------------------------------------------------------------------------
Process == Command \cup {Server}
SizeOf(content) == IF content = Torn THEN 0 ELSE 1 + Cardinality(content \cap Resizing)
Idle(p) == doing[p] = Nothing
Doing(p, step) == ~Idle(p) /\ doing[p].step = step

StateInit ==
    /\ disk = [content |-> {}, mtime |-> 0, size |-> SizeOf({})]
    /\ cached = Nothing
    /\ doing = [p \in Process |-> Nothing]
    /\ clock = 0
    /\ files = [i \in Item |-> Nothing]
    /\ listed = Nothing
    /\ stops = 0
    /\ applied = {} /\ overlapped = {}
    /\ recent = {{}}

-----------------------------------------------------------------------------
(* updateState: FileStateRepository, on readState and writeState.           *)

\* Mutant of ReadForUpdate: the change is made to the cached copy.
ReadCopyForUpdate(p) ==
    IF p = Server /\ cached # Nothing THEN cached.content ELSE disk.content

\* The state that is changed is read from the file, past the cache.
ReadForUpdate(p) == disk.content

\* A torn file has no YAML block: readState throws and nothing is written.
BeginUpdate(p, u) ==
    /\ Idle(p) /\ disk.content # Torn
    /\ u \notin applied
    /\ \A q \in Process : ~Idle(q) /\ doing[q].step \in {"change", "fill"} => doing[q].u # u
    /\ doing' = [doing EXCEPT ![p] =
          [step |-> "change", u |-> u, content |-> ReadForUpdate(p) \cup {u}]]
    /\ UNCHANGED <<disk, cached, clock, files, listed, stops,
                   applied, overlapped, recent>>

\* The other updates that are under way, whose copies do not have this one.
UnderWay(p) ==
    {doing[q].u : q \in {r \in Process \ {p} : Doing(r, "change") \/ Doing(r, "fill")}}

Write(content) ==
    /\ disk' = [content |-> content, mtime |-> clock, size |-> SizeOf(content)]
    /\ recent' = IF disk.mtime = clock THEN recent \cup {content} ELSE {content}

\* Opening the file for writing empties it ...
Empty(p) ==
    /\ Doing(p, "change")
    /\ Write(Torn)
    /\ doing' = [doing EXCEPT ![p].step = "fill"]
    /\ UNCHANGED <<cached, clock, files, listed, stops, applied, overlapped>>

\* ... and then the content is written.
Fill(p) ==
    /\ Doing(p, "fill")
    /\ Write(doing[p].content)
    /\ doing' = [doing EXCEPT ![p] = Nothing]
    /\ applied' = applied \cup {doing[p].u}
    /\ overlapped' = overlapped \cup UnderWay(p)
                       \cup (IF UnderWay(p) = {} THEN {} ELSE {doing[p].u})
    /\ UNCHANGED <<cached, clock, files, listed, stops>>

-----------------------------------------------------------------------------
(* getState: StateIndex. The file is looked at first and read then; a       *)
(* command may write in between.                                            *)

\* Mutant of Unchanged: the length of the file says it all.
SameSize == cached # Nothing /\ cached.size = disk.size

Unchanged ==
    cached # Nothing /\ cached.mtime = disk.mtime /\ cached.size = disk.size

\* statSync: with a known time and size the copy is returned; else it is read.
Look ==
    /\ Idle(Server) /\ ~Unchanged
    /\ doing' = [doing EXCEPT ![Server] =
          [step |-> "load", mtime |-> disk.mtime, size |-> disk.size]]
    /\ UNCHANGED <<disk, cached, clock, files, listed, stops,
                   applied, overlapped, recent>>

\* The copy is replaced with what the file holds now, under what it looked like
\* then; a torn file throws and leaves the old copy with its old key.
Load ==
    /\ Doing(Server, "load")
    /\ cached' = IF disk.content = Torn THEN cached
                 ELSE [content |-> disk.content, mtime |-> doing[Server].mtime,
                       size |-> doing[Server].size]
    /\ doing' = [doing EXCEPT ![Server] = Nothing]
    /\ UNCHANGED <<disk, clock, files, listed, stops, applied, overlapped, recent>>

-----------------------------------------------------------------------------
(* Files that are listed from memory: policy groups, memberships of groups,  *)
(* invites of organizations, transformations. Only the server writes them.  *)

Forget == listed' = Nothing

\* A file is written whole; Stop tells of the one that is not.
WriteFile(i) ==
    /\ Idle(Server)
    /\ files' = [files EXCEPT ![i] = "written"]
    /\ Forget
    /\ UNCHANGED <<disk, cached, doing, clock, stops, applied, overlapped, recent>>

\* The file goes if it is there.
DeleteFile(i) ==
    /\ Idle(Server)
    /\ files' = [files EXCEPT ![i] = Nothing]
    /\ Forget
    /\ UNCHANGED <<disk, cached, doing, clock, stops, applied, overlapped, recent>>

\* loadAll: one file that does not parse fails the list.
LoadAll ==
    /\ Idle(Server) /\ listed = Nothing
    /\ \A i \in Item : files[i] # Torn
    /\ listed' = {i \in Item : files[i] # Nothing}
    /\ UNCHANGED <<disk, cached, doing, clock, files, stops,
                   applied, overlapped, recent>>

-----------------------------------------------------------------------------
\* The server stops, in the middle of an update or of writing a file, and
\* starts again with nothing in memory.
Stop(tornFile) ==
    /\ stops < MaxStops /\ stops' = stops + 1
    /\ cached' = Nothing /\ listed' = Nothing
    /\ doing' = [doing EXCEPT ![Server] = Nothing]
    /\ files' = [i \in Item |-> IF i \in tornFile THEN Torn ELSE files[i]]
    /\ UNCHANGED <<disk, clock, applied, overlapped, recent>>

\* A command is killed in the middle of its update.
Kill(p) ==
    /\ ~Idle(p)
    /\ doing' = [doing EXCEPT ![p] = Nothing]
    /\ UNCHANGED <<disk, cached, clock, files, listed, stops,
                   applied, overlapped, recent>>

Tick ==
    /\ clock < MaxTime /\ clock' = clock + 1
    /\ UNCHANGED <<disk, cached, doing, files, listed, stops,
                   applied, overlapped, recent>>

StateNext ==
    \/ \E p \in Process : Empty(p) \/ Fill(p) \/ \E u \in Update : BeginUpdate(p, u)
    \/ Look \/ Load
    \/ \E i \in Item : WriteFile(i) \/ DeleteFile(i)
    \/ LoadAll
    \/ \E tornFile \in {{}} \cup {{i} : i \in Item} :
         (tornFile # {} => Idle(Server)) /\ Stop(tornFile)
    \/ \E p \in Command : Kill(p)
    \/ Tick

StateSpec == StateInit /\ [][StateNext]_stateVars

-----------------------------------------------------------------------------
(* Properties.                                                              *)

\* What the server answers from its copy was in the file at some moment of the
\* tick in which the file was last written: a stale answer ends with that tick,
\* whoever wrote and whatever fell between the look and the read
\* (core/src/state.ts:365, ensureFresh).
StaleWithinTick == Unchanged => cached.content \in recent

\* An update that was written is in the file, as long as there is one, unless
\* another process was in the middle of an update of its own: within the server
\* none is lost to a cached copy, between processes one is lost to an overlap
\* (core/src/file-store.ts:504, updateState).
LostByOverlapOnly ==
    disk.content # Torn => applied \ disk.content \subseteq overlapped

\* A list from memory is the list of the files that are there, after any order
\* of writes, deletions and restarts (core/src/file-store.ts, loadAll).
ListsCurrent ==
    listed # Nothing => listed = {i \in Item : files[i] \notin {Nothing, Torn}}

\* No copy in memory outlives what it copies: neither the parsed index beyond the
\* tick of the file clock, nor a list beyond the next write.
CopiesCurrent == StaleWithinTick /\ ListsCurrent
=============================================================================
