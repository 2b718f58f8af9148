------------------------------ MODULE AuditLog ------------------------------
(* The audit log: an append-only file of lines, and the index that the      *)
(* server keeps of it in memory, by the byte where each line starts and by   *)
(* the principals it concerns. The command line appends to the same file,   *)
(* and has no part in the index.                                            *)
(*                                                                          *)
(* Bytes are cells: <<e, k>> is the k-th byte of event e, Newline ends a    *)
(* line. Offsets count from 0, sequences from 1: the byte at offset b is    *)
(* file[b + 1]. A character of two bytes stands for all that take several.  *)
(*                                                                          *)
(* A read of the server first asks for the size of the file, then reads it; *)
(* in between only other processes move, for the server does both at once.  *)
EXTENDS Integers, FiniteSets, FiniteSetsExt, Sequences, SequencesExt

CONSTANTS
    Principal, NoPrincipal,
    Kinds,         \* the events that are appended, as records of LogEvent
    Trails,        \* sets of principals whose trail is read: an owner with
                   \* the agents of that owner, or one agent
    NoIndex,
    MaxEvents, MaxTorn, MaxCuts    \* bounds: events, torn lines, truncations

VARIABLES
    file,     \* the bytes of the log
    events,   \* history: every event ever appended, in order
    index,    \* the index in the memory of the server, or NoIndex
    stat,     \* what a read that has begun was told of the file
    walk,     \* a client that reads a trail page by page
    sound,    \* history: the index was always extended where the file ended,
              \* and built from as much of it as was asked for, undisturbed
    clean,    \* history: events written whole, onto a whole last line
    torn, cuts

logVars == <<file, events, index, stat, walk, sound, clean, torn, cuts>>

-----------------------------------------------------------------------------
\* The bytes `wide` and `wide` + 1 of an event are one character; 0: none are.
LogEvent == [by : Principal \cup {NoPrincipal}, agent : Principal \cup {NoPrincipal},
             ownerType : {"user", "org"}, owner : Principal \cup {NoPrincipal},
             size : Nat \ {0}, wide : Nat]

ASSUME LogAssumption ==
    /\ NoPrincipal \notin Principal
    /\ Kinds \subseteq LogEvent
    /\ Trails \subseteq (SUBSET Principal) \ {{}}
    /\ MaxEvents \in Nat /\ MaxTorn \in Nat /\ MaxCuts \in Nat
    /\ NoIndex \notin [offsets : Seq(Nat), fileSize : Nat,
                       lines : [Principal -> SUBSET Nat]]

\* Whom an event concerns. The id of an owner counts for organizations only:
\* what concerns a user names that user in a field of its own.
Principals(e) ==
    ({e.by, e.agent} \cup (IF e.ownerType = "org" THEN {e.owner} ELSE {}))
        \ {NoPrincipal}

Newline == <<0, 0>>
Text(e) == [k \in 1 .. events'[e].size |-> <<e, k>>]

\* What a read past the end of the file gives.
NoByte == <<0, 1>>
ByteAt(i) == IF i \in DOMAIN file THEN file[i] ELSE NoByte
Within(from, to) == {i \in DOMAIN file : from < i /\ i <= to}

-----------------------------------------------------------------------------
(* Reading bytes.                                                           *)

\* The members of a set of numbers from the smallest to the largest.
Ascending(S) ==
    [i \in 1 .. Cardinality(S) |->
        CHOOSE n \in S : Cardinality({m \in S : m <= n}) = i]

\* The offsets at which the lines between two offsets start.
Starts(from, to) == {from} \cup {i \in Within(from, to) : file[i] = Newline}

\* A byte of a character without the other one: the first, when the second was
\* never written, or the second, when the bytes are read from there on.
Broken(i, from) ==
    LET e == file[i][1]
        k == file[i][2]
    IN  /\ file[i] # Newline /\ events[e].wide # 0
        /\ \/ k = events[e].wide /\ ByteAt(i + 1) # <<e, k + 1>>
           \/ k = events[e].wide + 1 /\ i = from + 1

\* Offsets are counted on the text that the bytes from `from` on decode to, and
\* a broken character decodes to one of three bytes.
Counted(from, b) == b + 2 * Cardinality({i \in Within(from, b) : Broken(i, from)})
Shifted(from, to) == \E b \in Starts(from, to) : Counted(from, b) # b

\* What is between two offsets, without the newlines at its ends.
Piece(from, to) ==
    LET whole == [i \in 1 .. to - from |-> ByteAt(from + i)]
        head == IF whole # <<>> /\ Head(whole) = Newline THEN Tail(whole) ELSE whole
    IN  IF head # <<>> /\ Last(head) = Newline THEN Front(head) ELSE head

\* The event that a piece of the file is, or 0 for a malformed line.
Parsed(piece) ==
    IF /\ piece # <<>> /\ piece[1][1] # 0
       /\ piece = [k \in 1 .. events[piece[1][1]].size |-> <<piece[1][1], k>>]
    THEN piece[1][1] ELSE 0

\* The line that starts at b, in a range of the file that ends at `to`.
LineEnd(b, to) == Min({i \in Within(b, to) : file[i] = Newline} \cup {to})

Concerned(e, p) == e # 0 /\ p \in Principals(events[e])

-----------------------------------------------------------------------------
(* The index: FileAuditStore.                                               *)

NoStat == [taken |-> FALSE, size |-> 0, from |-> 0]
EmptyIndex == [offsets |-> <<>>, fileSize |-> 0, lines |-> [p \in Principal |-> {}]]

\* The lines that a read of the file up to `end` counts, when it was told `size`:
\* a last one without text only if it is counted to start before `size`.
LinesRead(from, end, size) ==
    Ascending({b \in Starts(from, end) : b < end \/ Counted(from, b) < size})

\* The line counted last is dropped if it starts at `size` or later.
Trimmed(offsets, size) ==
    IF offsets # <<>> /\ Last(offsets) >= size THEN Front(offsets) ELSE offsets

\* Those of the lines that start at `starts` that concern p.
Concerning(starts, end, p) ==
    {n \in 1 .. Len(starts) : Concerned(Parsed(Piece(starts[n], LineEnd(starts[n], end))), p)}

\* Mutant of AddLines: line numbers start over with each part that is read.
AddLinesFromOne(idx, end, size) ==
    LET starts == LinesRead(idx.fileSize, end, size)
    IN  [offsets |-> Trimmed(idx.offsets \o
             [n \in 1 .. Len(starts) |-> Counted(idx.fileSize, starts[n])], size),
         fileSize |-> size,
         lines |-> [p \in Principal |-> idx.lines[p] \cup Concerning(starts, end, p)]]

\* Both ways of reading lines into the index: what the file grew by into the one
\* at hand, and all of the file, however long by then, into an empty one.
AddLines(idx, end, size) ==
    LET starts == LinesRead(idx.fileSize, end, size)
        known == Len(idx.offsets)
    IN  [offsets |-> Trimmed(idx.offsets \o
             [n \in 1 .. Len(starts) |-> Counted(idx.fileSize, starts[n])], size),
         fileSize |-> size,
         lines |-> [p \in Principal |-> idx.lines[p] \cup
             {known + n : n \in Concerning(starts, end, p)}]]

\* The index that a read finds which was told `size`.
Grown(size) == index # NoIndex /\ size >= index.fileSize

Ensured(size) ==
    IF Grown(size)
    THEN IF size = index.fileSize THEN index ELSE AddLines(index, size, size)
    ELSE IF size = 0 THEN EmptyIndex ELSE AddLines(EmptyIndex, Len(file), size)

\* Nothing of what `sound` records comes in with that read.
StaysSound(size) ==
    IF Grown(size)
    THEN sound /\ (size > index.fileSize => ~Shifted(index.fileSize, size))
    ELSE size = 0 \/ (size = Len(file) /\ ~Shifted(0, size))

EnsureIndex ==
    /\ stat.taken
    /\ index' = Ensured(stat.size)
    /\ sound' = StaysSound(stat.size)
    /\ stat' = NoStat

\* An append by the server extends the index at the size it last knew, without
\* a look at the file.
ExtendIndex(e) ==
    IF index = NoIndex
    THEN UNCHANGED <<index, sound>>
    ELSE /\ index' =
              [offsets |-> Append(index.offsets, index.fileSize),
               fileSize |-> index.fileSize + e.size + 1,
               lines |-> [p \in Principal |->
                   index.lines[p] \cup
                   (IF p \in Principals(e) THEN {Len(index.offsets) + 1} ELSE {})]]
         /\ sound' = (sound /\ index.fileSize = Len(file))

-----------------------------------------------------------------------------
(* Pages: Array.prototype.slice counts a negative end from the back.        *)

Slice(s, start, end) ==
    SubSeq(s, start + 1, IF end < 0 THEN Len(s) + end ELSE Min({end, Len(s)}))

\* Mutant of PageOf: an item is left out between two pages.
PageOneShort(s, limit, offset) ==
    Slice(s, Max({Len(s) - offset - limit + 1, 0}), Len(s) - offset)

\* The page that starts `offset` items from the end.
PageOf(s, limit, offset) ==
    Slice(s, Max({Len(s) - offset - limit, 0}), Len(s) - offset)

\* The line numbers in the index that concern some of the principals.
LinesOf(idx, of) == Ascending(UNION {idx.lines[p] : p \in of})

\* Where a line ends for the index, and the event on it, or 0.
EndOf(idx, n) == IF n < Len(idx.offsets) THEN idx.offsets[n + 1] ELSE idx.fileSize
OnLine(idx, n) == Parsed(Piece(idx.offsets[n], EndOf(idx, n)))

\* A line that is not among the offsets, or that ends before it starts, cannot
\* be read, and the request fails.
Readable(idx, lines) ==
    \A i \in DOMAIN lines : /\ lines[i] <= Len(idx.offsets)
                            /\ idx.offsets[lines[i]] <= EndOf(idx, lines[i])

ReadSpecificLines(idx, lines) ==
    LET read == [i \in DOMAIN lines |-> OnLine(idx, lines[i])]
        kept == Ascending({i \in DOMAIN lines : read[i] # 0})
    IN  [i \in DOMAIN kept |-> read[kept[i]]]

PageOfTrail(idx, of, limit, offset) == PageOf(LinesOf(idx, of), limit, offset)

ReadByPrincipal(idx, of, limit, offset) ==
    [items |-> Reverse(ReadSpecificLines(idx, PageOfTrail(idx, of, limit, offset))),
     total |-> Len(LinesOf(idx, of))]

\* The cursor of the next page, or 0 when there is none.
NextCursor(total, limit, cursor) ==
    IF cursor + limit < total THEN cursor + limit ELSE 0

-----------------------------------------------------------------------------
NoWalk == [of |-> {}, limit |-> 1, cursor |-> 0, seen |-> {}, from |-> 0,
           ended |-> FALSE, sound |-> TRUE]

LogInit ==
    /\ file = <<>> /\ events = <<>> /\ index = NoIndex /\ stat = NoStat
    /\ walk = NoWalk
    /\ sound = TRUE /\ clean = {} /\ torn = 0 /\ cuts = 0

WholeEnd == file = <<>> \/ Last(file) = Newline

\* A line reaches the file.
WriteLine(e) ==
    /\ Len(events) < MaxEvents
    /\ events' = Append(events, e)
    /\ file' = file \o Text(Len(events) + 1) \o <<Newline>>
    /\ clean' = IF WholeEnd THEN clean \cup {Len(events) + 1} ELSE clean

\* store.audit.append of the server.
ServerAppend(e) ==
    /\ ~stat.taken
    /\ WriteLine(e)
    /\ ExtendIndex(e)
    /\ UNCHANGED <<stat, walk, torn, cuts>>

\* store.audit.append of a command, a process of its own.
CommandAppend(e) ==
    /\ WriteLine(e)
    /\ UNCHANGED <<index, stat, walk, sound, torn, cuts>>

\* The server starts again, without an index; a client that was between two
\* pages goes on with the cursor it has.
Restarted ==
    /\ index' = NoIndex /\ stat' = NoStat /\ sound' = TRUE
    /\ walk' = [walk EXCEPT !.sound = FALSE]

Restart ==
    /\ index # NoIndex \/ stat.taken
    /\ Restarted
    /\ UNCHANGED <<file, events, clean, torn, cuts>>

\* An append is cut short: of a command, or of the server, which restarts.
TornAppend(e, bytes, ofServer) ==
    /\ torn < MaxTorn /\ torn' = torn + 1
    /\ Len(events) < MaxEvents
    /\ events' = Append(events, e)
    /\ file' = file \o SubSeq(Text(Len(events) + 1), 1, bytes)
    /\ \/ ofServer /\ ~stat.taken /\ Restarted
       \/ ~ofServer /\ UNCHANGED <<index, stat, sound, walk>>
    /\ UNCHANGED <<clean, cuts>>

\* The log is emptied from outside; whether the index still
\* describes what is there shows when it is next compared with the file.
Truncate ==
    /\ cuts < MaxCuts /\ cuts' = cuts + 1
    /\ file # <<>>
    /\ file' = <<>> /\ clean' = {}
    /\ sound' = (index = NoIndex)
    /\ UNCHANGED <<events, index, stat, walk, torn>>

\* Any read of the server begins with the size of the file, ...
StatLog ==
    /\ ~stat.taken
    /\ stat' = [taken |-> TRUE, size |-> Len(file), from |-> Len(events)]
    /\ UNCHANGED <<file, events, index, walk, sound, clean, torn, cuts>>

\* ... and brings the index up to date: readPage, getTotal, and what is left by
\* a page of a trail that cannot be read.
ReadPage ==
    /\ EnsureIndex
    /\ UNCHANGED <<file, events, walk, clean, torn, cuts>>

\* A client asks for the first page of a trail ...
BeginWalk(of, limit) ==
    LET idx == Ensured(stat.size)
        page == ReadByPrincipal(idx, of, limit, 0)
    IN
    /\ walk.of = {}
    /\ EnsureIndex
    /\ Readable(idx, PageOfTrail(idx, of, limit, 0))
    /\ walk' = [of |-> of, limit |-> limit,
                cursor |-> NextCursor(page.total, limit, 0),
                seen |-> ToSet(page.items), from |-> stat.from,
                ended |-> NextCursor(page.total, limit, 0) = 0, sound |-> sound']
    /\ UNCHANGED <<file, events, clean, torn, cuts>>

\* ... and for the page at the cursor it was given, until it is given none.
WalkOn ==
    LET idx == Ensured(stat.size)
        page == ReadByPrincipal(idx, walk.of, walk.limit, walk.cursor)
        next == NextCursor(page.total, walk.limit, walk.cursor)
    IN
    /\ walk.of # {} /\ ~walk.ended
    /\ EnsureIndex
    /\ Readable(idx, PageOfTrail(idx, walk.of, walk.limit, walk.cursor))
    /\ walk' = [walk EXCEPT !.cursor = next, !.ended = next = 0,
                            !.seen = @ \cup ToSet(page.items),
                            !.sound = @ /\ sound']
    /\ UNCHANGED <<file, events, clean, torn, cuts>>

LogNext ==
    \/ \E e \in Kinds :
         \/ ServerAppend(e) \/ CommandAppend(e)
         \/ \E bytes \in 1 .. e.size, ofServer \in BOOLEAN :
              TornAppend(e, bytes, ofServer)
    \/ Restart \/ Truncate \/ StatLog \/ ReadPage
    \/ \E of \in Trails, limit \in 1 .. 2 : BeginWalk(of, limit)
    \/ WalkOn

LogSpec == LogInit /\ [][LogNext]_logVars

-----------------------------------------------------------------------------
(* Properties.                                                              *)

InFile(e) == \E i \in DOMAIN file : file[i] = <<e, 1>>
About(of, e) == Principals(events[e]) \cap of # {}

\* The trail of some principals, as far as a page reaches, newest first, has
\* nothing that concerns none of them and every clean line that does, once.
TrailOf(of) ==
    LET idx == Ensured(Len(file))
        trail == ReadByPrincipal(idx, of, Len(events) + 1, 0).items
    IN
    /\ Readable(idx, LinesOf(idx, of))
    /\ \A i \in DOMAIN trail : About(of, trail[i])
    /\ \A i, j \in DOMAIN trail : i < j => trail[i] > trail[j]
    /\ {e \in clean : InFile(e) /\ About(of, e)} \subseteq ToSet(trail)

\* A trail can be read and is exact, across commands that append beside the
\* server and between the two steps of a read, torn lines, restarts and an
\* emptied log (core/src/audit.ts, append, ensureIndex, readNewBytes,
\* rebuildIndex, readByPrincipal). It is not where one of three things got into
\* the index: an append of the server behind one of a command, a line that a
\* command appended while the whole file was read, or a line that starts after
\* one torn inside a character, if one read decoded both.
TrailsExact == StaysSound(Len(file)) => \A of \in Trails : TrailOf(of)

\* "Reading by principal with the agent as the principal yields exactly the
\* events about that agent" (server/src/routes/owner.ts:4192), whoever appends.
TrailsExactAlways == \A p \in Principal : TrailOf({p})

\* A client that follows the cursors misses nothing that was in the log when it
\* began, though lines are appended between its pages and shift them, unless one
\* of those three got into the index, or the server starts again between two
\* pages: the index it then builds may count fewer lines, for a line appended to
\* a torn one is one with it in the file and was two in the index
\* (core/src/audit.ts, readByPrincipal, rebuildIndex; the cursors of
\* server/src/routes).
WalksMissNothing ==
    walk.ended /\ walk.sound /\ cuts = 0 =>
        {e \in clean : e <= walk.from /\ About(walk.of, e)} \subseteq walk.seen
=============================================================================
