------------------------------- MODULE Replay -------------------------------
(* What a client shows of a session: the daemon's scrollback buffer            *)
(* (src/src/daemon/scrollback.ts), the replay a session sends on attach and    *)
(* after a rewind, in one frame or streamed in several while live frames wait  *)
(* (src/src/daemon/session.ts), and the client's store and resume cursor       *)
(* (src/packages/core/src/messages.ts, resume.ts).                             *)
(*                                                                             *)
(* Grain.  One session and one client, with one connection at a time; frames   *)
(* arrive in order or not at all.  One action per synchronous piece of the     *)
(* daemon: a streamed replay gives up the thread after each frame.  A text is  *)
(* the pieces streamed into it: the daemon's is a count, as it only appends,   *)
(* the client's the sequence of the pieces it was given.  Entries have size 1. *)
(* Rows travel by reference until they are put on the wire: a row that waited  *)
(* is sent as it is then, and so is its seq.                                   *)
EXTENDS Naturals, Sequences, Functions

CONSTANTS
    MaxMessages,    \* bound: messages made
    MaxPieces,      \* bound: deltas of a message
    MaxRebuilds,    \* bound: restarts and rewinds
    MaxDrops,       \* bound: connections lost
    PerFrame,       \* REPLAY_CHUNK_BYTES, in entries
    Window,         \* attachTailBytes, in entries
    Faults          \* "cut": a connection is lost in the middle of a replay or of what waited for it

ASSUME ReplayBounds ==
    /\ MaxMessages \in Nat /\ MaxPieces \in Nat /\ MaxRebuilds \in Nat /\ MaxDrops \in Nat
    /\ PerFrame \in Nat \ {0} /\ Window \in Nat \ {0} /\ Faults \subseteq {"cut"}

Messages == 1..MaxMessages

VARIABLES
    made,       \* messages made so far: the next one's id follows
    entries,    \* the buffer: messages, oldest first
    text,       \* pieces in each message
    done,       \* committed: in the transcript, and never to grow again
    at,         \* the entry's seq: the buffer's counter at its last mutation
    seq,        \* the counter
    key,        \* resumeKey
    drops,
    up,         \* the client is connected and attached
    stream,     \* the replay being sent to it in several frames, and the live frames that wait for it
    wire,       \* frames on their way, each with its rows as they were when it was sent
    shown,      \* the client's store: messages in the order shown
    copy,       \* and what it has of each
    cursor      \* what it passes as `resume`; key 0 is none

daemon == <<made, entries, text, done, at, seq, key>>
client == <<shown, copy, cursor>>
vars == <<daemon, drops, up, stream, wire, client>>

NoCursor == [key |-> 0, seq |-> 0]
Blank == [text |-> <<>>, done |-> FALSE]
Rows == [text : Seq(1..MaxPieces), done : BOOLEAN]
Frames == [kind : {"message", "delta", "replay"}, ids : Seq(Messages), piece : 0..MaxPieces,
           seq : Nat, key : Nat, reset : BOOLEAN]
Idle == [chunks |-> <<>>, key |-> 0, seq |-> 0, kept |-> <<>>]
Streams == [chunks : Seq(Seq(Messages)), key : Nat, seq : Nat, kept : Seq(Frames)]

TypeOK ==
    /\ made \in 0..MaxMessages
    /\ entries \in Seq(Messages)
    /\ text \in [Messages -> 0..MaxPieces] /\ done \in [Messages -> BOOLEAN] /\ at \in [Messages -> Nat]
    /\ seq \in Nat /\ key \in 1..(MaxRebuilds + 1) /\ drops \in 0..MaxDrops
    /\ up \in BOOLEAN
    /\ stream \in Streams
    /\ \A i \in DOMAIN wire : wire[i].frame \in Frames
    /\ shown \in Seq(Messages) /\ copy \in [Messages -> Rows]
    /\ cursor = NoCursor \/ cursor \in [key : 1..key, seq : Nat]

Init ==
    /\ made = 0 /\ entries = <<>>
    /\ text = [m \in Messages |-> 0] /\ done = [m \in Messages |-> FALSE] /\ at = [m \in Messages |-> 0]
    /\ seq = 0 /\ key = 1 /\ drops = 0
    /\ up = FALSE /\ stream = Idle /\ wire = <<>>
    /\ shown = <<>> /\ copy = [m \in Messages |-> Blank] /\ cursor = NoCursor

-----------------------------------------------------------------------------
(* Frames and where they go.                                                   *)

Message(m) == [kind |-> "message", ids |-> <<m>>, piece |-> 0, seq |-> 0, key |-> 0, reset |-> FALSE]
Delta(m, n, s) == [kind |-> "delta", ids |-> <<m>>, piece |-> n, seq |-> s, key |-> 0, reset |-> FALSE]
Replayed(ids, k, s, reset) ==
    [kind |-> "replay", ids |-> ids, piece |-> 0, seq |-> s, key |-> k, reset |-> reset]

\* JSON.stringify: what the rows hold now.
Put(f, held) == [frame |-> IF f.kind = "message" THEN [f EXCEPT !.seq = at'[f.ids[1]]] ELSE f,
                 rows |-> [m \in Range(f.ids) |-> [text |-> [i \in 1..text'[m] |-> i], done |-> done'[m]]],
                 held |-> held]
OnWire(frames, held) == [i \in DOMAIN frames |-> Put(frames[i], held)]

\* client.send: on the wire, or kept while a replay is being streamed.
Send(frames) ==
    CASE ~up -> UNCHANGED <<stream, wire>>
      [] up /\ stream = Idle -> wire' = wire \o OnWire(frames, FALSE) /\ UNCHANGED stream
      [] up /\ stream # Idle -> stream' = [stream EXCEPT !.kept = @ \o frames] /\ UNCHANGED wire

Chunks(ids) ==
    [i \in 1..((Len(ids) + PerFrame - 1) \div PerFrame) |->
        SubSeq(ids, (i - 1) * PerFrame + 1, IF i * PerFrame < Len(ids) THEN i * PerFrame ELSE Len(ids))]

\* readTailChunked: a snapshot is the newest rows.
NewestOf(ids) == IF Len(ids) <= Window THEN ids ELSE SubSeq(ids, Len(ids) - Window + 1, Len(ids))

\* #replay: the first frame goes at once, the rest as the socket drains; none for no rows
\* unless the client asked to resume.
replay(ids, incremental, asked) ==
    LET chunks == Chunks(ids)
        first == Replayed(IF chunks = <<>> THEN <<>> ELSE chunks[1], key', seq', ~incremental)
    IN  /\ wire' = IF chunks = <<>> /\ ~asked THEN wire ELSE Append(wire, Put(first, FALSE))
        /\ stream' = IF Len(chunks) <= 1 THEN Idle
                     ELSE [chunks |-> Tail(chunks), key |-> key', seq |-> seq', kept |-> <<>>]

-----------------------------------------------------------------------------
(* The session.                                                                *)

\* ScrollbackBuffer.push: a message already buffered keeps its place.
push(m) ==
    /\ seq' = seq + 1
    /\ at' = [at EXCEPT ![m] = seq']
    /\ entries' = IF m \in Range(entries) THEN entries ELSE Append(entries, m)

\* A prompt, a notice: whole from the start.
PromptArrives ==
    LET m == made + 1
    IN  /\ made < MaxMessages
        /\ made' = m
        /\ push(m)
        /\ done' = [done EXCEPT ![m] = TRUE]
        /\ UNCHANGED <<text, key, drops, up, client>>
        /\ Send(<<Message(m)>>)

touch(m) == seq' = seq + 1 /\ at' = [at EXCEPT ![m] = seq']

\* The first delta of an answer makes its row, empty and in the buffer only, and the delta follows;
\* a row that has to wait waits by reference.
StreamStarts ==
    LET m == made + 1
        opening == [Put(Message(m), FALSE) EXCEPT !.frame.seq = seq + 1, !.rows[m].text = <<>>]
        grows == Delta(m, 1, seq + 2)
    IN  /\ made < MaxMessages /\ entries # <<>>
        /\ made' = m
        /\ entries' = Append(entries, m)
        /\ seq' = seq + 2 /\ at' = [at EXCEPT ![m] = seq']
        /\ text' = [text EXCEPT ![m] = 1]
        /\ UNCHANGED <<done, key, drops, up, client>>
        /\ IF up /\ stream = Idle
           THEN wire' = wire \o <<opening, Put(grows, FALSE)>> /\ UNCHANGED stream
           ELSE Send(<<Message(m), grows>>)

Streaming(m) == m \in Range(entries) /\ ~done[m]

Grows(m) ==
    /\ Streaming(m) /\ text[m] < MaxPieces
    /\ text' = [text EXCEPT ![m] = @ + 1]
    /\ touch(m)
    /\ UNCHANGED <<made, entries, done, key, drops, up, client>>
    /\ Send(<<Delta(m, text'[m], seq')>>)

commitStreamed(m) ==
    /\ Streaming(m)
    /\ push(m)
    /\ done' = [done EXCEPT ![m] = TRUE]
    /\ UNCHANGED <<made, text, key, drops, up, client>>
    /\ Send(<<Message(m)>>)

Renumbered(ids, base) ==
    [m \in Messages |-> IF \E i \in DOMAIN ids : ids[i] = m
                        THEN base + CHOOSE i \in DOMAIN ids : ids[i] = m ELSE at[m]]

NextKeySame == key' = key
NextKey == key' = key + 1

MidReplay == stream # Idle \/ \E i \in DOMAIN wire : wire[i].held \/ wire[i].frame.kind = "replay"
MayCut == "cut" \in Faults \/ ~MidReplay

Hangup == up' = FALSE /\ wire' = <<>> /\ stream' = Idle

\* restoreScrollback: the buffer is what the transcript holds, with seqs of its own.
Restart ==
    /\ key <= MaxRebuilds /\ MayCut
    /\ NextKey
    /\ entries' = SelectSeq(entries, LAMBDA m : done[m])
    /\ seq' = Len(entries')
    /\ at' = Renumbered(entries', 0)
    /\ Hangup
    /\ UNCHANGED <<made, text, done, drops, client>>

\* The rows from the i-th on are taken back and a marker put in their place; every client gets a fresh view.
Rewind(i) ==
    LET marker == made + 1
    IN  /\ key <= MaxRebuilds /\ made < MaxMessages
        /\ \A m \in Range(entries) : done[m]
        /\ stream = Idle
        /\ made' = marker
        /\ done' = [done EXCEPT ![marker] = TRUE]
        /\ entries' = Append(SubSeq(entries, 1, i - 1), marker)
        /\ seq' = seq + 1 + Len(entries')
        /\ at' = Renumbered(entries', seq + 1)
        /\ NextKey
        /\ UNCHANGED <<text, drops, up, client>>
        /\ IF up THEN replay(NewestOf(entries'), FALSE, FALSE) ELSE UNCHANGED <<stream, wire>>

-----------------------------------------------------------------------------
(* The connection.                                                             *)

\* readChunkedSince: what was mutated after the client's cursor.
Stale(m) == at[m] > cursor.seq

Attach ==
    /\ ~up
    /\ up' = TRUE
    /\ UNCHANGED <<daemon, drops, client>>
    /\ IF cursor.key = key
       THEN replay(SelectSeq(entries, Stale), TRUE, TRUE)
       ELSE replay(NewestOf(entries), FALSE, cursor # NoCursor)

Drop ==
    /\ up /\ drops < MaxDrops /\ MayCut
    /\ drops' = drops + 1
    /\ Hangup
    /\ UNCHANGED <<daemon, client>>

FlushedNothing == <<>>
Flushed == stream.kept

\* streamReplay after a flush: the next frame; after the last one, what was kept.
Drain ==
    LET frame == Put(Replayed(Head(stream.chunks), stream.key, stream.seq, FALSE), FALSE)
        last == Len(stream.chunks) = 1
    IN  /\ stream # Idle
        /\ UNCHANGED <<daemon, drops, up, client>>
        /\ stream' = IF last THEN Idle ELSE [stream EXCEPT !.chunks = Tail(@)]
        /\ wire' = Append(wire, frame) \o (IF last THEN OnWire(Flushed, TRUE) ELSE <<>>)

-----------------------------------------------------------------------------
(* The client: MessageStore.ingest with its cursors.                           *)

noteLiveSeq(s) == cursor' = IF cursor # NoCursor /\ s > cursor.seq THEN [cursor EXCEPT !.seq = s] ELSE cursor

noteReplayFrame(k, s) ==
    cursor' = IF cursor.key = k /\ s <= cursor.seq THEN cursor ELSE [key |-> k, seq |-> s]

\* applyMessage, appendScrollback: by messageId, in place or at the end.
Upsert(ids, rows) ==
    /\ shown' = shown \o SelectSeq(ids, LAMBDA m : m \notin Range(shown))
    /\ copy' = [m \in Messages |-> IF m \in DOMAIN rows THEN rows[m] ELSE copy[m]]

replaceScrollback(ids, rows) ==
    /\ shown' = ids
    /\ copy' = [m \in Messages |-> IF m \in DOMAIN rows THEN rows[m] ELSE Blank]

applyDelta(m, piece) ==
    /\ UNCHANGED shown
    /\ copy' = IF m \in Range(shown) THEN [copy EXCEPT ![m].text = Append(@, piece)] ELSE copy

Receive(kind) ==
    /\ wire # <<>> /\ Head(wire).frame.kind = kind
    /\ wire' = Tail(wire)
    /\ UNCHANGED <<daemon, drops, up, stream>>

MessageArrives ==
    /\ Receive("message")
    /\ noteLiveSeq(Head(wire).frame.seq)
    /\ Upsert(Head(wire).frame.ids, Head(wire).rows)

DeltaArrives ==
    /\ Receive("delta")
    /\ noteLiveSeq(Head(wire).frame.seq)
    /\ applyDelta(Head(wire).frame.ids[1], Head(wire).frame.piece)

ReplayArrives ==
    LET f == Head(wire).frame
    IN  /\ Receive("replay")
        /\ noteReplayFrame(f.key, f.seq)
        /\ IF f.reset THEN replaceScrollback(f.ids, Head(wire).rows) ELSE Upsert(f.ids, Head(wire).rows)

-----------------------------------------------------------------------------
Arrival == MessageArrives \/ DeltaArrives \/ ReplayArrives

Next ==
    \/ PromptArrives \/ StreamStarts \/ Restart \/ Attach \/ Drop
    \/ \E m \in Messages : Grows(m) \/ commitStreamed(m)
    \/ \E i \in DOMAIN entries : Rewind(i)
    \/ Drain
    \/ MessageArrives \/ DeltaArrives \/ ReplayArrives

Spec == Init /\ [][Next]_vars

(* The client reconnects; the socket drains and delivers (server.ts:1017).     *)
FairSpec ==
    /\ Spec
    /\ WF_vars(Attach) /\ WF_vars(Arrival) /\ WF_vars(Drain)

-----------------------------------------------------------------------------
Has(m) == m \in Range(shown) /\ 1..text[m] \subseteq Range(copy[m].text)
Exact(m) == /\ m \in Range(shown)
            /\ copy[m] = [text |-> [i \in 1..text[m] |-> i], done |-> done[m]]

(* When nothing is on its way a client whose window holds the session shows    *)
(* its rows in their order and no others: nothing a rewind took back, nothing  *)
(* a restart lost, no row twice, no committed text with a piece twice or       *)
(* missing; nor anything missing that a cursor says it has (resume.ts:10-14).   *)
Converged ==
    up /\ wire = <<>> /\ stream = Idle =>
        /\ shown = entries
        /\ \A m \in Range(entries) : Has(m) /\ (done[m] => Exact(m))

(* Every committed row that is not taken back reaches the client, as it was    *)
(* committed, however often the connection is lost.                            *)
RowsArrive ==
    \A m \in Messages : m \in Range(entries) /\ done[m] ~> m \notin Range(entries) \/ Exact(m)
=============================================================================
