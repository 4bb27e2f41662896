------------------------------ MODULE WsRecorder ------------------------------
(***************************************************************************)
(* The recorder of the order books: the websocket client                   *)
(* (bot/kalshi_ws.py), the session that subscribes, batches and persists   *)
(* (bot/main.py), and the feed of the venue between them.  The client runs *)
(* as one task that stays at most one event ahead of the session; a        *)
(* persist is one transaction; every fault that kills a session drops      *)
(* what was not persisted.                                                 *)
(***************************************************************************)
EXTENDS Parity, Functions

CONSTANTS
    BatchMax,    \* WS_PERSIST_BATCH_MAX
    MaxChanges,  \* bound on the changes of the books
    MaxFaults    \* bound on lost links, skipped messages, dead sessions and
                 \* markets that open or close

ASSUME RecorderAssumption ==
    BatchMax \in Nat \ {0} /\ MaxChanges \in Nat /\ MaxFaults \in Nat

VARIABLES
    market,   \* per ticker: unlisted, open, closed
    book,     \* the venue's books
    ver,      \* history: how often each changed
    faults,
    link,     \* the connection, at the venue's end
    client,   \* KalshiWSClient and the task that runs its events()
    rec,      \* _ws_record_session
    tape

venueVars == <<market, book, ver>>
vars      == <<venueVars, faults, link, client, rec, tape>>

Message == [ kind : {"snapshot", "delta"}, ticker : Tickers, seq : Nat,
             size : -MaxSize..MaxSize, book : 0..MaxSize, ver : Nat ]

Event == [ kind   : {"none", "frame", "gap"},
           at     : Nat,                      \* the tape entry of a frame
           ticker : Tickers \cup {ALL} ]      \* of a gap

NoEvent == [kind |-> "none", at |-> 0, ticker |-> ALL]

NoLink == [up |-> FALSE, subs |-> {}, due |-> {}, seq |-> 0, wire |-> <<>>]

\* A subscription: the venue owes a snapshot of every ticker.
NewLink(ts) == [up |-> TRUE, subs |-> ts, due |-> ts, seq |-> 0, wire |-> <<>>]

\* The state of a client that aclose() left; open says that it holds a
\* connection, gap that _pending_gap is set, held is the frame its generator
\* is to yield after a gap.
Closed == [open |-> FALSE, seq |-> 0, gap |-> FALSE, held |-> 0, ready |-> NoEvent]

Off == [pc |-> "off", subscribed |-> {}, batch |-> {}]

\* latest_markets and recording_tickers hold the open markets.
Desired == {t \in Tickers : market[t] = "open"}

Init ==
    /\ market \in [Tickers -> {"unlisted", "open"}]
    /\ book \in [Tickers -> 0..MaxSize]
    /\ ver = [t \in Tickers |-> 0]
    /\ faults = 0
    /\ link = NoLink
    /\ client = Closed
    /\ rec = Off
    /\ tape = <<>>

-----------------------------------------------------------------------------
(***************************************************************************)
(* The venue                                                               *)
(***************************************************************************)

List(t) ==
    /\ market[t] # "closed" /\ faults < MaxFaults
    /\ market' = [market EXCEPT ![t] = IF @ = "unlisted" THEN "open" ELSE "closed"]
    /\ faults' = faults + 1
    /\ UNCHANGED <<book, ver, link, client, rec, tape>>

\* The next message of the link, unless the feed skips it.
Sent(kind, t, size, now, v, skipped) ==
    LET m == [kind |-> kind, ticker |-> t, seq |-> link.seq + 1,
              size |-> size, book |-> now, ver |-> v]
    IN  [link EXCEPT !.seq  = @ + 1,
                     !.due  = IF kind = "snapshot" THEN @ \ {t} ELSE @,
                     !.wire = IF skipped THEN @ ELSE Append(@, m)]

SendSnapshot(t) ==
    /\ link.up /\ t \in link.due /\ link.wire = <<>>
    /\ link' = Sent("snapshot", t, book[t], book[t], ver[t], FALSE)
    /\ UNCHANGED <<venueVars, faults, client, rec, tape>>

\* A book changes. The deltas of a subscription follow its snapshots.
Change(t, now, skipped) ==
    /\ market[t] = "open" /\ SumFunction(ver) < MaxChanges /\ now # book[t]
    /\ book' = [book EXCEPT ![t] = now]
    /\ ver' = [ver EXCEPT ![t] = @ + 1]
    /\ IF link.up /\ t \in link.subs \ link.due
       THEN /\ link.due = {} /\ link.wire = <<>>
            /\ skipped => faults < MaxFaults
            /\ link' = Sent("delta", t, now - book[t], now, ver[t] + 1, skipped)
       ELSE ~skipped /\ UNCHANGED link
    /\ faults' = IF skipped THEN faults + 1 ELSE faults
    /\ UNCHANGED <<market, client, rec, tape>>

\* The connection ends; what already arrived can still be read.
LoseLink ==
    /\ link.up /\ faults < MaxFaults
    /\ \E n \in 0..Len(link.wire) :
          link' = [NoLink EXCEPT !.seq = link.seq, !.wire = SubSeq(link.wire, 1, n)]
    /\ faults' = faults + 1
    /\ UNCHANGED <<venueVars, client, rec, tape>>

-----------------------------------------------------------------------------
(***************************************************************************)
(* KalshiWSClient.events(), up to its next yield                           *)
(***************************************************************************)

\* The generator is asked for its next event and has none to finish first.
Reading ==
    /\ client.open /\ ~client.gap
    /\ client.ready = NoEvent /\ client.held = 0

Frame(m) == [kind |-> m.kind, ticker |-> m.ticker, seq |-> m.seq, size |-> m.size,
             stored |-> FALSE, book |-> m.book, ver |-> m.ver]
FrameEvent(i) == [kind |-> "frame", at |-> i, ticker |-> ALL]
GapEvent(t)   == [kind |-> "gap", at |-> 0, ticker |-> t]

\* _track_seq, which has no number yet on a new connection.
Skipped(prev, seq) == prev # 0 /\ seq # prev + 1

Read ==
    /\ Reading /\ link.wire # <<>>
    /\ LET m == Head(link.wire)
           i == Len(tape) + 1
       IN  /\ tape' = Append(tape, Frame(m))
           /\ client' =
                IF Skipped(client.seq, m.seq)
                THEN [client EXCEPT !.seq = m.seq, !.held = i,
                                    !.ready = GapEvent(m.ticker)]
                ELSE [client EXCEPT !.seq = m.seq, !.ready = FrameEvent(i)]
    /\ link' = [link EXCEPT !.wire = Tail(@)]
    /\ UNCHANGED <<venueVars, faults, rec>>

\* After the gap, the message that showed it.
YieldHeld ==
    /\ client.held # 0 /\ client.ready = NoEvent
    /\ client' = [client EXCEPT !.held = 0, !.ready = FrameEvent(client.held)]
    /\ UNCHANGED <<venueVars, faults, link, rec, tape>>

\* _trigger_reconnect: the connection is gone, or reported a terminal error.
Disconnect ==
    /\ Reading /\ ~link.up /\ link.wire = <<>>
    /\ client' = [Closed EXCEPT !.gap = TRUE]
    /\ link' = NoLink
    /\ UNCHANGED <<venueVars, faults, rec, tape>>

\* Mutant: the subscription is not sent again.
ReconnectSilently ==
    /\ ~client.open /\ client.gap
    /\ client' = [client EXCEPT !.open = TRUE]
    /\ link' = [NoLink EXCEPT !.up = TRUE]
    /\ UNCHANGED <<venueVars, faults, rec, tape>>

\* An attempt of its retry loop succeeds.
Reconnect ==
    /\ ~client.open /\ client.gap
    /\ client' = [client EXCEPT !.open = TRUE]
    /\ link' = NewLink(rec.subscribed)
    /\ UNCHANGED <<venueVars, faults, rec, tape>>

YieldGap ==
    /\ client.open /\ client.gap /\ client.ready = NoEvent
    /\ client' = [client EXCEPT !.gap = FALSE, !.ready = GapEvent(ALL)]
    /\ UNCHANGED <<venueVars, faults, link, rec, tape>>

-----------------------------------------------------------------------------
(***************************************************************************)
(* _ws_record_session                                                      *)
(***************************************************************************)

\* _ws_resubscribe: the task is cancelled, with what it had ready, and the
\* client starts over.
Subscribe(ts) ==
    /\ client' = [Closed EXCEPT !.open = ts # {}]
    /\ link' = IF ts = {} THEN NoLink ELSE NewLink(ts)
    /\ rec' = [pc |-> "wait", subscribed |-> ts, batch |-> {}]

Refresh ==
    /\ rec.pc = "wait" /\ rec.subscribed # Desired
    /\ Subscribe(Desired)
    /\ UNCHANGED <<venueVars, faults, tape>>

GapRow(t) == [kind |-> "gap", ticker |-> t, seq |-> 0, size |-> 0,
              stored |-> FALSE, book |-> 0, ver |-> 0]

\* The batch takes the event; a gap ends it, and its row is stamped.
Take ==
    /\ rec.pc \in {"wait", "drain"} /\ client.ready # NoEvent
    /\ Cardinality(rec.batch) < BatchMax
    /\ client' = [client EXCEPT !.ready = NoEvent]
    /\ IF client.ready.kind = "frame"
       THEN /\ rec' = [rec EXCEPT !.pc = "drain", !.batch = @ \cup {client.ready.at}]
            /\ UNCHANGED tape
       ELSE /\ rec' = [rec EXCEPT !.pc = "commit", !.batch = @ \cup {Len(tape) + 1}]
            /\ tape' = Append(tape, GapRow(client.ready.ticker))
    /\ UNCHANGED <<venueVars, faults, link>>

\* Nothing came within the drain time, or the batch is full.
EndBatch ==
    /\ rec.pc = "drain"
    /\ rec' = [rec EXCEPT !.pc = "commit"]
    /\ UNCHANGED <<venueVars, faults, link, client, tape>>

\* The batch ends with the gap of a skipped number.
EndsInSkip(batch) ==
    LET last == tape[Max(batch)] IN last.kind = "gap" /\ last.ticker # ALL

\* Mutant: the recorder goes on with the same subscription after a skip.
CommitAndGoOn ==
    /\ rec.pc = "commit"
    /\ tape' = [i \in DOMAIN tape |->
                  IF i \in rec.batch THEN [tape[i] EXCEPT !.stored = TRUE] ELSE tape[i]]
    /\ rec' = [rec EXCEPT !.batch = {}, !.pc = "wait"]
    /\ UNCHANGED <<venueVars, faults, link, client>>

\* _persist_ws_events.
Commit ==
    /\ rec.pc = "commit"
    /\ tape' = [i \in DOMAIN tape |->
                  IF i \in rec.batch THEN [tape[i] EXCEPT !.stored = TRUE] ELSE tape[i]]
    /\ rec' = [rec EXCEPT !.batch = {},
                          !.pc = IF EndsInSkip(rec.batch) THEN "resubscribe" ELSE "wait"]
    /\ UNCHANGED <<venueVars, faults, link, client>>

Resubscribe ==
    /\ rec.pc = "resubscribe"
    /\ Subscribe(rec.subscribed)
    /\ UNCHANGED <<venueVars, faults, tape>>

\* An await of the session raises, or the process dies.
Stop ==
    /\ rec.pc # "off" /\ faults < MaxFaults
    /\ rec' = Off /\ client' = Closed /\ link' = NoLink
    /\ faults' = faults + 1
    /\ UNCHANGED <<venueVars, tape>>

\* run_loop, or the restarted process, starts the next session.
Start ==
    /\ rec.pc = "off"
    /\ rec' = [rec EXCEPT !.pc = "wait"]
    /\ UNCHANGED <<venueVars, faults, link, client, tape>>

Venue ==
    \/ \E t \in Tickers :
          \/ List(t)
          \/ SendSnapshot(t)
          \/ \E now \in 0..MaxSize, skipped \in BOOLEAN : Change(t, now, skipped)
    \/ LoseLink

Client  == Read \/ YieldHeld \/ Disconnect \/ Reconnect \/ YieldGap
Session == Refresh \/ Take \/ EndBatch \/ Commit \/ Resubscribe \/ Start

Next == Venue \/ Client \/ Session \/ Stop

\* The venue answers a subscription and lets a client back in; the task and
\* the session are scheduled.
Fairness ==
    /\ \A t \in Tickers : WF_vars(SendSnapshot(t))
    /\ WF_vars(Read) /\ WF_vars(YieldHeld) /\ WF_vars(YieldGap)
    /\ WF_vars(Disconnect) /\ WF_vars(Reconnect)
    /\ WF_vars(Refresh) /\ WF_vars(Take) /\ WF_vars(EndBatch)
    /\ WF_vars(Commit) /\ WF_vars(Resubscribe) /\ WF_vars(Start)

Spec == Init /\ [][Next]_vars
LiveSpec == Spec /\ Fairness

-----------------------------------------------------------------------------

TypeOK ==
    /\ market \in [Tickers -> {"unlisted", "open", "closed"}]
    /\ book \in [Tickers -> 0..MaxSize]
    /\ ver \in [Tickers -> 0..MaxChanges]
    /\ faults \in 0..MaxFaults
    /\ link.up \in BOOLEAN /\ link.due \subseteq link.subs /\ link.subs \subseteq Tickers
    /\ link.seq \in Nat /\ Range(link.wire) \subseteq Message
    /\ client.open \in BOOLEAN /\ client.gap \in BOOLEAN
    /\ client.seq \in Nat /\ client.held \in 0..Len(tape)
    /\ client.ready \in Event
    /\ rec.pc \in {"off", "wait", "drain", "commit", "resubscribe"}
    /\ rec.subscribed \subseteq Tickers /\ rec.batch \subseteq DOMAIN tape
    /\ Range(tape) \subseteq Entry
    /\ \A i \in rec.batch : ~tape[i].stored

(* Whenever book_state_at answers, outside the spans that the clear scan     *)
(* reports, the book it folds from the rows is the book the venue had at     *)
(* the last of them: no row is missing from the middle and none is left      *)
(* over from an earlier subscription (ws_book.py, _apply and _GAP).  The     *)
(* state is well formed, and no row of the batch is stored.                  *)
ReplayIsTheVenuesBook ==
    /\ TypeOK
    /\ \A t \in Tickers : \A i \in RowsOf(tape, t) :
          Answers(tape, t, i) /\ ~StaleAt(tape, t, i)
              => Folded(tape, t, i) = tape[i].book

NextRowOf(t, i) == Min({r \in RowsOf(tape, t) : r > i})
HasNextRow(t, i) == \E r \in RowsOf(tape, t) : r > i

\* Changes of t between two of its rows that follow each other are on neither.
LostAfter(t, i) ==
    LET n == NextRowOf(t, i)
    IN  tape[n].ver # tape[i].ver + (IF tape[n].kind = "delta" THEN 1 ELSE 0)

ClearBetween(i, n) ==
    \E t \in Tickers : ClearFrames(tape, t) \cap (i..n) # {}

LossIsInABlindWindow(t, i) ==
    \E w \in BlindWindows(tape) : i <= w.start /\ NextRowOf(t, i) <= w.end

(* A change of a book that is not on the tape was lost in a blind window:    *)
(* the detector finds the boundary from the numbers of the rows alone, and   *)
(* the window spans from before the loss to the snapshot that repairs it     *)
(* (BlindWindowDetector), however the connection, the session or the         *)
(* process ended.  Empty snapshots, which leave no row, are excepted.        *)
EveryLossIsInABlindWindow ==
    \A t \in Tickers : \A i \in RowsOf(tape, t) :
        HasNextRow(t, i) /\ LostAfter(t, i) /\ ~ClearBetween(i, NextRowOf(t, i))
            => LossIsInABlindWindow(t, i)

(* The same without the exception: what a resubscribe dropped of a book is   *)
(* excluded as its blind window (README.md:47).                              *)
EveryResubscribeIsExcluded ==
    \A t \in Tickers : \A i \in RowsOf(tape, t) :
        HasNextRow(t, i) /\ LostAfter(t, i)
            /\ ~(\E c \in ClearFrames(tape, t) : c \in i..NextRowOf(t, i))
            => LossIsInABlindWindow(t, i)

(* A gap row is attached to the window of its own boundary, or to none when  *)
(* another gap row has it (attach_gap_rows): run_scope classifies the window *)
(* by the reason of that row.                                                *)
GapRowsFindTheirWindow ==
    \A g \in DOMAIN tape :
        /\ tape[g].kind = "gap" /\ tape[g].stored
        /\ \A t \in Tickers : ClearFrames(tape, t) = {}
        => AttachedTo(tape, g) \subseteq {PrevRow(tape, g)}

(* Nothing about a gap is told twice or not at all: the window that its row  *)
(* is attached to, the windows that a pass draws around it, the replay of    *)
(* the pass beside book_state_at, and the numbers it skipped.  Between two   *)
(* persists: what is stored does not change in between.                      *)
GapsAreAccountedFor ==
    /\ GapRowsFindTheirWindow
    /\ rec.batch = {} => PathsPartAtTheEdges(tape) /\ SkipsAreExplained(tape)

\* The newest frame of t on the raw tape is its newest change, and its row, if
\* it has one, is in the database.
Current(t) ==
    \E i \in DOMAIN tape :
        /\ tape[i].kind # "gap" /\ tape[i].ticker = t /\ tape[i].ver = ver[t]
        /\ tape[i].stored

\* The venue's last message on this link was skipped and none followed.
Silent == link.up /\ link.wire = <<>> /\ link.due = {} /\ client.seq # link.seq

(* The tape catches up with every open market, whatever links, sessions and  *)
(* messages were lost, except for a skipped message that nothing follows.    *)
EventuallyCurrent == []<>(Silent \/ \A t \in Desired : Current(t))
=============================================================================
