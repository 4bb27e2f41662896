--------------------------- MODULE WsRecorderProofs ----------------------------
(***************************************************************************)
(* The recorded tape, for any markets, changes and faults: that what the   *)
(* readers replay from it is the venue's book, that what was lost lies in  *)
(* a blind window, and that every gap is accounted for.  The invariants    *)
(* say how a session writes: the frames of a subscription stand on the     *)
(* tape one after another, in the order of their numbers, and the stored   *)
(* ones are a first part of them.                                          *)
(***************************************************************************)
EXTENDS WsRecorder, FoldProofs

(***************************************************************************)
(* The tape T by itself                                                    *)
(***************************************************************************)

\* The positions of the frames of a subscription up to the one at n.
Block(T, n) == (n + 1 - T[n].seq)..n

\* What the frame at n owes to those before it: a snapshot comes before every
\* delta and once for its market, a delta takes up where the last frame of its
\* market left the book.
Whole(T, n) ==
    /\ T[n].seq \in 1..n /\ T[n].ticker \in Tickers
    /\ \A k \in Block(T, n) : T[k].kind # "gap" /\ T[k].seq = T[n].seq - (n - k)
    /\ T[n].kind = "snapshot" =>
          /\ T[n].size = T[n].book
          /\ \A k \in Block(T, n) \ {n} : T[k].kind = "snapshot" /\ T[k].ticker # T[n].ticker
    /\ T[n].kind = "delta" =>
          \E p \in Block(T, n) \ {n} :
             /\ T[p].ticker = T[n].ticker
             /\ \A k \in (p + 1)..(n - 1) : T[k].ticker # T[n].ticker
             /\ T[n].book = T[p].book + T[n].size
             /\ T[n].ver = T[p].ver + 1

IsFrame(T, n) == T[n].kind # "gap"

\* A stored frame is whole, and so is what was stored before it.
TapeInv(T) ==
    \A n \in DOMAIN T :
        T[n].stored /\ IsFrame(T, n) => Whole(T, n) /\ \A k \in Block(T, n) : T[k].stored

(***************************************************************************)
(* What the session has in hand                                            *)
(***************************************************************************)

\* The session is about to subscribe again, and takes nothing more.
Skipping ==
    \/ rec.pc = "resubscribe"
    \/ rec.pc = "commit" /\ EndsInSkip(rec.batch)

BatchInv ==
    /\ \A n \in rec.batch : IsFrame(tape, n) =>
          Whole(tape, n) /\ \A k \in Block(tape, n) : tape[k].stored \/ k \in rec.batch
    /\ rec.pc \in {"off", "wait", "resubscribe"} <=> rec.batch = {}
    /\ rec.pc = "drain" => \A n \in rec.batch : IsFrame(tape, n)

\* A frame that the client has ready or holds is on the tape and not stored.
Untaken(n) == n \in DOMAIN tape /\ IsFrame(tape, n) /\ ~tape[n].stored /\ n \notin rec.batch

ReadyInv ==
    /\ client.ready.kind = "none" => client.ready = NoEvent
    /\ client.ready.kind = "frame" =>
          /\ client.ready = FrameEvent(client.ready.at)
          /\ Untaken(client.ready.at)
          /\ ~Skipping =>
                /\ Whole(tape, client.ready.at)
                /\ \A k \in Block(tape, client.ready.at) \ {client.ready.at} :
                      tape[k].stored \/ k \in rec.batch
    /\ client.held # 0 => Untaken(client.held)

\* What the client is doing: it is closed, has lost its link, is between the
\* gap of a skip and the frame that showed it, or reads.
SkipReady == client.ready.kind = "gap" /\ client.ready.ticker # ALL
LossReady == client.ready.kind = "gap" /\ client.ready.ticker = ALL

ClientInv ==
    /\ ~client.open => /\ link = NoLink /\ client.seq = 0 /\ client.held = 0
                       /\ client.ready = NoEvent
    /\ client.gap => client.seq = 0 /\ client.held = 0 /\ client.ready = NoEvent
    /\ LossReady => client.seq = 0 /\ client.held = 0
    /\ client.held # 0 => IF Skipping THEN client.ready = NoEvent ELSE SkipReady
    /\ SkipReady => client.held # 0
    /\ Skipping => client.held # 0 \/ client.ready.kind = "frame"
    /\ rec.pc = "off" => client = Closed

(***************************************************************************)
(* What is on its way                                                      *)
(***************************************************************************)

Waiting == link.wire # <<>>

LinkInv ==
    /\ Len(link.wire) <= 1
    /\ Waiting =>
          /\ client.open
          /\ Head(link.wire).seq = link.seq /\ client.seq < link.seq
          /\ client.seq = 0 => link.seq = 1 /\ Head(link.wire).kind = "snapshot"
          /\ Head(link.wire).kind = "snapshot" => Head(link.wire).size = Head(link.wire).book
          /\ link.up => Head(link.wire).ticker \in link.subs \ link.due
          /\ link.up /\ link.due # {} => Head(link.wire).kind = "snapshot"
    /\ link.up /\ ~Waiting => client.seq <= link.seq /\ (client.seq = 0 => link.seq = 0)
    /\ link.up /\ link.subs # link.due => link.seq # 0

\* Nothing was skipped since the last frame.
InStep == IF Waiting THEN Head(link.wire).seq = client.seq + 1 ELSE client.seq = link.seq

\* The frames of the link on the tape.
Reached == (Len(tape) + 1 - client.seq)..Len(tape)

InHand(k) == tape[k].stored \/ k \in rec.batch \/ client.ready = FrameEvent(k)

\* Position p is the last frame of t, which left the book like this.
LastIs(t, p, now, v) ==
    /\ tape[p].ticker = t /\ \A k \in (p + 1)..Len(tape) : tape[k].ticker # t
    /\ tape[p].book = now /\ tape[p].ver = v

\* As long as nothing was skipped, the session has every frame of the link, and
\* the next message takes up where they end.
FlowInv ==
    client.open /\ client.held = 0 /\ ~Skipping =>
        /\ client.seq <= Len(tape)
        /\ \A k \in Reached : /\ IsFrame(tape, k) /\ InHand(k)
                              /\ tape[k].seq = client.seq - (Len(tape) - k)
        /\ link.up /\ link.due # {} =>
              \A k \in Reached : tape[k].kind = "snapshot" /\ tape[k].ticker \notin link.due
        /\ Waiting /\ InStep =>
              LET m == Head(link.wire)
              IN  /\ m.kind = "snapshot" =>
                        \A k \in Reached : tape[k].kind = "snapshot" /\ tape[k].ticker # m.ticker
                  /\ m.kind = "delta" =>
                        \E p \in Reached : LastIs(m.ticker, p, m.book - m.size, m.ver - 1)
        /\ link.up /\ InStep =>
              \A t \in link.subs \ link.due :
                 IF Waiting /\ Head(link.wire).ticker = t
                 THEN Head(link.wire).book = book[t] /\ Head(link.wire).ver = ver[t]
                 ELSE \E p \in Reached : LastIs(t, p, book[t], ver[t])



-----------------------------------------------------------------------------
(***************************************************************************)
(* Types                                                                   *)
(***************************************************************************)

Links    == [up : BOOLEAN, subs : SUBSET Tickers, due : SUBSET Tickers, seq : Nat,
             wire : Seq(Message)]
Clients  == [open : BOOLEAN, seq : Nat, gap : BOOLEAN, held : Nat, ready : Event]
Sessions == [pc : {"off", "wait", "drain", "commit", "resubscribe"},
             subscribed : SUBSET Tickers, batch : SUBSET Nat]

VenueTypes ==
    /\ market \in [Tickers -> {"unlisted", "open", "closed"}]
    /\ book \in [Tickers -> 0..MaxSize]
    /\ ver \in [Tickers -> 0..MaxChanges]
    /\ faults \in 0..MaxFaults

TypeInv ==
    /\ VenueTypes
    /\ link \in Links /\ link.due \subseteq link.subs
    /\ client \in Clients /\ rec \in Sessions /\ tape \in Seq(Entry)
    /\ client.held \in 0..Len(tape)
    /\ rec.batch \subseteq DOMAIN tape /\ \A i \in rec.batch : ~tape[i].stored

\* No market changed more often than all of them together.
LEMMA ChangesOfOne ==
    ASSUME VenueTypes, NEW t \in Tickers
    PROVE  SumFunction(ver) \in Int /\ ver[t] <= SumFunction(ver)
<1>. DEFINE f == [u \in Tickers |-> IF u = t THEN ver[t] ELSE 0]
            z == [u \in Tickers |-> 0]
<1>1. /\ ver \in [Tickers -> Int] /\ ver[t] \in Int /\ \A u \in Tickers : ver[u] >= 0
  BY RecorderAssumption DEF VenueTypes
<1>2. f \in [Tickers -> Int] /\ z \in [Tickers -> Int]
  BY <1>1
<1>3. /\ \A u \in Tickers \ {t} : f[u] = z[u]
      /\ f[t] = ver[t] /\ z[t] = 0 /\ \A u \in Tickers : f[u] <= ver[u]
  BY <1>1
<1>4. SumFunction(z) = 0
  BY TapeAssumption, SumOfZeros
<1>. HIDE DEF f, z
<1>5. SumFunction(f) = SumFunction(z) + (f[t] - z[t])
  BY <1>2, <1>3, TapeAssumption, SumChanges
<1>6. SumFunction(f) <= SumFunction(ver)
  BY <1>1, <1>2, <1>3, TapeAssumption, SumGrows
<1>7. SumFunction(ver) \in Int
  BY <1>1, TapeAssumption, SumType
<1> QED BY <1>1, <1>3, <1>4, <1>5, <1>6, <1>7

\* A session that has just subscribed.
LEMMA SubscribeTypes ==
    ASSUME TypeInv, NEW ts \in SUBSET Tickers, Subscribe(ts)
    PROVE  /\ link' \in Links /\ link'.due \subseteq link'.subs
           /\ client' \in Clients /\ client'.held = 0
           /\ rec' \in Sessions /\ rec'.batch = {}
<1>1. NoLink \in Links /\ NewLink(ts) \in Links
  BY DEF Links, NoLink, NewLink
<1>2. NoEvent \in Event
  BY DEF NoEvent, Event
<1>3. [Closed EXCEPT !.open = ts # {}] \in Clients /\ Closed.held = 0
  BY <1>2 DEF Closed, Clients
<1>4. [pc |-> "wait", subscribed |-> ts, batch |-> {}] \in Sessions
  BY DEF Sessions
<1> QED BY <1>1, <1>3, <1>4 DEF Subscribe, NoLink, NewLink, Closed

\* Messages and entries.
LEMMA EventTypes ==
    /\ NoEvent \in Event /\ Closed \in Clients /\ NoLink \in Links /\ Off \in Sessions
    /\ \A i \in Nat : FrameEvent(i) \in Event
    /\ \A t \in Tickers \cup {ALL} : GapEvent(t) \in Event /\ GapRow(t) \in Entry
    /\ \A m \in Message : Frame(m) \in Entry
<1>1. NoEvent \in Event /\ Off \in Sessions /\ NoLink \in Links
  BY DEF NoEvent, Event, Off, Sessions, NoLink, Links
<1>2. Closed \in Clients
  BY <1>1 DEF Closed, Clients
<1>3. 0 \in -MaxSize..MaxSize /\ 0 \in 0..MaxSize
  BY TapeAssumption
<1> QED BY <1>1, <1>2, <1>3 DEF FrameEvent, GapEvent, GapRow, Frame, Event, Entry, Message

\* A message more on the wire.
LEMMA SentTypes ==
    ASSUME TypeInv, NEW kind \in {"snapshot", "delta"}, NEW t \in Tickers,
           NEW size \in -MaxSize..MaxSize, NEW now \in 0..MaxSize, NEW v \in Nat,
           NEW skipped \in BOOLEAN
    PROVE  /\ Sent(kind, t, size, now, v, skipped) \in Links
           /\ Sent(kind, t, size, now, v, skipped).due \subseteq
                 Sent(kind, t, size, now, v, skipped).subs
<1>. DEFINE m == [kind |-> kind, ticker |-> t, seq |-> link.seq + 1,
                  size |-> size, book |-> now, ver |-> v]
            wire == IF skipped THEN link.wire ELSE Append(link.wire, m)
            due  == IF kind = "snapshot" THEN link.due \ {t} ELSE link.due
<1>1. link \in Links /\ link.seq + 1 \in Nat
  BY DEF TypeInv, Links
<1>2. m \in Message
  BY <1>1 DEF Message
<1>3. wire \in Seq(Message)
  <2>1. link.wire \in Seq(Message)
    BY <1>1 DEF Links
  <2>. HIDE DEF m
  <2> QED BY <1>2, <2>1, AppendProperties
<1>4. due \in SUBSET Tickers /\ due \subseteq link.subs
  BY <1>1 DEF TypeInv, Links
<1>5. Sent(kind, t, size, now, v, skipped)
        = [link EXCEPT !.seq = link.seq + 1, !.due = due, !.wire = wire]
  BY DEF Sent
<1>. HIDE DEF wire, due
<1> QED BY <1>1, <1>3, <1>4, <1>5 DEF Links

\* The venue keeps the types.
LEMMA VenueTypeStep == ASSUME TypeInv, Venue PROVE TypeInv'
<1>1. ASSUME NEW t \in Tickers, List(t) PROVE TypeInv'
  <2>1. market' \in [Tickers -> {"unlisted", "open", "closed"}] /\ faults' \in 0..MaxFaults
    BY <1>1, RecorderAssumption DEF List, TypeInv, VenueTypes
  <2> QED BY <1>1, <2>1 DEF List, TypeInv, VenueTypes
<1>2. ASSUME NEW t \in Tickers, SendSnapshot(t) PROVE TypeInv'
  <2>1. book[t] \in 0..MaxSize /\ book[t] \in -MaxSize..MaxSize /\ ver[t] \in Nat
    BY TapeAssumption, RecorderAssumption DEF TypeInv, VenueTypes
  <2>2. link' \in Links /\ link'.due \subseteq link'.subs
    BY <1>2, <2>1, SentTypes DEF SendSnapshot
  <2> QED BY <1>2, <2>2 DEF SendSnapshot, TypeInv, VenueTypes, venueVars
<1>3. ASSUME NEW t \in Tickers, NEW now \in 0..MaxSize, NEW skipped \in BOOLEAN,
             Change(t, now, skipped)
      PROVE  TypeInv'
  <2>1. book' \in [Tickers -> 0..MaxSize] /\ market' = market
    BY <1>3 DEF Change, TypeInv, VenueTypes
  <2>2. ver' \in [Tickers -> 0..MaxChanges]
    <3>1. ver[t] + 1 \in 0..MaxChanges
      BY <1>3, ChangesOfOne, RecorderAssumption DEF Change, TypeInv, VenueTypes
    <3> QED BY <1>3, <3>1 DEF Change, TypeInv, VenueTypes
  <2>3. faults' \in 0..MaxFaults
    <3>1. skipped => faults < MaxFaults
      BY <1>3 DEF Change
    <3> QED BY <1>3, <3>1, RecorderAssumption DEF Change, TypeInv, VenueTypes
  <2>4. link' \in Links /\ link'.due \subseteq link'.subs
    <3>1. now - book[t] \in -MaxSize..MaxSize /\ ver[t] + 1 \in Nat
      BY TapeAssumption, RecorderAssumption DEF TypeInv, VenueTypes
    <3>2. \/ link' = Sent("delta", t, now - book[t], now, ver[t] + 1, skipped)
          \/ link' = link
      BY <1>3 DEF Change
    <3> QED BY <3>1, <3>2, SentTypes DEF TypeInv
  <2> QED BY <1>3, <2>1, <2>2, <2>3, <2>4 DEF Change, TypeInv, VenueTypes
<1>4. CASE LoseLink
  <2>1. faults' \in 0..MaxFaults
    BY <1>4, RecorderAssumption DEF LoseLink, TypeInv, VenueTypes
  <2>2. link' \in Links /\ link'.due \subseteq link'.subs
    <3>1. PICK n \in 0..Len(link.wire) :
             link' = [NoLink EXCEPT !.seq = link.seq, !.wire = SubSeq(link.wire, 1, n)]
      BY <1>4 DEF LoseLink
    <3>2. link.wire \in Seq(Message) /\ link.seq \in Nat
      BY DEF TypeInv, Links
    <3>3. SubSeq(link.wire, 1, n) \in Seq(Message)
      <4>1. \A i \in 1..n : link.wire[i] \in Message
        BY <3>2, LenProperties, ElementOfSeq
      <4> QED BY <3>2, <4>1, LenProperties, SubSeqProperties
    <3> QED BY <3>1, <3>2, <3>3 DEF NoLink, Links
  <2> QED BY <1>4, <2>1, <2>2 DEF LoseLink, TypeInv, VenueTypes, venueVars
<1> QED BY <1>1, <1>2, <1>3, <1>4 DEF Venue

\* The client keeps the types.
LEMMA ClientTypeStep == ASSUME TypeInv, Client PROVE TypeInv'
<1>. USE DEF venueVars
<1>1. CASE Read
  <2>. DEFINE m == Head(link.wire)
              i == Len(tape) + 1
  <2>1. /\ link \in Links /\ client \in Clients /\ tape \in Seq(Entry) /\ link.wire \in Seq(Message)
        /\ Len(tape) \in Nat /\ i \in Nat \ {0}
    BY LenProperties DEF TypeInv, Links
  <2>2. m \in Message /\ Tail(link.wire) \in Seq(Message)
    BY <1>1, <2>1, HeadTailProperties DEF Read
  <2>3. m.seq \in Nat /\ m.ticker \in Tickers /\ Frame(m) \in Entry
    BY <2>2, EventTypes DEF Message
  <2>4. tape' = Append(tape, Frame(m)) /\ link' = [link EXCEPT !.wire = Tail(link.wire)]
    BY <1>1 DEF Read
  <2>. HIDE DEF m, i
  <2>5. /\ tape' \in Seq(Entry) /\ Len(tape') = Len(tape) + 1
        /\ \A k \in 1..Len(tape) : tape'[k] = tape[k]
    BY <2>1, <2>3, <2>4, AppendProperties
  <2>6. link' \in Links /\ link'.due \subseteq link'.subs
    BY <2>1, <2>2, <2>4 DEF Links, TypeInv
  <2>7. client' \in Clients /\ client'.held \in 0..Len(tape')
    <3>1. \/ client' = [client EXCEPT !.seq = m.seq, !.held = i, !.ready = GapEvent(m.ticker)]
          \/ client' = [client EXCEPT !.seq = m.seq, !.ready = FrameEvent(i)]
      BY <1>1 DEF Read, m, i
    <3>2. GapEvent(m.ticker) \in Event /\ FrameEvent(i) \in Event
      BY <2>1, <2>3, EventTypes
    <3>3. client.held \in 0..Len(tape) /\ i \in 0..Len(tape')
      BY <2>1, <2>5 DEF TypeInv, i
    <3>4. \A e \in Event : [client EXCEPT !.seq = m.seq, !.held = i, !.ready = e] \in Clients
      BY <2>1, <2>3 DEF Clients
    <3>5. \A e \in Event : [client EXCEPT !.seq = m.seq, !.ready = e] \in Clients
      BY <2>1, <2>3 DEF Clients
    <3>6. client'.held = i \/ client'.held = client.held
      BY <2>1, <3>1 DEF Clients
    <3>7. client' \in Clients
      BY <3>1, <3>2, <3>4, <3>5
    <3> QED BY <2>1, <2>5, <3>3, <3>6, <3>7
  <2>8. /\ rec.batch \subseteq DOMAIN tape' /\ DOMAIN tape = 1..Len(tape)
        /\ \A k \in rec.batch : ~tape'[k].stored
    BY <2>1, <2>5, LenProperties DEF TypeInv
  <2> QED BY <1>1, <2>5, <2>6, <2>7, <2>8 DEF Read, TypeInv, VenueTypes
<1>2. CASE YieldHeld
  <2>1. FrameEvent(client.held) \in Event /\ 0 \in 0..Len(tape)
    BY EventTypes, LenProperties DEF TypeInv, Clients
  <2>2. client' \in Clients /\ client'.held = 0
    BY <1>2, <2>1 DEF YieldHeld, TypeInv, Clients
  <2> QED BY <1>2, <2>1, <2>2 DEF YieldHeld, TypeInv, VenueTypes
<1>3. CASE Disconnect
  <2>1. client' \in Clients /\ client'.held = 0
    <3>1. NoEvent \in Event /\ client' = [Closed EXCEPT !.gap = TRUE]
      BY <1>3, EventTypes DEF Disconnect
    <3> QED BY <3>1 DEF Closed, Clients
  <2>3. 0 \in 0..Len(tape)
    BY LenProperties DEF TypeInv
  <2>2. link' \in Links /\ link'.due \subseteq link'.subs
    BY <1>3, EventTypes DEF Disconnect, NoLink
  <2> QED BY <1>3, <2>1, <2>2, <2>3 DEF Disconnect, TypeInv, VenueTypes
<1>4. CASE Reconnect
  <2>1. client' \in Clients /\ client'.held = client.held
    BY <1>4 DEF Reconnect, TypeInv, Clients
  <2>2. link' \in Links /\ link'.due \subseteq link'.subs
    BY <1>4 DEF Reconnect, NewLink, Links, TypeInv, Sessions
  <2> QED BY <1>4, <2>1, <2>2 DEF Reconnect, TypeInv, VenueTypes
<1>5. CASE YieldGap
  <2>1. client' \in Clients /\ client'.held = client.held
    BY <1>5, EventTypes DEF YieldGap, TypeInv, Clients
  <2> QED BY <1>5, <2>1 DEF YieldGap, TypeInv, VenueTypes
<1> QED BY <1>1, <1>2, <1>3, <1>4, <1>5 DEF Client

\* The session keeps the types: what it takes is on the tape.
LEMMA SessionTypeStep == ASSUME TypeInv, ReadyInv, Session PROVE TypeInv'
<1>. USE DEF venueVars
<1>1. CASE Refresh
  <2>1. Desired \in SUBSET Tickers /\ Subscribe(Desired)
    BY <1>1 DEF Refresh, Desired
  <2>2. 0 \in 0..Len(tape)
    BY LenProperties DEF TypeInv
  <2> QED BY <1>1, <2>1, <2>2, SubscribeTypes DEF Refresh, TypeInv, VenueTypes
<1>2. CASE Take
  <2>1. /\ tape \in Seq(Entry) /\ Len(tape) \in Nat /\ DOMAIN tape = 1..Len(tape)
        /\ rec \in Sessions /\ client \in Clients /\ client.ready \in Event
    BY LenProperties DEF TypeInv, Clients
  <2>2. client' \in Clients /\ client'.held = client.held
    BY <1>2, <2>1, EventTypes DEF Take, Clients
  <2>5. \A B \in SUBSET Nat, c \in {"drain", "commit"} :
           LET r == [rec EXCEPT !.pc = c, !.batch = rec.batch \cup B]
           IN  r \in Sessions /\ r.batch = rec.batch \cup B
    BY <2>1 DEF Sessions
  <2>3. CASE client.ready.kind = "frame"
    <3>1. Untaken(client.ready.at)
      BY <2>3 DEF ReadyInv
    <3>2. /\ rec' = [rec EXCEPT !.pc = "drain", !.batch = @ \cup {client.ready.at}]
          /\ tape' = tape
      BY <1>2, <2>3 DEF Take
    <3>3. /\ rec' \in Sessions /\ rec'.batch = rec.batch \cup {client.ready.at}
      <4>1. client.ready.at \in Nat
        BY <2>1 DEF Event
      <4> QED BY <2>5, <3>2, <4>1
    <3>4. rec'.batch \subseteq DOMAIN tape' /\ \A i \in rec'.batch : ~tape'[i].stored
      BY <3>1, <3>2, <3>3 DEF Untaken, TypeInv
    <3> QED BY <1>2, <2>2, <3>2, <3>3, <3>4 DEF Take, TypeInv, VenueTypes
  <2>4. CASE client.ready.kind # "frame"
    <3>1. client.ready.ticker \in Tickers \cup {ALL}
      BY <2>1 DEF Event
    <3>2. /\ rec' = [rec EXCEPT !.pc = "commit", !.batch = @ \cup {Len(tape) + 1}]
          /\ tape' = Append(tape, GapRow(client.ready.ticker))
      BY <1>2, <2>4 DEF Take
    <3>3. /\ rec' \in Sessions /\ rec'.batch = rec.batch \cup {Len(tape) + 1}
      <4>1. {Len(tape) + 1} \in SUBSET Nat
        BY <2>1
      <4>2. rec' = [rec EXCEPT !.pc = "commit", !.batch = rec.batch \cup {Len(tape) + 1}]
        BY <3>2
      <4> QED BY <2>5, <4>1, <4>2
    <3>4. GapRow(client.ready.ticker) \in Entry /\ ~GapRow(client.ready.ticker).stored
      BY <3>1, EventTypes DEF GapRow
    <3>5. /\ tape' \in Seq(Entry) /\ Len(tape') = Len(tape) + 1 /\ DOMAIN tape' = 1..(Len(tape) + 1)
          /\ \A k \in 1..Len(tape) : tape'[k] = tape[k]
          /\ tape'[Len(tape) + 1] = GapRow(client.ready.ticker)
      BY <2>1, <3>2, <3>4, AppendProperties, LenProperties
    <3>6. rec'.batch \subseteq DOMAIN tape' /\ \A i \in rec'.batch : ~tape'[i].stored
      BY <2>1, <3>3, <3>4, <3>5 DEF TypeInv
    <3>7. client.held \in 0..Len(tape')
      BY <2>1, <3>5 DEF TypeInv
    <3> QED BY <1>2, <2>2, <3>3, <3>5, <3>6, <3>7 DEF Take, TypeInv, VenueTypes
  <2> QED BY <2>3, <2>4
<1>3. CASE EndBatch
  <2>1. rec' \in Sessions /\ rec'.batch = rec.batch
    BY <1>3 DEF EndBatch, TypeInv, Sessions
  <2> QED BY <1>3, <2>1 DEF EndBatch, TypeInv, VenueTypes
<1>4. CASE Commit
  <2>1. /\ tape \in Seq(Entry) /\ Len(tape) \in Nat /\ DOMAIN tape = 1..Len(tape)
    BY LenProperties DEF TypeInv
  <2>2. tape' = [i \in 1..Len(tape) |->
                   IF i \in rec.batch THEN [tape[i] EXCEPT !.stored = TRUE] ELSE tape[i]]
    BY <1>4, <2>1 DEF Commit
  <2>3. \A i \in 1..Len(tape) : tape'[i] \in Entry
    <3>1. \A e \in Entry : [e EXCEPT !.stored = TRUE] \in Entry
      BY DEF Entry
    <3> QED BY <2>1, <2>2, <3>1
  <2>4. tape' \in Seq(Entry) /\ Len(tape') = Len(tape)
    BY <2>1, <2>2, <2>3, SeqDef, LenProperties
  <2>5. rec' \in Sessions /\ rec'.batch = {}
    BY <1>4 DEF Commit, TypeInv, Sessions
  <2> QED BY <1>4, <2>4, <2>5 DEF Commit, TypeInv, VenueTypes
<1>5. CASE Resubscribe
  <2>1. rec.subscribed \in SUBSET Tickers /\ Subscribe(rec.subscribed)
    BY <1>5 DEF Resubscribe, TypeInv, Sessions
  <2>2. 0 \in 0..Len(tape)
    BY LenProperties DEF TypeInv
  <2> QED BY <1>5, <2>1, <2>2, SubscribeTypes DEF Resubscribe, TypeInv, VenueTypes
<1>6. CASE Start
  <2>1. rec' \in Sessions /\ rec'.batch = rec.batch
    BY <1>6 DEF Start, TypeInv, Sessions
  <2> QED BY <1>6, <2>1 DEF Start, TypeInv, VenueTypes
<1> QED BY <1>1, <1>2, <1>3, <1>4, <1>5, <1>6 DEF Session

\* A session that dies keeps the types.
LEMMA StopTypeStep == ASSUME TypeInv, Stop PROVE TypeInv'
<1>1. faults' \in 0..MaxFaults /\ 0 \in 0..Len(tape)
  BY RecorderAssumption, LenProperties DEF Stop, TypeInv, VenueTypes
<1>2. /\ rec' \in Sessions /\ rec'.batch = {} /\ client' \in Clients /\ client'.held = 0
      /\ link' \in Links /\ link'.due \subseteq link'.subs
  BY EventTypes DEF Stop, Off, Closed, NoLink
<1> QED BY <1>1, <1>2 DEF Stop, TypeInv, VenueTypes, venueVars

\* Every step keeps the types.
LEMMA TypeStep == ASSUME TypeInv, ReadyInv, [Next]_vars PROVE TypeInv'
<1>1. CASE UNCHANGED vars
  BY <1>1 DEF vars, venueVars, TypeInv, VenueTypes
<1> QED BY <1>1, VenueTypeStep, ClientTypeStep, SessionTypeStep, StopTypeStep DEF Next

\* The initial types.
LEMMA TypeInit == Init => TypeInv
<1>. SUFFICES ASSUME Init PROVE TypeInv
  OBVIOUS
<1>1. VenueTypes
  <2>1. ver \in [Tickers -> 0..MaxChanges] /\ faults \in 0..MaxFaults
    BY RecorderAssumption DEF Init
  <2> QED BY <2>1 DEF Init, VenueTypes
<1>2. link \in Links /\ link.due \subseteq link.subs /\ client \in Clients /\ client.held = 0
  BY EventTypes DEF Init, NoLink, Closed
<1>3. rec \in Sessions /\ rec.batch = {} /\ tape = <<>> /\ tape \in Seq(Entry) /\ Len(tape) = 0
  BY EventTypes, EmptySeq DEF Init, Off
<1>4. client.held \in 0..Len(tape)
  BY <1>2, <1>3
<1> QED BY <1>1, <1>2, <1>3, <1>4 DEF TypeInv

\* TypeInv is at least TypeOK.
LEMMA TypesAreRight == TypeInv => TypeOK
<1>. SUFFICES ASSUME TypeInv PROVE TypeOK
  OBVIOUS
<1>1. \A S : \A s \in Seq(S) : Range(s) \subseteq S
  <2>. SUFFICES ASSUME NEW S, NEW s \in Seq(S), NEW x \in Range(s) PROVE x \in S
    OBVIOUS
  <2>1. PICK i \in DOMAIN s : x = s[i]
    BY DEF Range
  <2> QED BY <2>1, LenProperties, ElementOfSeq
<1>2. link.wire \in Seq(Message) /\ tape \in Seq(Entry)
  BY DEF TypeInv, Links
<1>3. Range(link.wire) \subseteq Message /\ Range(tape) \subseteq Entry
  BY <1>1, <1>2
<1>4. /\ link.up \in BOOLEAN /\ link.due \subseteq link.subs /\ link.subs \subseteq Tickers
      /\ link.seq \in Nat
      /\ client.open \in BOOLEAN /\ client.gap \in BOOLEAN
      /\ client.seq \in Nat /\ client.held \in 0..Len(tape)
      /\ client.ready \in Event
  BY DEF TypeInv, Links, Clients
<1>5. /\ rec.pc \in {"off", "wait", "drain", "commit", "resubscribe"}
      /\ rec.subscribed \subseteq Tickers /\ rec.batch \subseteq DOMAIN tape
      /\ \A i \in rec.batch : ~tape[i].stored
  BY DEF TypeInv, Sessions
<1> QED BY <1>3, <1>4, <1>5 DEF TypeInv, VenueTypes, TypeOK

-----------------------------------------------------------------------------
(***************************************************************************)
(* The invariant, step by step                                             *)
(***************************************************************************)

FlightInv == TapeInv(tape) /\ BatchInv /\ ReadyInv /\ ClientInv /\ LinkInv /\ FlowInv

RecInv == TypeInv /\ FlightInv

\* What the readers look at, but for whether it is stored.
SameEntry(e, f) ==
    /\ f.kind = e.kind /\ f.ticker = e.ticker /\ f.seq = e.seq
    /\ f.size = e.size /\ f.book = e.book /\ f.ver = e.ver

\* A frame stays whole when the tape grows, or more of it is stored.
LEMMA WholeStays ==
    ASSUME NEW T, NEW U, NEW n \in Nat, Whole(T, n),
           \A k \in 1..n : SameEntry(T[k], U[k])
    PROVE  Whole(U, n) /\ Block(U, n) = Block(T, n) /\ Block(T, n) \subseteq 1..n
<1>1. T[n].seq \in 1..n /\ n \in 1..n
  BY DEF Whole
<1>2. Block(T, n) \subseteq 1..n /\ Block(U, n) = Block(T, n)
  BY <1>1 DEF Block, SameEntry
<1>3. \A k \in Block(U, n) : U[k].kind # "gap" /\ U[k].seq = U[n].seq - (n - k)
  BY <1>1, <1>2 DEF Whole, SameEntry
<1>4. U[n].kind = "snapshot" =>
          /\ U[n].size = U[n].book
          /\ \A k \in Block(U, n) \ {n} : U[k].kind = "snapshot" /\ U[k].ticker # U[n].ticker
  BY <1>1, <1>2 DEF Whole, SameEntry
<1>5. ASSUME U[n].kind = "delta"
      PROVE  \E p \in Block(U, n) \ {n} :
                /\ U[p].ticker = U[n].ticker
                /\ \A k \in (p + 1)..(n - 1) : U[k].ticker # U[n].ticker
                /\ U[n].book = U[p].book + U[n].size
                /\ U[n].ver = U[p].ver + 1
  <2>1. PICK p \in Block(T, n) \ {n} :
                /\ T[p].ticker = T[n].ticker
                /\ \A k \in (p + 1)..(n - 1) : T[k].ticker # T[n].ticker
                /\ T[n].book = T[p].book + T[n].size
                /\ T[n].ver = T[p].ver + 1
    BY <1>1, <1>5 DEF Whole, SameEntry
  <2>2. p \in 1..n /\ (p + 1)..(n - 1) \subseteq 1..n
    BY <1>2
  <2> QED BY <1>1, <1>2, <2>1, <2>2 DEF SameEntry
<1>6. U[n].seq \in 1..n /\ U[n].ticker \in Tickers
  BY <1>1 DEF SameEntry, Whole
<1> QED BY <1>2, <1>3, <1>4, <1>5, <1>6 DEF Whole

\* A step that leaves the tape and the session alone.
LEMMA SessionIdles ==
    ASSUME TapeInv(tape), BatchInv, UNCHANGED <<tape, rec>>
    PROVE  TapeInv(tape)' /\ BatchInv' /\ Skipping' = Skipping
BY DEF TapeInv, BatchInv, Skipping, EndsInSkip, IsFrame

\* A link that carries messages has a client.
LEMMA LinkHasClient == ClientInv /\ link.up => client.open
BY DEF ClientInv, NoLink

\* A step of the venue leaves all but what is on its way alone.
LEMMA VenueIdles ==
    ASSUME RecInv, link.up \/ UNCHANGED link, UNCHANGED <<client, rec, tape>>
    PROVE  TapeInv(tape)' /\ BatchInv' /\ ReadyInv' /\ ClientInv' /\ Skipping' = Skipping
<1>1. TapeInv(tape)' /\ BatchInv' /\ Skipping' = Skipping
  BY SessionIdles DEF RecInv, FlightInv
<1>2. ReadyInv'
  BY <1>1 DEF RecInv, FlightInv, ReadyInv, Untaken, IsFrame
<1>3. link.up => client.open
  BY LinkHasClient DEF RecInv, FlightInv
<1> QED BY <1>1, <1>2, <1>3 DEF RecInv, FlightInv, ClientInv, SkipReady, LossReady

\* What the next message changes of a link without messages.
SendsOn(kind, t, size, now, v, skipped) ==
    /\ link'.up = link.up /\ link'.subs = link.subs /\ link'.seq = link.seq + 1
    /\ link'.due = IF kind = "snapshot" THEN link.due \ {t} ELSE link.due
    /\ skipped => link'.wire = <<>>
    /\ ~skipped =>
          /\ link'.wire # <<>> /\ Len(link'.wire) = 1
          /\ Head(link'.wire) = [kind |-> kind, ticker |-> t, seq |-> link.seq + 1,
                                 size |-> size, book |-> now, ver |-> v]

LEMMA SentFields ==
    ASSUME TypeInv, link.wire = <<>>,
           NEW kind, NEW t, NEW size, NEW now, NEW v, NEW skipped \in BOOLEAN,
           link' = Sent(kind, t, size, now, v, skipped)
    PROVE  SendsOn(kind, t, size, now, v, skipped)
<1>. DEFINE m == [kind |-> kind, ticker |-> t, seq |-> link.seq + 1,
                  size |-> size, book |-> now, ver |-> v]
            wire == IF skipped THEN link.wire ELSE Append(link.wire, m)
            due  == IF kind = "snapshot" THEN link.due \ {t} ELSE link.due
<1>1. link = [up |-> link.up, subs |-> link.subs, due |-> link.due, seq |-> link.seq,
              wire |-> link.wire]
  BY DEF TypeInv, Links
<1>2. link' = [link EXCEPT !.seq = link.seq + 1, !.due = due, !.wire = wire]
  BY DEF Sent
<1>3. /\ link'.up = link.up /\ link'.subs = link.subs /\ link'.seq = link.seq + 1
      /\ link'.due = due /\ link'.wire = wire
  <2>. HIDE DEF due, wire
  <2> QED BY <1>1, <1>2
<1>4. ~skipped => wire # <<>> /\ Len(wire) = 1 /\ Head(wire) = m
  <2>. HIDE DEF m
  <2>1. <<>> \in Seq({m}) /\ Len(<<>>) = 0
    BY EmptySeq
  <2>2. Append(<<>>, m) # <<>> /\ Len(Append(<<>>, m)) = 1 /\ Head(Append(<<>>, m)) = m
    BY <2>1, HeadTailAppend, AppendProperties
  <2> QED BY <2>2
<1> QED BY <1>3, <1>4 DEF SendsOn

\* A snapshot is sent.
LEMMA SnapshotFlies ==
    ASSUME RecInv, NEW t \in Tickers, SendSnapshot(t)
    PROVE  FlightInv'
<1>. DEFINE m == Head(link'.wire)
<1>1. /\ link.up /\ t \in link.due /\ link.wire = <<>> /\ link.due \subseteq link.subs
      /\ client' = client /\ rec' = rec /\ tape' = tape /\ book' = book /\ ver' = ver
  BY DEF SendSnapshot, venueVars, RecInv, TypeInv
<1>2. /\ link'.up = link.up /\ link'.subs = link.subs /\ link'.seq = link.seq + 1
      /\ link'.due = link.due \ {t} /\ link'.wire # <<>> /\ Len(link'.wire) = 1
      /\ m.kind = "snapshot" /\ m.ticker = t /\ m.seq = link.seq + 1
      /\ m.size = book[t] /\ m.book = book[t] /\ m.ver = ver[t]
  <2>1. link' = Sent("snapshot", t, book[t], book[t], ver[t], FALSE)
    BY DEF SendSnapshot
  <2>2. TypeInv /\ link.wire = <<>> /\ FALSE \in BOOLEAN
    BY <1>1 DEF RecInv
  <2>3. /\ link'.up = link.up /\ link'.subs = link.subs /\ link'.seq = link.seq + 1
        /\ link'.due = IF "snapshot" = "snapshot" THEN link.due \ {t} ELSE link.due
        /\ FALSE => link'.wire = <<>>
        /\ ~FALSE =>
              /\ link'.wire # <<>> /\ Len(link'.wire) = 1
              /\ m = [kind |-> "snapshot", ticker |-> t, seq |-> link.seq + 1,
                      size |-> book[t], book |-> book[t], ver |-> ver[t]]
    <3>1. SendsOn("snapshot", t, book[t], book[t], ver[t], FALSE)
      BY <2>1, <2>2, SentFields, Zenon
    <3> QED BY <3>1 DEF SendsOn
  <2> HIDE DEF m
  <2> QED BY <2>3
<1>3. /\ TapeInv(tape)' /\ BatchInv' /\ ReadyInv' /\ ClientInv' /\ Skipping' = Skipping
      /\ client.open
  BY <1>1, VenueIdles, LinkHasClient DEF RecInv, FlightInv
<1>4. link.seq \in Nat /\ client.seq \in Nat
  BY DEF RecInv, TypeInv, Links, Clients
<1>5. client.seq <= link.seq /\ (client.seq = 0 => link.seq = 0)
  BY <1>1 DEF RecInv, FlightInv, LinkInv, Waiting
<1>. HIDE DEF m
<1>6. LinkInv'
  <2>1. Waiting' /\ Head(link.wire)' = m
    BY <1>2 DEF Waiting, m
  <2> QED BY <1>1, <1>2, <1>3, <1>4, <1>5, <2>1 DEF LinkInv
<1>7. FlowInv'
  <2>. SUFFICES ASSUME client.open, client.held = 0, ~Skipping PROVE FlowInv'
    BY <1>1, <1>3 DEF FlowInv
  <2>1. /\ client.seq <= Len(tape)
        /\ \A k \in Reached : /\ IsFrame(tape, k) /\ InHand(k)
                              /\ tape[k].seq = client.seq - (Len(tape) - k)
        /\ \A k \in Reached : tape[k].kind = "snapshot" /\ tape[k].ticker \notin link.due
        /\ InStep => \A u \in link.subs \ link.due : \E p \in Reached : LastIs(u, p, book[u], ver[u])
    BY <1>1 DEF RecInv, FlightInv, FlowInv, Waiting
  <2>2. InStep' <=> InStep
    BY <1>1, <1>2, <1>4 DEF InStep, Waiting, m
  <2>3. Reached' = Reached /\ \A k \in Reached : InHand(k)' = InHand(k)
    BY <1>1 DEF Reached, InHand
  <2>4. \A u, p, b, v : LastIs(u, p, b, v)' = LastIs(u, p, b, v)
    BY <1>1 DEF LastIs
  <2>5. Head(link.wire)' = m
    BY DEF m
  <2>6. ASSUME InStep, NEW u \in link'.subs \ link'.due
        PROVE  IF m.ticker = u THEN m.book = book[u] /\ m.ver = ver[u]
               ELSE \E p \in Reached : LastIs(u, p, book[u], ver[u])
    BY <1>2, <2>1, <2>6
  <2>7. \A k \in Reached : tape[k].kind = "snapshot" /\ tape[k].ticker # t
    BY <1>1, <2>1
  <2> QED BY <1>1, <1>2, <2>1, <2>2, <2>3, <2>4, <2>5, <2>6, <2>7 DEF FlowInv, IsFrame, Waiting
<1> QED BY <1>3, <1>6, <1>7 DEF FlightInv

\* A book changes, and the delta is sent, skipped, or on no link.
LEMMA ChangeFlies ==
    ASSUME RecInv, NEW t \in Tickers, NEW now \in 0..MaxSize, NEW skipped \in BOOLEAN,
           Change(t, now, skipped)
    PROVE  FlightInv'
<1>. DEFINE m == Head(link'.wire)
            carried == link.up /\ t \in link.subs \ link.due
<1>1. /\ client' = client /\ rec' = rec /\ tape' = tape
      /\ book' = [book EXCEPT ![t] = now] /\ ver' = [ver EXCEPT ![t] = @ + 1]
      /\ ~carried => link' = link
      /\ carried => /\ link.up /\ link.due = {} /\ link.wire = <<>>
                    /\ link' = Sent("delta", t, now - book[t], now, ver[t] + 1, skipped)
  BY DEF Change
<1>2. /\ book \in [Tickers -> Int] /\ ver \in [Tickers -> Int] /\ now \in Int
      /\ link.seq \in Nat /\ client.seq \in Nat
  BY TapeAssumption, RecorderAssumption DEF RecInv, TypeInv, VenueTypes, Links, Clients
<1>3. /\ book'[t] = now /\ ver'[t] = ver[t] + 1 /\ book[t] \in Int /\ ver[t] \in Int
      /\ \A u \in Tickers \ {t} : book'[u] = book[u] /\ ver'[u] = ver[u]
  BY <1>1, <1>2
<1>4. TapeInv(tape)' /\ BatchInv' /\ ReadyInv' /\ ClientInv' /\ Skipping' = Skipping
  BY <1>1, VenueIdles
<1>5. link.subs \subseteq Tickers
  BY DEF RecInv, TypeInv, Links
<1>6. \A u, p, b, v : LastIs(u, p, b, v)' = LastIs(u, p, b, v)
  BY <1>1 DEF LastIs
<1>7. Reached' = Reached
  BY <1>1 DEF Reached
<1>8. CASE ~carried
  <2>1. link' = link
    BY <1>1, <1>8
  <2>2. LinkInv'
    BY <1>1, <2>1 DEF RecInv, FlightInv, LinkInv, Waiting
  <2>3. FlowInv'
    <3>. SUFFICES ASSUME client.open, client.held = 0, ~Skipping PROVE FlowInv'
      BY <1>1, <1>4 DEF FlowInv
    <3>1. \A u \in link.subs \ link.due : link.up => u # t /\ book'[u] = book[u] /\ ver'[u] = ver[u]
      BY <1>3, <1>5, <1>8
    <3>2. (InStep' <=> InStep) /\ \A k : InHand(k)' = InHand(k)
      BY <1>1, <2>1 DEF InStep, Waiting, InHand
    <3> QED BY <1>1, <1>6, <1>7, <2>1, <3>1, <3>2 DEF RecInv, FlightInv, FlowInv, IsFrame, Waiting
  <2> QED BY <1>4, <2>2, <2>3 DEF FlightInv
<1>9. CASE carried
  <2>1. /\ link'.up = link.up /\ link'.subs = link.subs /\ link'.seq = link.seq + 1
        /\ link'.due = link.due
        /\ skipped => link'.wire = <<>>
        /\ ~skipped => /\ link'.wire # <<>> /\ Len(link'.wire) = 1
                       /\ m.kind = "delta" /\ m.ticker = t /\ m.seq = link.seq + 1
                       /\ m.size = now - book[t] /\ m.book = now /\ m.ver = ver[t] + 1
    <3>1. /\ link.wire = <<>> /\ link' = Sent("delta", t, now - book[t], now, ver[t] + 1, skipped)
          /\ TypeInv /\ skipped \in BOOLEAN
      BY <1>1, <1>9 DEF RecInv
    <3>2. CASE skipped = TRUE
      <4>1. link' = Sent("delta", t, now - book[t], now, ver[t] + 1, TRUE) /\ TRUE \in BOOLEAN
        BY <3>1, <3>2
      <4>2. /\ link'.up = link.up /\ link'.subs = link.subs /\ link'.seq = link.seq + 1
            /\ link'.due = IF "delta" = "snapshot" THEN link.due \ {t} ELSE link.due
            /\ TRUE => link'.wire = <<>>
        <5>1. SendsOn("delta", t, now - book[t], now, ver[t] + 1, TRUE)
          BY <3>1, <4>1, SentFields, Zenon
        <5> QED BY <5>1 DEF SendsOn
      <4> QED BY <3>2, <4>2
    <3>3. CASE skipped = FALSE
      <4>. DEFINE z == now - book[t]
                  w == ver[t] + 1
      <4>1. link' = Sent("delta", t, z, now, w, FALSE) /\ FALSE \in BOOLEAN
        BY <3>1, <3>3
      <4>. HIDE DEF z, w
      <4>2. /\ link'.up = link.up /\ link'.subs = link.subs /\ link'.seq = link.seq + 1
            /\ link'.due = IF "delta" = "snapshot" THEN link.due \ {t} ELSE link.due
            /\ FALSE => link'.wire = <<>>
            /\ ~FALSE =>
                  /\ link'.wire # <<>> /\ Len(link'.wire) = 1
                  /\ Head(link'.wire) = [kind |-> "delta", ticker |-> t, seq |-> link.seq + 1,
                                         size |-> z, book |-> now, ver |-> w]
        <5>1. SendsOn("delta", t, z, now, w, FALSE)
          BY <3>1, <4>1, SentFields, Zenon
        <5> QED BY <5>1 DEF SendsOn
      <4>3. m = [kind |-> "delta", ticker |-> t, seq |-> link.seq + 1,
                 size |-> z, book |-> now, ver |-> w]
        BY <4>2
      <4>. HIDE DEF m
      <4> QED BY <3>3, <4>2, <4>3 DEF z, w
    <3> QED BY <3>1, <3>2, <3>3
  <2>2. /\ client.open /\ link.up /\ link.due = {} /\ link.wire = <<>> /\ t \in link.subs
    BY <1>1, <1>9, LinkHasClient DEF RecInv, FlightInv
  <2>3. client.seq <= link.seq /\ client.seq # 0
    BY <2>2 DEF RecInv, FlightInv, LinkInv, Waiting
  <2>. HIDE DEF m
  <2>4. /\ Waiting' <=> ~skipped
        /\ Head(link.wire)' = m
    BY <2>1 DEF Waiting, m
  <2>5. LinkInv'
    <3>1. Len(link'.wire) <= 1
      <4>1. <<>> \in Seq({}) /\ Len(<<>>) = 0
        BY EmptySeq
      <4>2. Len(link'.wire) = 0 \/ Len(link'.wire) = 1
        BY <2>1, <4>1, Zenon
      <4>3. \A l : l = 0 \/ l = 1 => l <= 1
        OBVIOUS
      <4> QED BY <4>2, <4>3, Zenon
    <3>2. /\ client' = client /\ link'.up = link.up /\ link'.subs = link.subs
          /\ link'.due = {} /\ t \in link'.subs /\ client.open
          /\ ~skipped => m.kind = "delta" /\ m.ticker = t /\ m.seq = link'.seq
      BY <1>1, <2>1, <2>2
    <3>3. client.seq # 0 /\ link'.seq # 0 /\ client.seq < link'.seq /\ client.seq <= link'.seq
      BY <1>2, <2>1, <2>3
    <3>4. skipped \in BOOLEAN
      OBVIOUS
    <3>5. CASE skipped = TRUE
      <4>1. ~Waiting'
        BY <2>4, <3>5
      <4> QED BY <3>1, <3>2, <3>3, <4>1 DEF LinkInv
    <3>6. CASE skipped = FALSE
      <4>1. Waiting' /\ m.kind = "delta" /\ m.ticker = t /\ m.seq = link'.seq /\ Head(link.wire)' = m
        BY <2>4, <3>2, <3>6
      <4> QED BY <3>1, <3>2, <3>3, <4>1 DEF LinkInv
    <3> QED BY <3>4, <3>5, <3>6
  <2>6. FlowInv'
    <3>. SUFFICES ASSUME client.open, client.held = 0, ~Skipping PROVE FlowInv'
      BY <1>1, <1>4 DEF FlowInv
    <3>1. /\ client.seq <= Len(tape)
          /\ \A k \in Reached : /\ IsFrame(tape, k) /\ InHand(k)
                                /\ tape[k].seq = client.seq - (Len(tape) - k)
          /\ InStep => \A u \in link.subs \ link.due : \E p \in Reached : LastIs(u, p, book[u], ver[u])
      BY <2>2 DEF RecInv, FlightInv, FlowInv, Waiting
    <3>2. \A k \in Reached : InHand(k)' = InHand(k)
      BY <1>1 DEF InHand
    <3>3. InStep' => ~skipped /\ InStep
      BY <1>1, <1>2, <2>1, <2>2, <2>3, <2>4 DEF InStep, Waiting
    <3>4. ASSUME InStep' PROVE \E p \in Reached : LastIs(t, p, m.book - m.size, m.ver - 1)
      <4>1. m.book - m.size = book[t] /\ m.ver - 1 = ver[t]
        <5>1. m.size = now - book[t] /\ m.book = now /\ m.ver = ver[t] + 1
          BY <2>1, <3>3, <3>4
        <5> QED BY <1>2, <1>3, <5>1
      <4> QED BY <2>2, <3>1, <3>3, <3>4, <4>1
    <3>5. ASSUME InStep', NEW u \in link'.subs \ link'.due
          PROVE  IF m.ticker = u THEN m.book = book'[u] /\ m.ver = ver'[u]
                 ELSE \E p \in Reached : LastIs(u, p, book'[u], ver'[u])
      BY <1>3, <1>5, <2>1, <3>1, <3>3, <3>5
    <3> QED BY <1>1, <1>6, <1>7, <2>1, <2>2, <2>4, <3>1, <3>2, <3>3, <3>4, <3>5
            DEF FlowInv, IsFrame
  <2> QED BY <1>4, <2>5, <2>6 DEF FlightInv
<1> QED BY <1>8, <1>9

\* The link goes, and the message on it may go too.
LEMMA LossFlies ==
    ASSUME RecInv, LoseLink
    PROVE  FlightInv'
<1>1. /\ link.up /\ client' = client /\ rec' = rec /\ tape' = tape /\ book' = book /\ ver' = ver
  BY DEF LoseLink, venueVars
<1>2. PICK n \in 0..Len(link.wire) :
         link' = [NoLink EXCEPT !.seq = link.seq, !.wire = SubSeq(link.wire, 1, n)]
  BY DEF LoseLink
<1>3. link.wire \in Seq(Message) /\ Len(link.wire) \in Nat /\ Len(link.wire) <= 1
  BY LenProperties DEF RecInv, FlightInv, TypeInv, Links, LinkInv
<1>4. /\ ~link'.up /\ link'.due = {} /\ link'.subs = {} /\ link'.seq = link.seq
      /\ link'.wire = SubSeq(link.wire, 1, n)
  BY <1>2 DEF NoLink
<1>5. /\ SubSeq(link.wire, 1, n) \in Seq(Message) /\ Len(SubSeq(link.wire, 1, n)) = n
      /\ n > 0 => SubSeq(link.wire, 1, n)[1] = link.wire[1]
  <2>1. \A i \in 1..n : link.wire[i] \in Message
    BY <1>3, ElementOfSeq
  <2>2. /\ SubSeq(link.wire, 1, n) \in Seq(Message)
        /\ Len(SubSeq(link.wire, 1, n)) = IF 1 <= n THEN n - 1 + 1 ELSE 0
        /\ \A i \in 1..(n - 1 + 1) : SubSeq(link.wire, 1, n)[i] = link.wire[1 + i - 1]
    BY <1>3, <2>1, SubSeqProperties
  <2>3. n \in Nat
    BY <1>3
  <2> QED BY <2>2, <2>3
<1>6. Waiting' => Waiting /\ Head(link.wire)' = Head(link.wire)
  <2>. SUFFICES ASSUME link'.wire # <<>> PROVE Waiting /\ Head(link'.wire) = Head(link.wire)
    BY DEF Waiting
  <2>1. n > 0
    BY <1>3, <1>4, <1>5, EmptySeq
  <2>2. Len(link.wire) # 0 /\ link.wire # <<>>
    BY <1>3, <2>1, EmptySeq
  <2> QED BY <1>4, <1>5, <2>1, <2>2 DEF Waiting
<1>7. TapeInv(tape)' /\ BatchInv' /\ ReadyInv' /\ ClientInv' /\ Skipping' = Skipping
  BY <1>1, VenueIdles
<1>8. Len(link'.wire) <= 1
  BY <1>3, <1>4, <1>5
<1>9. LinkInv'
  BY <1>1, <1>4, <1>6, <1>8 DEF RecInv, FlightInv, LinkInv
<1>10. FlowInv'
  <2>. SUFFICES ASSUME client.open, client.held = 0, ~Skipping PROVE FlowInv'
    BY <1>1, <1>7 DEF FlowInv
  <2>1. Waiting' /\ InStep' => Waiting /\ InStep
    BY <1>1, <1>6 DEF InStep
  <2>2. Reached' = Reached /\ \A k \in Reached : InHand(k)' = InHand(k)
    BY <1>1 DEF Reached, InHand
  <2>3. \A u, p, b, v : LastIs(u, p, b, v)' = LastIs(u, p, b, v)
    BY <1>1 DEF LastIs
  <2> QED BY <1>1, <1>4, <1>6, <2>1, <2>2, <2>3 DEF RecInv, FlightInv, FlowInv, IsFrame
<1> QED BY <1>7, <1>9, <1>10 DEF FlightInv

\* The venue lists markets, changes and sends books, and drops the link.
LEMMA VenueStep == ASSUME RecInv, Venue PROVE FlightInv'
<1>1. ASSUME NEW t \in Tickers, List(t) PROVE FlightInv'
  BY <1>1 DEF List, RecInv, FlightInv, TapeInv, BatchInv, ReadyInv, Untaken, ClientInv, LinkInv, FlowInv,
              Skipping, EndsInSkip, SkipReady, LossReady, Waiting, InStep, Reached, InHand, LastIs, IsFrame
<1> QED BY <1>1, SnapshotFlies, ChangeFlies, LossFlies DEF Venue

\* An entry more on the tape, which is not stored yet.
LEMMA TapeGrows ==
    ASSUME TypeInv, TapeInv(tape), NEW e \in Entry, ~e.stored, tape' = Append(tape, e)
    PROVE  /\ tape' \in Seq(Entry) /\ Len(tape) \in Nat /\ Len(tape') = Len(tape) + 1
           /\ DOMAIN tape = 1..Len(tape) /\ DOMAIN tape' = 1..(Len(tape) + 1)
           /\ \A k \in 1..Len(tape) : tape'[k] = tape[k] /\ SameEntry(tape[k], tape'[k])
           /\ tape'[Len(tape) + 1] = e
           /\ \A n \in 1..Len(tape) : Whole(tape, n) =>
                 Whole(tape', n) /\ Block(tape', n) = Block(tape, n) /\ Block(tape, n) \subseteq 1..n
           /\ TapeInv(tape')
<1>1. /\ tape' \in Seq(Entry) /\ Len(tape) \in Nat /\ Len(tape') = Len(tape) + 1
      /\ DOMAIN tape = 1..Len(tape) /\ DOMAIN tape' = 1..(Len(tape) + 1)
      /\ \A k \in 1..Len(tape) : tape'[k] = tape[k]
      /\ tape'[Len(tape) + 1] = e
  BY AppendProperties, LenProperties DEF TypeInv
<1>2. \A k \in 1..Len(tape) : SameEntry(tape[k], tape'[k])
  BY <1>1 DEF SameEntry
<1>3. ASSUME NEW n \in 1..Len(tape), Whole(tape, n)
      PROVE  Whole(tape', n) /\ Block(tape', n) = Block(tape, n) /\ Block(tape, n) \subseteq 1..n
  <2>1. n \in Nat /\ \A k \in 1..n : SameEntry(tape[k], tape'[k])
    BY <1>1, <1>2
  <2> QED BY <1>3, <2>1, WholeStays
<1>4. TapeInv(tape')
  <2>. SUFFICES ASSUME NEW n \in DOMAIN tape', tape'[n].stored, IsFrame(tape', n)
                PROVE  Whole(tape', n) /\ \A k \in Block(tape', n) : tape'[k].stored
    BY DEF TapeInv
  <2>1. n \in 1..Len(tape)
    BY <1>1
  <2>2. Whole(tape, n) /\ \A k \in Block(tape, n) : tape[k].stored
    BY <1>1, <2>1 DEF TapeInv, IsFrame
  <2>3. Whole(tape', n) /\ Block(tape', n) = Block(tape, n) /\ Block(tape, n) \subseteq 1..n
    BY <1>3, <2>1, <2>2
  <2>4. Block(tape, n) \subseteq 1..Len(tape)
    BY <1>1, <2>1, <2>3
  <2> QED BY <1>1, <2>2, <2>3, <2>4
<1> QED BY <1>1, <1>2, <1>3, <1>4

\* The last of a batch.
LEMMA LastOfBatch ==
    ASSUME TypeInv, rec.batch # {}
    PROVE  Max(rec.batch) \in rec.batch /\ Max(rec.batch) \in 1..Len(tape)
<1>1. Len(tape) \in Nat /\ DOMAIN tape = 1..Len(tape) /\ rec.batch \subseteq DOMAIN tape
  BY LenProperties DEF TypeInv
<1>2. rec.batch \in SUBSET (0..Len(tape))
  BY <1>1
<1> QED BY <1>1, <1>2, MaxTakes

\* The batch stands on the longer tape as it did.
LEMMA BatchStays ==
    ASSUME TypeInv, TapeInv(tape), BatchInv, NEW e \in Entry, ~e.stored,
           tape' = Append(tape, e), rec' = rec
    PROVE  BatchInv' /\ Skipping' = Skipping
<1>1. /\ Len(tape) \in Nat /\ DOMAIN tape = 1..Len(tape)
      /\ \A k \in 1..Len(tape) : tape'[k] = tape[k]
      /\ \A n \in 1..Len(tape) : Whole(tape, n) =>
            Whole(tape', n) /\ Block(tape', n) = Block(tape, n) /\ Block(tape, n) \subseteq 1..n
  BY TapeGrows
<1>2. rec.batch \subseteq 1..Len(tape)
  BY <1>1 DEF TypeInv
<1>3. \A n \in rec.batch : IsFrame(tape', n) =>
          Whole(tape', n) /\ \A k \in Block(tape', n) : tape'[k].stored \/ k \in rec.batch
  <2>. SUFFICES ASSUME NEW n \in rec.batch, IsFrame(tape', n)
                PROVE  Whole(tape', n) /\ \A k \in Block(tape', n) : tape'[k].stored \/ k \in rec.batch
    OBVIOUS
  <2>1. n \in 1..Len(tape) /\ IsFrame(tape, n)
    BY <1>1, <1>2 DEF IsFrame
  <2>2. Whole(tape, n) /\ \A k \in Block(tape, n) : tape[k].stored \/ k \in rec.batch
    BY <2>1 DEF BatchInv
  <2>3. /\ Whole(tape', n) /\ Block(tape', n) = Block(tape, n)
        /\ Block(tape, n) \subseteq 1..Len(tape)
    BY <1>1, <2>1, <2>2
  <2> QED BY <1>1, <2>2, <2>3
<1>4. BatchInv'
  <2>1. \A n \in rec.batch : IsFrame(tape', n) <=> IsFrame(tape, n)
    BY <1>1, <1>2 DEF IsFrame
  <2> QED BY <1>3, <2>1 DEF BatchInv
<1>5. rec.pc = "commit" => EndsInSkip(rec.batch)' = EndsInSkip(rec.batch)
  BY <1>1, LastOfBatch DEF BatchInv, EndsInSkip
<1> QED BY <1>4, <1>5 DEF Skipping

\* A message comes off the wire.
LEMMA ReadFields ==
    ASSUME RecInv, Read
    PROVE  LET m == Head(link.wire)
           IN  /\ m \in Message /\ m.seq = link.seq /\ client.seq < link.seq
               /\ tape' = Append(tape, Frame(m)) /\ Frame(m) \in Entry
               /\ link'.wire = <<>> /\ Len(link'.wire) = 0
               /\ link'.up = link.up /\ link'.subs = link.subs /\ link'.due = link.due
               /\ link'.seq = link.seq
               /\ ~Skipping /\ Waiting /\ client.open /\ ~client.gap /\ rec.pc # "off"
               /\ client.ready = NoEvent /\ client.held = 0
<1>. DEFINE m == Head(link.wire)
<1>1. /\ link \in Links /\ link.wire \in Seq(Message) /\ link.wire # <<>> /\ Len(link.wire) <= 1
      /\ tape' = Append(tape, Frame(m)) /\ link' = [link EXCEPT !.wire = Tail(link.wire)]
      /\ client.open /\ ~client.gap /\ client.ready = NoEvent /\ client.held = 0
  BY DEF RecInv, FlightInv, LinkInv, TypeInv, Links, Read, Reading
<1>2. m \in Message /\ Len(Tail(link.wire)) = Len(link.wire) - 1 /\ Tail(link.wire) \in Seq(Message)
  BY <1>1, HeadTailProperties
<1>3. Tail(link.wire) = <<>> /\ Len(Tail(link.wire)) = 0
  <2>1. Len(link.wire) \in Nat /\ Len(link.wire) # 0 /\ Len(Tail(link.wire)) \in Nat
    BY <1>1, <1>2, EmptySeq, LenProperties
  <2>2. Len(Tail(link.wire)) = 0
    <3>. DEFINE a == Len(link.wire)
                b == Len(Tail(link.wire))
    <3>1. a \in Nat /\ a # 0 /\ a <= 1 /\ b = a - 1
      BY <1>1, <1>2, <2>1
    <3>. HIDE DEF a, b
    <3>2. b = 0
      BY <3>1
    <3> QED BY <3>2 DEF b
  <2> QED BY <1>2, <2>2, EmptySeq
<1>4. Frame(m) \in Entry
  BY <1>2, EventTypes
<1>5. Waiting /\ m.seq = link.seq /\ client.seq < link.seq
  BY <1>1 DEF RecInv, FlightInv, LinkInv, Waiting
<1>6. ~Skipping /\ rec.pc # "off"
  <2>1. client.ready.kind # "frame" /\ ~Closed.open
    BY <1>1 DEF NoEvent, Closed
  <2> QED BY <1>1, <2>1 DEF RecInv, FlightInv, ClientInv
<1>. HIDE DEF m
<1>7. /\ link'.wire = Tail(link.wire)
      /\ link'.up = link.up /\ link'.subs = link.subs /\ link'.due = link.due
      /\ link'.seq = link.seq
  BY <1>1 DEF Links
<1>8. /\ m \in Message /\ m.seq = link.seq /\ client.seq < link.seq
      /\ tape' = Append(tape, Frame(m)) /\ Frame(m) \in Entry
      /\ link'.wire = <<>> /\ Len(link'.wire) = 0
      /\ link'.up = link.up /\ link'.subs = link.subs /\ link'.due = link.due
      /\ link'.seq = link.seq
      /\ ~Skipping /\ Waiting /\ client.open /\ ~client.gap /\ rec.pc # "off"
      /\ client.ready = NoEvent /\ client.held = 0
  BY <1>1, <1>2, <1>3, <1>4, <1>5, <1>6, <1>7
<1> QED BY <1>8 DEF m

\* The client goes on reading, or finds that a number is missing.
LEMMA ReadLands == ASSUME RecInv, Read PROVE FlightInv'
<1>. DEFINE m == Head(link.wire)
<1>0. PICK i \in Int : i = Len(tape) + 1
  BY LenProperties DEF RecInv, TypeInv
<1>1. /\ m \in Message /\ m.seq = link.seq /\ client.seq < link.seq
      /\ tape' = Append(tape, Frame(m)) /\ Frame(m) \in Entry
      /\ link'.wire = <<>> /\ Len(link'.wire) = 0
      /\ link'.up = link.up /\ link'.subs = link.subs /\ link'.due = link.due
      /\ link'.seq = link.seq
      /\ ~Skipping /\ Waiting /\ client.open /\ ~client.gap /\ rec.pc # "off"
      /\ client.ready = NoEvent /\ client.held = 0
  BY ReadFields
<1>2. /\ rec' = rec /\ book' = book /\ ver' = ver
      /\ client' = IF Skipped(client.seq, m.seq)
                   THEN [client EXCEPT !.seq = m.seq, !.held = i, !.ready = GapEvent(m.ticker)]
                   ELSE [client EXCEPT !.seq = m.seq, !.ready = FrameEvent(i)]
  BY <1>0 DEF Read, venueVars
<1>3. /\ client \in Clients /\ client.seq \in Nat /\ link.seq \in Nat /\ m.ticker \in Tickers
      /\ m.kind \in {"snapshot", "delta"} /\ m.size \in Int /\ m.book \in Int /\ m.ver \in Int
  <2>1. client \in Clients /\ link \in Links
    BY DEF RecInv, TypeInv
  <2>2. client.seq \in Nat /\ link.seq \in Nat
    BY <2>1 DEF Clients, Links
  <2>3. /\ m.ticker \in Tickers /\ m.kind \in {"snapshot", "delta"} /\ m.ver \in Int
        /\ m.size \in -MaxSize..MaxSize /\ m.book \in 0..MaxSize
    <3>. HIDE DEF m
    <3> QED BY <1>1 DEF Message
  <2>4. MaxSize \in Int
    BY TapeAssumption
  <2>. HIDE DEF m
  <2> QED BY <2>1, <2>2, <2>3, <2>4
<1>4. /\ client.seq = 0 => link.seq = 1 /\ m.kind = "snapshot"
      /\ m.kind = "snapshot" => m.size = m.book
      /\ link.up => m.ticker \in link.subs \ link.due
      /\ link.up /\ link.due # {} => m.kind = "snapshot"
  BY <1>1 DEF RecInv, FlightInv, LinkInv
<1>. DEFINE x == Frame(m)
<1>5. /\ x.kind = m.kind /\ x.ticker = m.ticker /\ x.seq = m.seq /\ x.size = m.size
      /\ ~x.stored /\ x.book = m.book /\ x.ver = m.ver
  BY DEF Frame
<1>. HIDE DEF m, x
<1>6. x \in Entry /\ tape' = Append(tape, x)
  BY <1>1 DEF x
<1>7. /\ tape' \in Seq(Entry) /\ Len(tape) \in Nat /\ Len(tape') = i
      /\ DOMAIN tape = 1..Len(tape) /\ DOMAIN tape' = 1..i
      /\ \A k \in 1..Len(tape) : tape'[k] = tape[k]
      /\ tape'[i] = x
      /\ TapeInv(tape')
  BY <1>0, <1>5, <1>6, TapeGrows DEF RecInv, FlightInv
<1>8. BatchInv' /\ Skipping' = Skipping /\ rec.batch \subseteq 1..Len(tape)
  BY <1>2, <1>5, <1>6, <1>7, BatchStays DEF RecInv, FlightInv, TypeInv
<1>9. /\ i \in DOMAIN tape' /\ IsFrame(tape', i) /\ ~tape'[i].stored /\ i \notin rec.batch
      /\ i \in Nat \ {0}
  BY <1>0, <1>3, <1>5, <1>7, <1>8 DEF IsFrame
<1>10. Untaken(i)'
  BY <1>2, <1>9 DEF Untaken
<1>11. ~Waiting'
  BY <1>1 DEF Waiting
<1>12. LinkInv' <=> \/ ~link.up
                    \/ client'.seq <= link.seq /\ (client'.seq = 0 => link.seq = 0)
  BY <1>1, <1>11 DEF LinkInv, RecInv, FlightInv
<1>13. CASE Skipped(client.seq, m.seq)
  <2>1. /\ client' = [client EXCEPT !.seq = m.seq, !.held = i, !.ready = GapEvent(m.ticker)]
        /\ client'.seq = m.seq /\ client'.held = i /\ client'.ready = GapEvent(m.ticker)
        /\ client'.open = client.open /\ client'.gap = client.gap
    BY <1>2, <1>3, <1>13 DEF Clients
  <2>2. client'.ready.kind = "gap" /\ client'.ready.ticker = m.ticker /\ m.ticker # ALL
    BY <1>3, <2>1, TapeAssumption DEF GapEvent
  <2>3. ReadyInv'
    BY <1>10, <2>1, <2>2 DEF ReadyInv
  <2>4. ClientInv'
    <3>1. SkipReady' /\ ~LossReady' /\ ~Skipping' /\ client'.held # 0
      BY <1>1, <1>8, <1>9, <2>1, <2>2 DEF SkipReady, LossReady
    <3> QED BY <1>1, <1>2, <2>1, <3>1 DEF ClientInv
  <2>5. LinkInv'
    BY <1>1, <1>3, <1>12, <2>1
  <2>6. FlowInv'
    BY <1>9, <2>1 DEF FlowInv
  <2> QED BY <1>7, <1>8, <2>3, <2>4, <2>5, <2>6 DEF FlightInv
<1>14. CASE ~Skipped(client.seq, m.seq)
  <2>1. /\ client' = [client EXCEPT !.seq = m.seq, !.ready = FrameEvent(i)]
        /\ client'.seq = m.seq /\ client'.held = 0 /\ client'.ready = FrameEvent(i)
        /\ client'.open = client.open /\ client'.gap = client.gap
    BY <1>1, <1>2, <1>3, <1>14 DEF Clients
  <2>2. client'.ready.kind = "frame" /\ client'.ready.at = i
    BY <2>1 DEF FrameEvent
  <2>3. InStep /\ m.seq = client.seq + 1
    BY <1>1, <1>3, <1>4, <1>14 DEF Skipped, InStep, m
  <2>4. /\ client.seq <= Len(tape)
        /\ \A k \in Reached : /\ IsFrame(tape, k) /\ InHand(k)
                              /\ tape[k].seq = client.seq - (Len(tape) - k)
        /\ link.up /\ link.due # {} =>
              \A k \in Reached : tape[k].kind = "snapshot" /\ tape[k].ticker \notin link.due
        /\ m.kind = "snapshot" =>
              \A k \in Reached : tape[k].kind = "snapshot" /\ tape[k].ticker # m.ticker
        /\ m.kind = "delta" => \E p \in Reached : LastIs(m.ticker, p, m.book - m.size, m.ver - 1)
        /\ link.up =>
              \A t \in link.subs \ link.due :
                 IF m.ticker = t THEN m.book = book[t] /\ m.ver = ver[t]
                 ELSE \E p \in Reached : LastIs(t, p, book[t], ver[t])
    BY <1>1, <2>3 DEF RecInv, FlightInv, FlowInv, m
  <2>5. /\ Reached \subseteq 1..Len(tape) /\ Reached' = Reached \cup {i}
        /\ Block(tape', i) = Reached \cup {i} /\ i \notin Reached
    <3>. DEFINE l == Len(tape)
                c == client.seq
    <3>1. l \in Int /\ c \in Int /\ i = l + 1 /\ c <= l
      BY <1>0, <1>3, <1>7, <2>4
    <3>2. /\ Reached = (l + 1 - c)..l /\ Reached' = (i + 1 - (c + 1))..i
          /\ Block(tape', i) = (i + 1 - (c + 1))..i
      BY <1>0, <1>5, <1>7, <2>1, <2>3 DEF Reached, Block
    <3>. HIDE DEF l, c
    <3>3. (l + 1 - c)..l \subseteq 1..l /\ i \notin (l + 1 - c)..l
      BY <3>1
    <3>4. (i + 1 - (c + 1))..i = ((l + 1 - c)..l) \cup {i}
      BY <3>1, <1>3 DEF c
    <3> QED BY <3>2, <3>3, <3>4 DEF l
  <2>6. \A k \in Reached : tape'[k] = tape[k]
    BY <1>7, <2>5
  <2>7. \A k \in Reached : tape[k].stored \/ k \in rec.batch
    <3>1. \A k \in Reached : FrameEvent(k) # NoEvent
      BY DEF FrameEvent, NoEvent
    <3> QED BY <1>1, <2>4, <3>1 DEF InHand
  <2>8. \A k \in Reached \cup {i} : tape'[k].seq = m.seq - (i - k) /\ tape'[k].kind # "gap"
    <3>1. tape'[i].seq = m.seq - (i - i) /\ tape'[i].kind # "gap"
      BY <1>1, <1>3, <1>5, <1>7, <1>9
    <3>2. ASSUME NEW k \in Reached PROVE tape'[k].seq = m.seq - (i - k) /\ tape'[k].kind # "gap"
      <4>1. tape'[k] = tape[k] /\ k \in Int
        BY <2>5, <2>6
      <4>2. tape[k].seq = client.seq - (Len(tape) - k) /\ tape[k].kind # "gap"
        BY <2>4 DEF IsFrame
      <4>. DEFINE l == Len(tape)
                  c == client.seq
                  z == m.seq
      <4>3. l \in Int /\ c \in Int /\ z = c + 1 /\ i = l + 1
        BY <1>0, <1>3, <2>3, <2>4
      <4>. HIDE DEF l, c, z
      <4>4. c - (l - k) = z - (i - k)
        BY <4>1, <4>3
      <4> QED BY <4>1, <4>2, <4>4 DEF l, c, z
    <3> QED BY <3>1, <3>2
  <2>. DEFINE Landed(t, p, b, v) ==
                /\ tape'[p].ticker = t /\ \A k \in (p + 1)..(i - 1) : tape'[k].ticker # t
                /\ tape'[p].book = b /\ tape'[p].ver = v
  <2>9. ASSUME NEW t, NEW p \in Reached, NEW b, NEW v, LastIs(t, p, b, v)
        PROVE  Landed(t, p, b, v)
    <3>1. \A k \in (p + 1)..(i - 1) : k \in (p + 1)..Len(tape) /\ k \in 1..Len(tape)
      BY <1>0, <1>7, <2>5
    <3> QED BY <1>7, <2>6, <2>9, <3>1 DEF LastIs
  <2>10. Whole(tape', i)
    <3>1. tape'[i].seq \in 1..i /\ tape'[i].ticker \in Tickers
      BY <1>0, <1>3, <1>5, <1>7, <2>3, <2>4
    <3>2. ASSUME tape'[i].kind = "snapshot"
          PROVE  /\ tape'[i].size = tape'[i].book
                 /\ \A k \in Block(tape', i) \ {i} :
                       tape'[k].kind = "snapshot" /\ tape'[k].ticker # tape'[i].ticker
      <4>1. m.kind = "snapshot" /\ tape'[i].ticker = m.ticker /\ tape'[i].size = m.size
            /\ tape'[i].book = m.book
        BY <1>5, <1>7, <3>2
      <4>2. m.size = m.book /\ \A k \in Reached : tape[k].kind = "snapshot" /\ tape[k].ticker # m.ticker
        BY <1>4, <2>4, <4>1
      <4>3. \A k \in Block(tape', i) \ {i} : k \in Reached
        BY <2>5
      <4>. HIDE DEF m
      <4> QED BY <2>6, <4>1, <4>2, <4>3
    <3>3. ASSUME tape'[i].kind = "delta"
          PROVE  \E p \in Block(tape', i) \ {i} :
                    /\ tape'[p].ticker = tape'[i].ticker
                    /\ \A k \in (p + 1)..(i - 1) : tape'[k].ticker # tape'[i].ticker
                    /\ tape'[i].book = tape'[p].book + tape'[i].size
                    /\ tape'[i].ver = tape'[p].ver + 1
      <4>1. PICK p \in Reached : LastIs(m.ticker, p, m.book - m.size, m.ver - 1)
        BY <1>5, <1>7, <2>4, <3>3
      <4>2. /\ tape'[p].ticker = m.ticker /\ \A k \in (p + 1)..(i - 1) : tape'[k].ticker # m.ticker
            /\ tape'[p].book = m.book - m.size /\ tape'[p].ver = m.ver - 1
        <5>. DEFINE u == m.ticker
                    b == m.book - m.size
                    v == m.ver - 1
        <5>1. LastIs(u, p, b, v)
          BY <4>1
        <5>. HIDE DEF u, b, v, Landed
        <5>2. Landed(u, p, b, v)
          BY <2>9, <5>1, Zenon
        <5> QED BY <5>2 DEF Landed, u, b, v
      <4>3. m.book = (m.book - m.size) + m.size /\ m.ver = (m.ver - 1) + 1
        BY <1>3
      <4>4. p \in Block(tape', i) \ {i}
        BY <2>5, <4>1
      <4>5. /\ tape'[i].ticker = m.ticker /\ tape'[i].size = m.size
            /\ tape'[i].book = m.book /\ tape'[i].ver = m.ver
        BY <1>5, <1>7
      <4>. HIDE DEF m
      <4>6. tape'[i].book = tape'[p].book + tape'[i].size /\ tape'[i].ver = tape'[p].ver + 1
        BY <4>2, <4>3, <4>5
      <4>7. tape'[p].ticker = tape'[i].ticker /\ \A k \in (p + 1)..(i - 1) : tape'[k].ticker # tape'[i].ticker
        BY <4>2, <4>5
      <4> QED BY <4>4, <4>6, <4>7, Zenon
    <3>4. \A k \in Block(tape', i) : tape'[k].kind # "gap" /\ tape'[k].seq = tape'[i].seq - (i - k)
      <4>1. tape'[i].seq = m.seq
        BY <1>5, <1>7
      <4>. HIDE DEF m
      <4> QED BY <2>5, <2>8, <4>1, Zenon
    <3>. HIDE DEF m
    <3> QED BY <3>1, <3>2, <3>3, <3>4, Zenon DEF Whole
  <2>11. ReadyInv'
    BY <1>2, <1>10, <2>1, <2>2, <2>5, <2>6, <2>7, <2>10 DEF ReadyInv
  <2>12. ClientInv'
    BY <1>1, <1>2, <1>8, <2>1, <2>2 DEF ClientInv, SkipReady, LossReady
  <2>13. LinkInv'
    BY <1>1, <1>3, <1>12, <2>1
  <2>14. FlowInv'
    <3>1. client'.seq <= Len(tape')
      BY <1>0, <1>3, <1>7, <2>1, <2>3, <2>4
    <3>2. ASSUME NEW k \in Reached'
          PROVE  /\ IsFrame(tape', k) /\ InHand(k)'
                 /\ tape'[k].seq = client'.seq - (Len(tape') - k)
      <4>1. k \in Reached \cup {i}
        BY <2>5
      <4>2. InHand(k)'
        BY <1>2, <2>1, <2>6, <2>7, <4>1 DEF InHand
      <4> QED BY <1>7, <2>1, <2>8, <4>1, <4>2 DEF IsFrame
    <3>3. ASSUME link.up, link.due # {}, NEW k \in Reached'
          PROVE  tape'[k].kind = "snapshot" /\ tape'[k].ticker \notin link.due
      BY <1>4, <1>5, <1>7, <2>4, <2>5, <2>6, <3>3
    <3>4. ASSUME link.up, NEW t \in link.subs \ link.due
          PROVE  \E p \in Reached' : LastIs(t, p, book[t], ver[t])'
      <4>1. CASE m.ticker = t
        <5>1. m.book = book[t] /\ m.ver = ver[t]
          BY <2>4, <3>4, <4>1
        <5>2. \A k \in (i + 1)..Len(tape') : tape'[k].ticker # t
          BY <1>7, <1>9
        <5>3. LastIs(t, i, book[t], ver[t])'
          BY <1>2, <1>5, <1>7, <4>1, <5>1, <5>2 DEF LastIs
        <5> QED BY <2>5, <5>3
      <4>2. CASE m.ticker # t
        <5>1. PICK p \in Reached : LastIs(t, p, book[t], ver[t])
          BY <2>4, <3>4, <4>2
        <5>2. /\ tape'[p].ticker = t /\ \A k \in (p + 1)..(i - 1) : tape'[k].ticker # t
              /\ tape'[p].book = book[t] /\ tape'[p].ver = ver[t]
          BY <2>9, <5>1
        <5>3. \A k \in (p + 1)..i : k = i \/ k \in (p + 1)..(i - 1)
          BY <1>9, <2>5
        <5>4. \A k \in (p + 1)..Len(tape') : tape'[k].ticker # t
          BY <1>5, <1>7, <4>2, <5>2, <5>3
        <5>5. LastIs(t, p, book[t], ver[t])'
          BY <1>2, <5>2, <5>4 DEF LastIs
        <5> QED BY <2>5, <5>5
      <4> QED BY <4>1, <4>2
    <3> QED BY <1>1, <1>11, <3>1, <3>2, <3>3, <3>4 DEF FlowInv
  <2> QED BY <1>7, <1>8, <2>11, <2>12, <2>13, <2>14 DEF FlightInv
<1> QED BY <1>13, <1>14

\* The frame that showed the gap follows it.
LEMMA HeldLands == ASSUME RecInv, YieldHeld PROVE FlightInv'
<1>1. /\ client.held # 0 /\ client.ready = NoEvent /\ UNCHANGED <<tape, rec, link, book, ver>>
      /\ client' = [client EXCEPT !.held = 0, !.ready = FrameEvent(client.held)]
      /\ client \in Clients
  BY DEF YieldHeld, venueVars, RecInv, TypeInv
<1>2. /\ client'.held = 0 /\ client'.ready = FrameEvent(client.held) /\ client'.open = client.open
      /\ client'.gap = client.gap /\ client'.seq = client.seq
      /\ client'.ready.kind = "frame" /\ client'.ready.at = client.held
  BY <1>1 DEF Clients, FrameEvent
<1>3. client.ready.kind = "none"
  BY <1>1 DEF NoEvent
<1>4. Skipping /\ client.open /\ ~client.gap /\ rec.pc # "off"
  <2>1. ~SkipReady /\ Closed.held = 0
    BY <1>3 DEF SkipReady, Closed
  <2> QED BY <1>1, <2>1 DEF RecInv, FlightInv, ClientInv
<1>5. TapeInv(tape)' /\ BatchInv' /\ Skipping'
  BY <1>1, <1>4, SessionIdles DEF RecInv, FlightInv
<1>6. ReadyInv'
  <2>1. Untaken(client.held)
    BY <1>1 DEF RecInv, FlightInv, ReadyInv
  <2> QED BY <1>1, <1>2, <1>5, <2>1 DEF ReadyInv, Untaken, IsFrame
<1>7. ClientInv'
  BY <1>1, <1>2, <1>4, <1>5 DEF ClientInv, SkipReady, LossReady
<1>8. LinkInv'
  BY <1>1, <1>2 DEF RecInv, FlightInv, LinkInv, Waiting
<1>9. FlowInv'
  BY <1>5 DEF FlowInv
<1> QED BY <1>5, <1>6, <1>7, <1>8, <1>9 DEF FlightInv

\* A client without anything in hand.
LEMMA NothingInHand ==
    ASSUME ClientInv, client.ready = NoEvent, client.held = 0
    PROVE  ~Skipping
BY DEF ClientInv, NoEvent

\* A link without messages.
LEMMA NothingOnWire ==
    /\ NoLink.wire = <<>> /\ ~NoLink.up /\ Len(NoLink.wire) <= 1
    /\ \A ts : LET l == NewLink(ts)
               IN  /\ l.wire = <<>> /\ Len(l.wire) <= 1 /\ l.up /\ l.subs = ts /\ l.due = ts
                   /\ l.seq = 0
<1>1. <<>> \in Seq({}) /\ Len(<<>>) = 0
  BY EmptySeq
<1>2. Len(<<>>) <= 1
  BY <1>1
<1> QED BY <1>2 DEF NoLink, NewLink

\* The client notices that the connection is gone.
LEMMA DisconnectLands == ASSUME RecInv, Disconnect PROVE FlightInv'
<1>1. /\ client.ready = NoEvent /\ client.held = 0 /\ client.open
      /\ UNCHANGED <<tape, rec, book, ver>> /\ link' = NoLink
      /\ client' = [Closed EXCEPT !.gap = TRUE]
  BY DEF Disconnect, Reading, venueVars
<1>2. ~Skipping /\ rec.pc # "off"
  <2>1. ~Closed.open
    BY DEF Closed
  <2> QED BY <1>1, <2>1, NothingInHand DEF RecInv, FlightInv, ClientInv
<1>3. /\ ~client'.open /\ client'.gap /\ client'.seq = 0 /\ client'.held = 0
      /\ client'.ready = NoEvent /\ client'.ready.kind = "none"
  BY <1>1 DEF Closed, NoEvent
<1>4. TapeInv(tape)' /\ BatchInv' /\ ~Skipping'
  BY <1>1, <1>2, SessionIdles DEF RecInv, FlightInv
<1>5. ReadyInv' /\ ClientInv'
  BY <1>1, <1>2, <1>3, <1>4 DEF ReadyInv, ClientInv, SkipReady, LossReady
<1>6. LinkInv' /\ FlowInv'
  BY <1>1, <1>3, NothingOnWire DEF LinkInv, FlowInv, Waiting
<1> QED BY <1>4, <1>5, <1>6 DEF FlightInv

\* It gets a new one.
LEMMA ReconnectLands == ASSUME RecInv, Reconnect PROVE FlightInv'
<1>1. /\ ~client.open /\ client.gap /\ client' = [client EXCEPT !.open = TRUE]
      /\ UNCHANGED <<tape, rec, book, ver>> /\ link' = NewLink(rec.subscribed)
      /\ client \in Clients
  BY DEF Reconnect, venueVars, RecInv, TypeInv
<1>2. client.ready = NoEvent /\ client.held = 0 /\ client.seq = 0
  BY <1>1 DEF RecInv, FlightInv, ClientInv
<1>3. ~Skipping /\ rec.pc # "off"
  <2>1. ~Closed.gap
    BY DEF Closed
  <2> QED BY <1>1, <1>2, <2>1, NothingInHand DEF RecInv, FlightInv, ClientInv
<1>4. /\ client'.open /\ client'.gap /\ client'.seq = 0 /\ client'.held = 0
      /\ client'.ready = NoEvent /\ client'.ready.kind = "none"
  BY <1>1, <1>2 DEF Clients, NoEvent
<1>5. TapeInv(tape)' /\ BatchInv' /\ ~Skipping'
  BY <1>1, <1>3, SessionIdles DEF RecInv, FlightInv
<1>6. ReadyInv' /\ ClientInv'
  BY <1>1, <1>3, <1>4, <1>5 DEF ReadyInv, ClientInv, SkipReady, LossReady
<1>7. /\ link'.wire = <<>> /\ Len(link'.wire) <= 1 /\ link'.up /\ link'.subs = rec.subscribed
      /\ link'.due = rec.subscribed /\ link'.seq = 0
  BY <1>1, NothingOnWire
<1>8. LinkInv'
  BY <1>4, <1>7 DEF LinkInv, Waiting
<1>9. FlowInv'
  <2>1. Len(tape') \in Nat /\ tape' = tape
    BY <1>1, LenProperties DEF RecInv, TypeInv
  <2>2. Reached' = {}
    BY <1>4, <2>1 DEF Reached
  <2>3. client'.seq <= Len(tape')
    BY <1>4, <2>1
  <2> QED BY <1>7, <2>2, <2>3 DEF FlowInv, Waiting
<1> QED BY <1>5, <1>6, <1>8, <1>9 DEF FlightInv

\* It tells the session that messages may be missing.
LEMMA GapLands == ASSUME RecInv, YieldGap PROVE FlightInv'
<1>1. /\ client.open /\ client.gap /\ client.ready = NoEvent
      /\ client' = [client EXCEPT !.gap = FALSE, !.ready = GapEvent(ALL)]
      /\ UNCHANGED <<tape, rec, book, ver, link>> /\ client \in Clients
  BY DEF YieldGap, venueVars, RecInv, TypeInv
<1>2. client.held = 0 /\ client.seq = 0
  BY <1>1 DEF RecInv, FlightInv, ClientInv
<1>3. ~Skipping /\ rec.pc # "off"
  <2>1. ~Closed.gap
    BY DEF Closed
  <2> QED BY <1>1, <1>2, <2>1, NothingInHand DEF RecInv, FlightInv, ClientInv
<1>4. /\ client'.open /\ ~client'.gap /\ client'.seq = 0 /\ client'.held = 0
      /\ client'.ready.kind = "gap" /\ client'.ready.ticker = ALL
  BY <1>1, <1>2 DEF Clients, GapEvent
<1>5. TapeInv(tape)' /\ BatchInv' /\ ~Skipping'
  BY <1>1, <1>3, SessionIdles DEF RecInv, FlightInv
<1>6. ReadyInv' /\ ClientInv'
  BY <1>1, <1>3, <1>4, <1>5 DEF ReadyInv, ClientInv, SkipReady, LossReady
<1>7. LinkInv'
  BY <1>1, <1>2, <1>4 DEF RecInv, FlightInv, LinkInv, Waiting
<1>8. FlowInv'
  <2>1. Len(tape) \in Nat
    BY LenProperties DEF RecInv, TypeInv
  <2>2. Reached' = {} /\ Reached = {}
    BY <1>1, <1>2, <1>4, <2>1 DEF Reached
  <2>3. InStep' <=> InStep
    BY <1>1, <1>2, <1>4 DEF InStep, Waiting
  <2> QED BY <1>1, <1>2, <1>3, <1>4, <1>5, <2>1, <2>2, <2>3 DEF RecInv, FlightInv, FlowInv, Waiting
<1> QED BY <1>5, <1>6, <1>7, <1>8 DEF FlightInv

\* The client goes on.
LEMMA ClientStep == ASSUME RecInv, Client PROVE FlightInv'
BY ReadLands, HeldLands, DisconnectLands, ReconnectLands, GapLands DEF Client

\* A client that has nothing leaves nothing to hold.
LEMMA EmptyHands ==
    ASSUME TypeInv, TapeInv(tape), UNCHANGED <<tape, book, ver>>, NEW ts \in SUBSET Tickers,
           rec'.batch = {}, rec'.pc \in {"off", "wait"}, rec'.pc = "off" => ts = {},
           ts = {} => client' = Closed, ts # {} => client' = [Closed EXCEPT !.open = TRUE],
           link' = IF ts = {} THEN NoLink ELSE NewLink(ts)
    PROVE  FlightInv'
<1>1. /\ client'.open <=> ts # {}
      /\ ~client'.gap /\ client'.seq = 0 /\ client'.held = 0
      /\ client'.ready = NoEvent /\ client'.ready.kind = "none"
      /\ ts = {} => client' = Closed
  BY DEF Closed, NoEvent
<1>2. ~Skipping' /\ TapeInv(tape)'
  BY DEF Skipping, TapeInv, IsFrame
<1>3. BatchInv'
  BY DEF BatchInv
<1>4. ReadyInv' /\ ClientInv'
  BY <1>1, <1>2 DEF ReadyInv, ClientInv, SkipReady, LossReady
<1>5. /\ link'.wire = <<>> /\ Len(link'.wire) <= 1 /\ (link'.up => ts # {})
      /\ link'.up => link'.subs = ts /\ link'.due = ts /\ link'.seq = 0
  BY NothingOnWire
<1>6. LinkInv'
  BY <1>1, <1>5 DEF LinkInv, Waiting
<1>7. FlowInv'
  <2>1. Len(tape') \in Nat /\ tape' = tape
    BY LenProperties DEF TypeInv
  <2>2. Reached' = {} /\ client'.seq <= Len(tape')
    BY <1>1, <2>1 DEF Reached
  <2> QED BY <1>5, <2>2 DEF FlowInv, Waiting
<1> QED BY <1>2, <1>3, <1>4, <1>6, <1>7 DEF FlightInv

\* The session has just subscribed.
LEMMA SubscribeLands ==
    ASSUME TypeInv, TapeInv(tape), UNCHANGED <<tape, book, ver>>, NEW ts \in SUBSET Tickers,
           Subscribe(ts)
    PROVE  FlightInv'
<1>1. rec'.batch = {} /\ rec'.pc = "wait" /\ link' = IF ts = {} THEN NoLink ELSE NewLink(ts)
  BY DEF Subscribe
<1>2. ts # {} => client' = [Closed EXCEPT !.open = TRUE]
  BY DEF Subscribe
<1>3. ASSUME ts = {} PROVE client' = Closed
  <2>1. client' = [Closed EXCEPT !.open = FALSE]
    BY <1>3 DEF Subscribe
  <2> QED BY <2>1 DEF Closed
<1> QED BY <1>1, <1>2, <1>3, EmptyHands

\* The session takes a frame.
LEMMA TakeFrame ==
    ASSUME RecInv, Take, client.ready.kind = "frame"
    PROVE  FlightInv'
<1>. DEFINE at == client.ready.at
<1>1. /\ rec.pc \in {"wait", "drain"} /\ client' = [client EXCEPT !.ready = NoEvent]
      /\ rec' = [rec EXCEPT !.pc = "drain", !.batch = rec.batch \cup {at}]
      /\ UNCHANGED <<tape, book, ver, link>> /\ client \in Clients /\ rec \in Sessions
  BY DEF Take, venueVars, RecInv, TypeInv
<1>2. /\ client'.ready = NoEvent /\ client'.ready.kind = "none" /\ client'.open = client.open
      /\ client'.gap = client.gap /\ client'.seq = client.seq /\ client'.held = client.held
      /\ rec'.pc = "drain" /\ rec'.batch = rec.batch \cup {at}
  BY <1>1 DEF Clients, Sessions, NoEvent
<1>3. ~Skipping /\ ~Skipping'
  BY <1>1, <1>2 DEF Skipping
<1>4. /\ client.ready = FrameEvent(at) /\ Untaken(at) /\ Whole(tape, at)
      /\ \A k \in Block(tape, at) \ {at} : tape[k].stored \/ k \in rec.batch
  BY <1>3 DEF RecInv, FlightInv, ReadyInv
<1>5. client.held = 0
  BY <1>3 DEF RecInv, FlightInv, ClientInv, SkipReady
<1>. HIDE DEF at
<1>6. TapeInv(tape)'
  BY <1>1 DEF RecInv, FlightInv, TapeInv, IsFrame
<1>7. BatchInv'
  <2>1. \A n \in rec.batch \cup {at} : IsFrame(tape, n) =>
            Whole(tape, n) /\ \A k \in Block(tape, n) : tape[k].stored \/ k \in rec.batch \cup {at}
    BY <1>4 DEF RecInv, FlightInv, BatchInv
  <2>2. \A n \in rec.batch \cup {at} : IsFrame(tape, n)
    BY <1>1, <1>4 DEF RecInv, FlightInv, BatchInv, Untaken
  <2> QED BY <1>1, <1>2, <2>1, <2>2 DEF BatchInv, IsFrame
<1>8. ReadyInv' /\ ClientInv'
  BY <1>1, <1>2, <1>3, <1>5 DEF RecInv, FlightInv, ReadyInv, ClientInv, SkipReady, LossReady
<1>9. LinkInv'
  BY <1>1, <1>2 DEF RecInv, FlightInv, LinkInv, Waiting
<1>10. FlowInv'
  <2>1. \A k : InHand(k) => InHand(k)'
    <3>1. \A k : FrameEvent(at) = FrameEvent(k) => k = at
      BY DEF FrameEvent
    <3> QED BY <1>1, <1>2, <1>4, <3>1 DEF InHand
  <2>2. Reached' = Reached /\ (InStep' <=> InStep)
    BY <1>1, <1>2 DEF Reached, InStep, Waiting
  <2>3. \A u, p, b, v : LastIs(u, p, b, v)' = LastIs(u, p, b, v)
    BY <1>1 DEF LastIs
  <2> QED BY <1>1, <1>2, <1>3, <2>1, <2>2, <2>3 DEF RecInv, FlightInv, FlowInv, Waiting, IsFrame
<1> QED BY <1>6, <1>7, <1>8, <1>9, <1>10 DEF FlightInv

\* It takes a gap, stamps its row and ends the batch.
LEMMA TakeGap ==
    ASSUME RecInv, Take, client.ready.kind # "frame"
    PROVE  FlightInv'
<1>0. PICK i \in Int : i = Len(tape) + 1
  BY LenProperties DEF RecInv, TypeInv
<1>1. /\ rec.pc \in {"wait", "drain"} /\ client' = [client EXCEPT !.ready = NoEvent]
      /\ rec' = [rec EXCEPT !.pc = "commit", !.batch = rec.batch \cup {i}]
      /\ tape' = Append(tape, GapRow(client.ready.ticker))
      /\ UNCHANGED <<book, ver, link>> /\ client \in Clients /\ rec \in Sessions
      /\ client.ready # NoEvent /\ client.ready.ticker \in Tickers \cup {ALL}
      /\ client.ready.kind = "gap"
  <2>1. /\ client \in Clients /\ rec \in Sessions /\ client.ready.ticker \in Tickers \cup {ALL}
        /\ client.ready.kind \in {"none", "frame", "gap"}
    BY DEF RecInv, TypeInv, Clients, Event
  <2>2. client.ready # NoEvent
    BY DEF Take
  <2> QED BY <1>0, <2>1, <2>2 DEF Take, venueVars, RecInv, FlightInv, ReadyInv
<1>2. /\ client'.ready = NoEvent /\ client'.ready.kind = "none" /\ client'.open = client.open
      /\ client'.gap = client.gap /\ client'.seq = client.seq /\ client'.held = client.held
      /\ rec'.pc = "commit" /\ rec'.batch = rec.batch \cup {i}
  BY <1>1 DEF Clients, Sessions, NoEvent
<1>3. ~Skipping
  BY <1>1 DEF Skipping
<1>. DEFINE x == GapRow(client.ready.ticker)
<1>4. x \in Entry /\ ~x.stored /\ x.kind = "gap" /\ x.ticker = client.ready.ticker
  BY <1>1, EventTypes DEF GapRow
<1>5. tape' = Append(tape, x)
  BY <1>1
<1>. HIDE DEF x
<1>6. /\ tape' \in Seq(Entry) /\ Len(tape) \in Nat /\ Len(tape') = i
      /\ DOMAIN tape = 1..Len(tape) /\ DOMAIN tape' = 1..i
      /\ \A k \in 1..Len(tape) : tape'[k] = tape[k]
      /\ tape'[i] = x /\ TapeInv(tape')
      /\ \A n \in 1..Len(tape) : Whole(tape, n) =>
            Whole(tape', n) /\ Block(tape', n) = Block(tape, n) /\ Block(tape, n) \subseteq 1..n
  BY <1>0, <1>4, <1>5, TapeGrows DEF RecInv, FlightInv
<1>7. rec.batch \subseteq 1..Len(tape) /\ i \in Nat /\ i \notin 1..Len(tape)
  BY <1>0, <1>6 DEF RecInv, TypeInv
<1>8. Skipping' <=> client.ready.ticker # ALL
  <2>1. Max(rec.batch \cup {i}) = i
    <3>1. rec.batch \cup {i} \in SUBSET (0..i) /\ rec.batch \cup {i} # {}
      BY <1>0, <1>6, <1>7
    <3>2. Max(rec.batch \cup {i}) \in rec.batch \cup {i} /\ i <= Max(rec.batch \cup {i})
      BY <1>7, <3>1, MaxTakes
    <3> QED BY <1>0, <1>6, <1>7, <3>2
  <2> QED BY <1>2, <1>4, <1>6, <2>1 DEF Skipping, EndsInSkip
<1>9. BatchInv'
  <2>. SUFFICES ASSUME NEW n \in rec.batch \cup {i}, IsFrame(tape', n)
                PROVE  Whole(tape', n) /\ \A k \in Block(tape', n) : tape'[k].stored \/ k \in rec.batch \cup {i}
    BY <1>1, <1>2 DEF BatchInv
  <2>1. n \in rec.batch /\ n \in 1..Len(tape) /\ IsFrame(tape, n)
    BY <1>4, <1>6, <1>7 DEF IsFrame
  <2>2. Whole(tape, n) /\ \A k \in Block(tape, n) : tape[k].stored \/ k \in rec.batch
    BY <2>1 DEF RecInv, FlightInv, BatchInv
  <2>3. /\ Whole(tape', n) /\ Block(tape', n) = Block(tape, n)
        /\ Block(tape, n) \subseteq 1..Len(tape)
    BY <1>6, <2>1, <2>2
  <2> QED BY <1>6, <2>2, <2>3
<1>10. ReadyInv'
  <2>1. ASSUME client.held # 0 PROVE Untaken(client.held)'
    <3>1. Untaken(client.held)
      BY <2>1 DEF RecInv, FlightInv, ReadyInv
    <3>2. PICK h \in 1..Len(tape) : h = client.held /\ h = client'.held
      BY <1>2, <1>6, <3>1 DEF Untaken
    <3>3. /\ tape'[h].kind # "gap" /\ ~tape'[h].stored /\ h \notin rec'.batch /\ h \in DOMAIN tape'
      BY <1>0, <1>2, <1>6, <1>7, <3>1, <3>2 DEF Untaken, IsFrame
    <3> QED BY <3>2, <3>3 DEF Untaken, IsFrame
  <2> QED BY <1>2, <2>1 DEF ReadyInv, Untaken, IsFrame
<1>11. ClientInv'
  <2>1. SkipReady <=> client.ready.ticker # ALL
    BY <1>1 DEF SkipReady
  <2>2. client.open /\ ~client.gap
    BY <1>1 DEF RecInv, FlightInv, ClientInv
  <2>3. client.held # 0 <=> Skipping'
    BY <1>3, <1>8, <2>1 DEF RecInv, FlightInv, ClientInv
  <2> QED BY <1>2, <2>2, <2>3 DEF ClientInv, SkipReady, LossReady
<1>12. LinkInv'
  BY <1>1, <1>2 DEF RecInv, FlightInv, LinkInv, Waiting
<1>13. FlowInv'
  <2>. SUFFICES ASSUME client.open, client.held = 0, ~Skipping' PROVE FlowInv'
    BY <1>2 DEF FlowInv
  <2>1. client.seq = 0
    BY <1>1, <1>8 DEF RecInv, FlightInv, ClientInv, LossReady
  <2>2. Reached = {} /\ Reached' = {} /\ client'.seq <= Len(tape')
    BY <1>0, <1>2, <1>6, <2>1 DEF Reached
  <2>3. (InStep' <=> InStep) /\ (Waiting' <=> Waiting)
    BY <1>1, <1>2 DEF InStep, Waiting
  <2> QED BY <1>1, <1>3, <2>2, <2>3 DEF RecInv, FlightInv, FlowInv
<1> QED BY <1>6, <1>9, <1>10, <1>11, <1>12, <1>13 DEF FlightInv

\* Nothing more comes for a batch of frames.
LEMMA EndLands == ASSUME RecInv, EndBatch PROVE FlightInv'
<1>1. /\ rec.pc = "drain" /\ rec' = [rec EXCEPT !.pc = "commit"] /\ rec \in Sessions
      /\ UNCHANGED <<tape, book, ver, link, client>>
  BY DEF EndBatch, venueVars, RecInv, TypeInv
<1>2. rec'.pc = "commit" /\ rec'.batch = rec.batch
  BY <1>1 DEF Sessions
<1>3. rec.batch # {} /\ \A n \in rec.batch : IsFrame(tape, n)
  BY <1>1 DEF RecInv, FlightInv, BatchInv
<1>4. ~Skipping /\ ~Skipping'
  <2>1. Max(rec.batch) \in rec.batch
    BY <1>3, LastOfBatch DEF RecInv
  <2> QED BY <1>1, <1>2, <1>3, <2>1 DEF Skipping, EndsInSkip, IsFrame
<1>5. TapeInv(tape)' /\ BatchInv'
  BY <1>1, <1>2, <1>3 DEF RecInv, FlightInv, TapeInv, BatchInv, IsFrame
<1>6. ReadyInv' /\ ClientInv' /\ LinkInv'
  BY <1>1, <1>2, <1>4 DEF RecInv, FlightInv, ReadyInv, Untaken, ClientInv, SkipReady, LossReady,
                          LinkInv, Waiting, IsFrame
<1>7. FlowInv'
  <2>1. \A k : InHand(k)' = InHand(k)
    BY <1>1, <1>2 DEF InHand
  <2>2. Reached' = Reached /\ (InStep' <=> InStep)
    BY <1>1 DEF Reached, InStep, Waiting
  <2>3. \A u, p, b, v : LastIs(u, p, b, v)' = LastIs(u, p, b, v)
    BY <1>1 DEF LastIs
  <2> QED BY <1>1, <1>4, <2>1, <2>2, <2>3 DEF RecInv, FlightInv, FlowInv, Waiting, IsFrame
<1> QED BY <1>5, <1>6, <1>7 DEF FlightInv

\* The batch reaches the database.
LEMMA CommitLands == ASSUME RecInv, Commit PROVE FlightInv'
<1>1. /\ rec.pc = "commit" /\ rec \in Sessions
      /\ tape' = [k \in DOMAIN tape |->
                    IF k \in rec.batch THEN [tape[k] EXCEPT !.stored = TRUE] ELSE tape[k]]
      /\ rec' = [rec EXCEPT !.batch = {},
                            !.pc = IF EndsInSkip(rec.batch) THEN "resubscribe" ELSE "wait"]
      /\ UNCHANGED <<book, ver, link, client>>
  BY DEF Commit, venueVars, RecInv, TypeInv
<1>2. /\ rec'.batch = {} /\ rec'.pc \in {"wait", "resubscribe"}
      /\ rec'.pc = "resubscribe" <=> EndsInSkip(rec.batch)
  BY <1>1 DEF Sessions
<1>3. Skipping' <=> Skipping
  BY <1>1, <1>2 DEF Skipping
<1>4. /\ tape \in Seq(Entry) /\ Len(tape) \in Nat /\ DOMAIN tape = 1..Len(tape)
      /\ rec.batch \subseteq 1..Len(tape)
  BY LenProperties DEF RecInv, TypeInv
<1>5. /\ tape' \in Seq(Entry) /\ Len(tape') = Len(tape) /\ DOMAIN tape' = 1..Len(tape)
      /\ \A k \in 1..Len(tape) : /\ SameEntry(tape[k], tape'[k])
                                 /\ tape'[k].stored <=> tape[k].stored \/ k \in rec.batch
  <2>1. \A e \in Entry : LET s == [e EXCEPT !.stored = TRUE]
                         IN  s \in Entry /\ SameEntry(e, s) /\ s.stored
    BY DEF Entry, SameEntry
  <2>2. \A k \in 1..Len(tape) : tape[k] \in Entry
    BY <1>4, ElementOfSeq
  <2>3. \A e \in Entry : SameEntry(e, e)
    BY DEF SameEntry
  <2>4. tape' = [k \in 1..Len(tape) |->
                    IF k \in rec.batch THEN [tape[k] EXCEPT !.stored = TRUE] ELSE tape[k]]
    BY <1>1, <1>4
  <2>5. \A k \in 1..Len(tape) : /\ tape'[k] \in Entry /\ SameEntry(tape[k], tape'[k])
                                /\ tape'[k].stored <=> tape[k].stored \/ k \in rec.batch
    <3>. SUFFICES ASSUME NEW k \in 1..Len(tape)
                  PROVE  /\ tape'[k] \in Entry /\ SameEntry(tape[k], tape'[k])
                         /\ tape'[k].stored <=> tape[k].stored \/ k \in rec.batch
      OBVIOUS
    <3>1. CASE k \in rec.batch
      <4>1. tape'[k] = [tape[k] EXCEPT !.stored = TRUE]
        BY <2>4, <3>1
      <4>2. tape'[k] \in Entry /\ SameEntry(tape[k], tape'[k]) /\ tape'[k].stored
        BY <2>1, <2>2, <4>1
      <4> QED BY <3>1, <4>2
    <3>2. CASE k \notin rec.batch
      <4>1. tape'[k] = tape[k]
        BY <2>4, <3>2
      <4> QED BY <2>2, <2>3, <3>2, <4>1
    <3> QED BY <3>1, <3>2
  <2> QED BY <1>4, <2>4, <2>5, SeqDef, LenProperties
<1>6. ASSUME NEW n \in 1..Len(tape), Whole(tape, n)
      PROVE  /\ Whole(tape', n) /\ Block(tape', n) = Block(tape, n)
             /\ Block(tape, n) \subseteq 1..Len(tape)
  <2>1. n \in Nat /\ \A k \in 1..n : SameEntry(tape[k], tape'[k])
    BY <1>4, <1>5
  <2>2. Whole(tape', n) /\ Block(tape', n) = Block(tape, n) /\ Block(tape, n) \subseteq 1..n
    BY <1>6, <2>1, WholeStays
  <2> QED BY <1>4, <2>2
<1>7. TapeInv(tape')
  <2>. SUFFICES ASSUME NEW n \in 1..Len(tape), tape'[n].stored, IsFrame(tape', n)
                PROVE  Whole(tape', n) /\ \A k \in Block(tape', n) : tape'[k].stored
    BY <1>5 DEF TapeInv
  <2>1. Whole(tape, n) /\ \A k \in Block(tape, n) : tape[k].stored \/ k \in rec.batch
    <3>1. IsFrame(tape, n) /\ (tape[n].stored \/ n \in rec.batch)
      BY <1>5 DEF IsFrame, SameEntry
    <3> QED BY <1>4, <3>1 DEF RecInv, FlightInv, TapeInv, BatchInv
  <2> QED BY <1>5, <1>6, <2>1
<1>8. BatchInv'
  BY <1>2 DEF BatchInv
<1>9. \A n \in DOMAIN tape : Untaken(n) =>
         n \in DOMAIN tape' /\ IsFrame(tape', n) /\ ~tape'[n].stored /\ n \notin rec'.batch
  BY <1>2, <1>4, <1>5 DEF Untaken, IsFrame, SameEntry
<1>10. ReadyInv'
  <2>. DEFINE at == client.ready.at
  <2>1. client.held # 0 => Untaken(client.held)'
    BY <1>1, <1>9 DEF RecInv, FlightInv, ReadyInv, Untaken
  <2>2. ASSUME client.ready.kind = "frame"
        PROVE  /\ client.ready = FrameEvent(at) /\ Untaken(at)'
               /\ ~Skipping =>
                     /\ Whole(tape', at)
                     /\ \A k \in Block(tape', at) \ {at} : tape'[k].stored
    <3>1. /\ client.ready = FrameEvent(at) /\ Untaken(at)
          /\ ~Skipping =>
                /\ Whole(tape, at)
                /\ \A k \in Block(tape, at) \ {at} : tape[k].stored \/ k \in rec.batch
      BY <2>2 DEF RecInv, FlightInv, ReadyInv
    <3>2. Untaken(at)' /\ at \in 1..Len(tape)
      BY <1>1, <1>4, <1>9, <3>1 DEF Untaken
    <3>3. ASSUME ~Skipping
          PROVE  Whole(tape', at) /\ \A k \in Block(tape', at) \ {at} : tape'[k].stored
      BY <1>5, <1>6, <3>1, <3>2, <3>3
    <3> QED BY <3>1, <3>2, <3>3
  <2> QED BY <1>1, <1>3, <2>1, <2>2 DEF RecInv, FlightInv, ReadyInv
<1>11. ClientInv' /\ LinkInv'
  BY <1>1, <1>2, <1>3 DEF RecInv, FlightInv, ClientInv, SkipReady, LossReady, LinkInv, Waiting
<1>12. FlowInv'
  <2>. SUFFICES ASSUME client.open, client.held = 0, ~Skipping PROVE FlowInv'
    BY <1>1, <1>3 DEF FlowInv
  <2>1. /\ client.seq <= Len(tape)
        /\ \A k \in Reached : /\ IsFrame(tape, k) /\ InHand(k)
                              /\ tape[k].seq = client.seq - (Len(tape) - k)
    BY DEF RecInv, FlightInv, FlowInv
  <2>2. Reached' = Reached /\ (InStep' <=> InStep) /\ Reached \subseteq 1..Len(tape)
    <3>1. client.seq \in Nat
      BY DEF RecInv, TypeInv, Clients
    <3> QED BY <1>1, <1>4, <1>5, <2>1, <3>1 DEF Reached, InStep, Waiting
  <2>3. \A k \in Reached : InHand(k)'
    BY <1>1, <1>5, <2>1, <2>2 DEF InHand
  <2>4. \A k \in 1..Len(tape) : /\ tape'[k].kind = tape[k].kind /\ tape'[k].ticker = tape[k].ticker
                                /\ tape'[k].seq = tape[k].seq /\ tape'[k].book = tape[k].book
                                /\ tape'[k].ver = tape[k].ver
    BY <1>5 DEF SameEntry
  <2>5. ASSUME NEW u, NEW p \in Reached, NEW b, NEW v, LastIs(u, p, b, v)
        PROVE  /\ tape'[p].ticker = u /\ \A k \in (p + 1)..Len(tape') : tape'[k].ticker # u
               /\ tape'[p].book = b /\ tape'[p].ver = v
    <3>1. p \in 1..Len(tape) /\ (p + 1)..Len(tape') \subseteq 1..Len(tape)
      BY <1>4, <1>5, <2>2
    <3> QED BY <1>5, <2>4, <2>5, <3>1 DEF LastIs
  <2>6. \A t : (\E p \in Reached : LastIs(t, p, book[t], ver[t])) =>
                  \E p \in Reached : LastIs(t, p, book[t], ver[t])'
    <3>. TAKE t
    <3>. DEFINE b == book[t]
                v == ver[t]
    <3>1. book' = book /\ ver' = ver
      BY <1>1
    <3>2. b' = b /\ v' = v
      BY <3>1
    <3>. HIDE DEF b, v
    <3>3. (\E p \in Reached : LastIs(t, p, b, v)) => \E p \in Reached : LastIs(t, p, b, v)'
      <4>. SUFFICES ASSUME NEW p \in Reached, LastIs(t, p, b, v)
                    PROVE  \E q \in Reached : LastIs(t, q, b, v)'
        OBVIOUS
      <4>1. /\ tape'[p].ticker = t /\ \A k \in (p + 1)..Len(tape') : tape'[k].ticker # t
            /\ tape'[p].book = b /\ tape'[p].ver = v
        BY <2>5, Zenon
      <4>2. LastIs(t, p, b, v)'
        BY <3>2, <4>1 DEF LastIs
      <4> QED BY <4>2
    <3> QED BY <3>3 DEF b, v
  <2>8. LET m == Head(link.wire)
        IN  (\E p \in Reached : LastIs(m.ticker, p, m.book - m.size, m.ver - 1)) =>
               \E p \in Reached : LastIs(m.ticker, p, m.book - m.size, m.ver - 1)'
    <3>. DEFINE m == Head(link.wire)
                t == m.ticker
                b == m.book - m.size
                v == m.ver - 1
    <3>1. link' = link
      BY <1>1
    <3>2. t' = t /\ b' = b /\ v' = v
      BY <3>1
    <3>. HIDE DEF t, b, v
    <3>3. (\E p \in Reached : LastIs(t, p, b, v)) => \E p \in Reached : LastIs(t, p, b, v)'
      <4>. SUFFICES ASSUME NEW p \in Reached, LastIs(t, p, b, v)
                    PROVE  \E q \in Reached : LastIs(t, q, b, v)'
        OBVIOUS
      <4>1. /\ tape'[p].ticker = t /\ \A k \in (p + 1)..Len(tape') : tape'[k].ticker # t
            /\ tape'[p].book = b /\ tape'[p].ver = v
        BY <2>5, Zenon
      <4>2. LastIs(t, p, b, v)'
        BY <3>2, <4>1 DEF LastIs
      <4> QED BY <4>2
    <3> QED BY <3>3 DEF t, b, v
  <2>9. \A k \in Reached : /\ IsFrame(tape', k) /\ tape'[k].seq = client.seq - (Len(tape') - k)
                           /\ tape'[k].kind = tape[k].kind /\ tape'[k].ticker = tape[k].ticker
    BY <1>5, <2>1, <2>2, <2>4 DEF IsFrame
  <2> QED BY <1>1, <1>5, <2>1, <2>2, <2>3, <2>6, <2>8, <2>9 DEF RecInv, FlightInv, FlowInv, Waiting
<1> QED BY <1>7, <1>8, <1>10, <1>11, <1>12 DEF FlightInv

\* The session subscribes, batches and stores.
LEMMA SessionStep == ASSUME RecInv, Session PROVE FlightInv'
<1>0. TypeInv /\ TapeInv(tape)
  BY DEF RecInv, FlightInv
<1>1. CASE Refresh
  <2>1. Desired \in SUBSET Tickers /\ Subscribe(Desired) /\ UNCHANGED <<tape, book, ver>>
    BY <1>1 DEF Refresh, Desired, venueVars
  <2> QED BY <1>0, <2>1, SubscribeLands
<1>2. CASE Take
  BY <1>2, TakeFrame, TakeGap
<1>3. CASE EndBatch
  BY <1>3, EndLands
<1>4. CASE Commit
  BY <1>4, CommitLands
<1>5. CASE Resubscribe
  <2>1. /\ rec.subscribed \in SUBSET Tickers /\ Subscribe(rec.subscribed)
        /\ UNCHANGED <<tape, book, ver>>
    BY <1>0, <1>5 DEF Resubscribe, TypeInv, Sessions, venueVars
  <2> QED BY <1>0, <2>1, SubscribeLands
<1>6. CASE Start
  <2>1. /\ rec.pc = "off" /\ rec \in Sessions /\ rec' = [rec EXCEPT !.pc = "wait"]
        /\ UNCHANGED <<tape, book, ver, client, link>>
    BY <1>0, <1>6 DEF Start, TypeInv, venueVars
  <2>2. rec'.pc = "wait" /\ rec'.batch = rec.batch /\ rec.batch = {} /\ client = Closed /\ link = NoLink
    <3>1. client = Closed /\ rec.batch = {} /\ ~Closed.open
      BY <2>1 DEF RecInv, FlightInv, ClientInv, BatchInv, Closed
    <3> QED BY <2>1, <3>1 DEF Sessions, RecInv, FlightInv, ClientInv
  <2>3. client' = Closed /\ {} \in SUBSET Tickers
    BY <2>1, <2>2
  <2>4. link' = NoLink
    BY <2>1, <2>2
  <2> QED BY <1>0, <2>1, <2>2, <2>3, <2>4, EmptyHands
<1> QED BY <1>1, <1>2, <1>3, <1>4, <1>5, <1>6 DEF Session

\* The session dies.
LEMMA StopStep == ASSUME RecInv, Stop PROVE FlightInv'
<1>1. TypeInv /\ TapeInv(tape) /\ UNCHANGED <<tape, book, ver>> /\ link' = NoLink
  BY DEF RecInv, FlightInv, Stop, venueVars
<1>2. rec'.batch = {} /\ rec'.pc = "off" /\ {} \in SUBSET Tickers
  BY DEF Stop, Off
<1>3. client' = Closed
  BY DEF Stop
<1> QED BY <1>1, <1>2, <1>3, EmptyHands

\* An empty tape, and nobody connected.
LEMMA FlightInit == Init => FlightInv
<1>. SUFFICES ASSUME Init PROVE FlightInv
  OBVIOUS
<1>1. rec.pc = "off" /\ rec.batch = {} /\ client = Closed /\ link = NoLink /\ tape = <<>>
  BY DEF Init, Off
<1>2. ~client.open /\ client.ready = NoEvent /\ client.ready.kind = "none"
      /\ client.held = 0 /\ ~client.gap /\ client.seq = 0
  BY <1>1 DEF Closed, NoEvent
<1>3. ~Skipping /\ DOMAIN tape = {}
  BY <1>1 DEF Skipping
<1>4. TapeInv(tape) /\ BatchInv /\ ReadyInv /\ ClientInv
  BY <1>1, <1>2, <1>3 DEF TapeInv, BatchInv, ReadyInv, ClientInv, SkipReady, LossReady
<1>5. LinkInv /\ FlowInv
  BY <1>1, <1>2, NothingOnWire DEF LinkInv, FlowInv, Waiting
<1> QED BY <1>4, <1>5 DEF FlightInv

\* The invariant holds in every run.
LEMMA RecInvHolds == Spec => []RecInv
<1>1. Init => RecInv
  BY TypeInit, FlightInit DEF RecInv
<1>2. RecInv /\ [Next]_vars => RecInv'
  <2>. SUFFICES ASSUME RecInv, [Next]_vars PROVE RecInv'
    OBVIOUS
  <2>1. TypeInv'
    BY TypeStep DEF RecInv, FlightInv
  <2>2. CASE UNCHANGED vars
    BY <2>2 DEF vars, venueVars, RecInv, FlightInv, TypeInv, VenueTypes, TapeInv, BatchInv, ReadyInv,
                Untaken, ClientInv, LinkInv, FlowInv, Skipping, EndsInSkip, SkipReady, LossReady,
                Waiting, InStep, Reached, InHand, LastIs, IsFrame
  <2>3. FlightInv'
    BY <2>2, VenueStep, ClientStep, SessionStep, StopStep DEF Next, RecInv
  <2> QED BY <2>1, <2>3 DEF RecInv
<1> QED BY <1>1, <1>2, PTL DEF Spec

-----------------------------------------------------------------------------
(***************************************************************************)
(* What stands on a tape                                                   *)
(***************************************************************************)

\* Positions and entries.
LEMMA TapeFacts ==
    ASSUME NEW T \in Seq(Entry)
    PROVE  /\ Len(T) \in Nat /\ DOMAIN T = 1..Len(T)
           /\ \A n \in 1..Len(T) :
                 /\ T[n].kind \in {"snapshot", "delta", "gap"} /\ T[n].seq \in Nat
                 /\ T[n].size \in Int /\ T[n].book \in 0..MaxSize /\ T[n].book \in Int
                 /\ T[n].ver \in Int /\ T[n].ticker \in Tickers \cup {ALL}
           /\ \A n \in Rows(T) : n \in 1..Len(T) /\ T[n].stored /\ IsFrame(T, n)
           /\ \A t : RowsOf(T, t) = {n \in Rows(T) : T[n].ticker = t}
<1>1. Len(T) \in Nat /\ DOMAIN T = 1..Len(T) /\ \A n \in 1..Len(T) : T[n] \in Entry
  BY LenProperties, ElementOfSeq
<1>2. -MaxSize..MaxSize \subseteq Int /\ 0..MaxSize \subseteq Int
  BY TapeAssumption
<1>3. \A e \in Entry : /\ e.kind \in {"snapshot", "delta", "gap"} /\ e.seq \in Nat
                        /\ e.size \in Int /\ e.book \in 0..MaxSize /\ e.book \in Int
                        /\ e.ver \in Int /\ e.ticker \in Tickers \cup {ALL}
  BY <1>2 DEF Entry
<1>4. \A n \in Rows(T) : n \in 1..Len(T) /\ T[n].stored /\ IsFrame(T, n)
  BY <1>1 DEF Rows, IsRow, IsFrame
<1>5. \A t : RowsOf(T, t) = {n \in Rows(T) : T[n].ticker = t}
  BY DEF RowsOf
<1>6. \A n \in 1..Len(T) :
         /\ T[n].kind \in {"snapshot", "delta", "gap"} /\ T[n].seq \in Nat
         /\ T[n].size \in Int /\ T[n].book \in 0..MaxSize /\ T[n].book \in Int
         /\ T[n].ver \in Int /\ T[n].ticker \in Tickers \cup {ALL}
  BY <1>1, <1>3
<1> QED BY <1>1, <1>4, <1>5, <1>6

\* A stored frame has its rows, or is an empty snapshot.
LEMMA StoredFrame ==
    ASSUME NEW T \in Seq(Entry), TapeInv(T), NEW n \in DOMAIN T, T[n].stored, IsFrame(T, n)
    PROVE  /\ n \in 1..Len(T) /\ Whole(T, n) /\ T[n].ticker \in Tickers
           /\ T[n].seq \in 1..n /\ Block(T, n) \subseteq 1..n /\ n \in Block(T, n)
           /\ \A k \in Block(T, n) : /\ k \in DOMAIN T /\ T[k].stored /\ IsFrame(T, k)
                                     /\ T[k].seq = T[n].seq - (n - k)
           /\ T[n].kind = "snapshot" => T[n].size = T[n].book
           /\ n \notin Rows(T) => /\ n \in ClearFrames(T, T[n].ticker)
                                  /\ T[n].book = 0 /\ T[n].kind = "snapshot"
<1>1. n \in 1..Len(T) /\ Len(T) \in Nat
  BY TapeFacts
<1>2. Whole(T, n) /\ \A k \in Block(T, n) : T[k].stored
  BY DEF TapeInv
<1>3. /\ T[n].ticker \in Tickers /\ T[n].seq \in 1..n
      /\ \A k \in Block(T, n) : T[k].kind # "gap" /\ T[k].seq = T[n].seq - (n - k)
      /\ T[n].kind = "snapshot" => T[n].size = T[n].book
  BY <1>2 DEF Whole
<1>4. Block(T, n) \subseteq 1..n /\ n \in Block(T, n) /\ 1..n \subseteq DOMAIN T
  BY <1>1, <1>3, TapeFacts DEF Block
<1>5. ASSUME n \notin Rows(T)
      PROVE  n \in ClearFrames(T, T[n].ticker) /\ T[n].book = 0 /\ T[n].kind = "snapshot"
  <2>1. T[n].kind = "snapshot" /\ ~(T[n].size > 0)
    BY <1>1, <1>5, TapeFacts DEF Rows, IsRow, IsFrame
  <2>2. T[n].size = 0 /\ T[n].book = 0
    BY <1>1, <1>3, <2>1, TapeFacts, TapeAssumption
  <2> QED BY <2>1, <2>2 DEF ClearFrames
<1> QED BY <1>1, <1>2, <1>3, <1>4, <1>5 DEF IsFrame

\* Every delta follows the last frame of its market.
LEMMA DeltaFollows ==
    ASSUME NEW T \in Seq(Entry), TapeInv(T), NEW n \in Rows(T), T[n].kind = "delta"
    PROVE  \E p \in Block(T, n) :
              /\ p \in 1..(n - 1) /\ p \in DOMAIN T /\ T[p].stored /\ IsFrame(T, p)
              /\ T[p].ticker = T[n].ticker /\ \A k \in (p + 1)..(n - 1) : T[k].ticker # T[n].ticker
              /\ T[n].book = T[p].book + T[n].size /\ T[n].ver = T[p].ver + 1
              /\ Block(T, p) \subseteq Block(T, n)
<1>1. /\ n \in 1..Len(T) /\ Whole(T, n) /\ Block(T, n) \subseteq 1..n /\ T[n].seq \in 1..n
      /\ \A k \in Block(T, n) : /\ k \in DOMAIN T /\ T[k].stored /\ IsFrame(T, k)
                                /\ T[k].seq = T[n].seq - (n - k)
  BY TapeFacts, StoredFrame
<1>2. PICK p \in Block(T, n) \ {n} :
              /\ T[p].ticker = T[n].ticker
              /\ \A k \in (p + 1)..(n - 1) : T[k].ticker # T[n].ticker
              /\ T[n].book = T[p].book + T[n].size
              /\ T[n].ver = T[p].ver + 1
  BY <1>1 DEF Whole
<1>3. p \in 1..(n - 1)
  BY <1>1, <1>2
<1>4. Block(T, p) \subseteq Block(T, n)
  <2>. DEFINE z == T[n].seq
  <2>1. z \in Int /\ n \in Int /\ p \in Int /\ p < n /\ T[p].seq = z - (n - p)
    BY <1>1, <1>2, <1>3
  <2>2. Block(T, p) = (p + 1 - (z - (n - p)))..p /\ Block(T, n) = (n + 1 - z)..n
    BY <2>1 DEF Block
  <2>. HIDE DEF z
  <2>3. (p + 1 - (z - (n - p)))..p \subseteq (n + 1 - z)..n
    BY <2>1
  <2> QED BY <2>2, <2>3
<1> QED BY <1>1, <1>2, <1>3, <1>4

\* What Latest picks.
LEMMA LatestTakes ==
    ASSUME NEW n \in Nat, NEW S \in SUBSET (1..n)
    PROVE  /\ Latest(S) \in S \cup {0} /\ Latest(S) \in Nat
           /\ \A x \in S : x <= Latest(S)
           /\ S # {} => Latest(S) \in S
<1>1. S \cup {0} \in SUBSET (0..n) /\ S \cup {0} # {}
  OBVIOUS
<1>2. Max(S \cup {0}) \in S \cup {0} /\ \A x \in S \cup {0} : x <= Max(S \cup {0})
  BY <1>1, MaxTakes
<1>. DEFINE l == Latest(S)
<1>3. l \in S \cup {0} /\ \A x \in S : x <= l
  BY <1>2 DEF Latest
<1>. HIDE DEF l
<1>4. l \in Nat /\ (S # {} => l \in S)
  <2>1. l \in Nat
    BY <1>3
  <2>2. ASSUME NEW x \in S PROVE l \in S
    <3>1. x \in 1..n /\ x <= l
      BY <1>3
    <3>2. l # 0
      BY <2>1, <3>1
    <3> QED BY <1>3, <3>2
  <2> QED BY <2>1, <2>2
<1> QED BY <1>3, <1>4 DEF l

\* The row before a position.
LEMMA PrevRowTakes ==
    ASSUME NEW T \in Seq(Entry), NEW i \in Nat
    PROVE  /\ PrevRow(T, i) \in Nat
           /\ PrevRow(T, i) # 0 => PrevRow(T, i) \in Rows(T) /\ PrevRow(T, i) < i
           /\ \A r \in Rows(T) : r < i => r <= PrevRow(T, i) /\ PrevRow(T, i) # 0
<1>. DEFINE S == {r \in Rows(T) : r < i}
<1>1. S \in SUBSET (1..Len(T)) /\ Len(T) \in Nat
  BY TapeFacts
<1>. HIDE DEF S
<1>2. /\ Latest(S) \in S \cup {0} /\ Latest(S) \in Nat
      /\ \A x \in S : x <= Latest(S)
      /\ S # {} => Latest(S) \in S
  BY <1>1, LatestTakes
<1>3. PrevRow(T, i) = Latest(S) /\ 0 \notin S
  BY <1>1 DEF PrevRow, S
<1> QED BY <1>2, <1>3 DEF S

\* The snapshot that a replay starts from.
LEMMA AnchorTakes ==
    ASSUME NEW T \in Seq(Entry), NEW t, NEW at \in Nat
    PROVE  LET a == Anchor(T, t, at)
           IN  /\ a \in Nat
               /\ a # 0 => a \in RowsOf(T, t) /\ a <= at /\ T[a].kind = "snapshot"
               /\ \A r \in RowsOf(T, t) : r <= at /\ T[r].kind = "snapshot" => r <= a /\ a # 0
<1>. DEFINE S == {r \in RowsOf(T, t) : r <= at /\ T[r].kind = "snapshot"}
            a == Anchor(T, t, at)
<1>1. S \in SUBSET (1..Len(T)) /\ Len(T) \in Nat
  BY TapeFacts
<1>2. a = Latest(S)
  BY DEF Anchor
<1>. HIDE DEF S, a
<1>3. /\ Latest(S) \in S \cup {0} /\ Latest(S) \in Nat
      /\ \A x \in S : x <= Latest(S)
      /\ S # {} => Latest(S) \in S
  BY <1>1, LatestTakes
<1>4. 0 \notin S
  BY <1>1
<1>5. /\ a \in Nat /\ (a # 0 => a \in S) /\ \A r \in S : r <= a /\ a # 0
  BY <1>2, <1>3, <1>4
<1>6. /\ a \in Nat
      /\ a # 0 => a \in RowsOf(T, t) /\ a <= at /\ T[a].kind = "snapshot"
      /\ \A r \in RowsOf(T, t) : r <= at /\ T[r].kind = "snapshot" => r <= a /\ a # 0
  BY <1>5 DEF S
<1> QED BY <1>6 DEF a

-----------------------------------------------------------------------------
(***************************************************************************)
(* Losses, gaps and skipped numbers on a tape                              *)
(***************************************************************************)

\* A row whose predecessor on the tape is another row of its subscription is
\* no boundary: boundaries are where the numbers begin again.
LEMMA BoundaryBegins ==
    ASSUME NEW T \in Seq(Entry), TapeInv(T), NEW b \in Rows(T), PrevRow(T, b) # 0
    PROVE  /\ T[b].seq = 1 => IsBoundary(T, b)
           /\ b - 1 \in Rows(T) /\ T[b].seq = T[b - 1].seq + 1 => ~IsBoundary(T, b)
<1>1. /\ b \in 1..Len(T) /\ PrevRow(T, b) \in Rows(T) /\ PrevRow(T, b) < b /\ PrevRow(T, b) \in Nat
      /\ \A r \in Rows(T) : r < b => r <= PrevRow(T, b)
      /\ Len(T) \in Nat
  BY TapeFacts, PrevRowTakes
<1>2. T[PrevRow(T, b)].seq \in 1..PrevRow(T, b) /\ T[b].seq \in Nat
  BY <1>1, TapeFacts, StoredFrame
<1>3. T[b].seq = 1 => IsBoundary(T, b)
  BY <1>1, <1>2 DEF IsBoundary
<1>4. ASSUME b - 1 \in Rows(T), T[b].seq = T[b - 1].seq + 1
      PROVE  ~IsBoundary(T, b)
  <2>1. PrevRow(T, b) = b - 1
    BY <1>1, <1>4
  <2> QED BY <1>2, <1>4, <2>1 DEF IsBoundary
<1> QED BY <1>3, <1>4

\* A book that a tape replays lost a change: it lies in a blind window.
LEMMA LossIsBlind ==
    ASSUME NEW T \in Seq(Entry), TapeInv(T), NEW t \in Tickers, NEW i \in RowsOf(T, t),
           NEW n \in RowsOf(T, t), i < n, \A r \in RowsOf(T, t) : i < r => n <= r,
           T[n].ver # T[i].ver + (IF T[n].kind = "delta" THEN 1 ELSE 0),
           \A u \in Tickers : ClearFrames(T, u) \cap (i..n) = {}
    PROVE  \E w \in BlindWindows(T) : i <= w.start /\ n <= w.end
<1>1. /\ i \in Rows(T) /\ n \in Rows(T) /\ i \in 1..Len(T) /\ n \in 1..Len(T) /\ Len(T) \in Nat
      /\ T[i].ticker = t /\ T[n].ticker = t /\ T[n].kind \in {"snapshot", "delta", "gap"}
      /\ DOMAIN T = 1..Len(T)
  BY TapeFacts
<1>2. ASSUME NEW k \in i..n, T[k].stored, IsFrame(T, k) PROVE k \in Rows(T)
  <2>1. k \in DOMAIN T
    BY <1>1
  <2>2. k \notin Rows(T) => k \in ClearFrames(T, T[k].ticker) /\ T[k].ticker \in Tickers
    BY <1>2, <2>1, StoredFrame
  <2> QED BY <2>2
<1>3. CASE T[n].kind = "delta"
  <2>1. PICK p \in Block(T, n) :
              /\ p \in 1..(n - 1) /\ p \in DOMAIN T /\ T[p].stored /\ IsFrame(T, p)
              /\ T[p].ticker = T[n].ticker /\ \A k \in (p + 1)..(n - 1) : T[k].ticker # T[n].ticker
              /\ T[n].book = T[p].book + T[n].size /\ T[n].ver = T[p].ver + 1
              /\ Block(T, p) \subseteq Block(T, n)
    BY <1>1, <1>3, DeltaFollows, Zenon
  <2>2. ~(p < i)
    BY <1>1, <2>1
  <2>3. ASSUME p > i PROVE FALSE
    <3>1. p \in RowsOf(T, t)
      BY <1>1, <1>2, <2>1, <2>3, TapeFacts
    <3> QED BY <1>1, <2>1, <2>3, <3>1
  <2>4. p = i
    BY <1>1, <2>1, <2>2, <2>3
  <2> QED BY <1>3, <2>1, <2>4
<1>4. CASE T[n].kind = "snapshot"
  <2>1. /\ Whole(T, n) /\ T[n].seq \in 1..n /\ Block(T, n) \subseteq 1..n /\ n \in Block(T, n)
        /\ \A k \in Block(T, n) : /\ k \in DOMAIN T /\ T[k].stored /\ IsFrame(T, k)
                                  /\ T[k].seq = T[n].seq - (n - k)
    BY <1>1, TapeFacts, StoredFrame
  <2>2. \A k \in Block(T, n) \ {n} : T[k].kind = "snapshot" /\ T[k].ticker # t
    BY <1>1, <1>4, <2>1 DEF Whole
  <2>3. PICK b \in Int : b = n + 1 - T[n].seq
    BY <1>1, <2>1
  <2>4. Block(T, n) = b..n /\ b \in 1..n
    BY <1>1, <2>1, <2>3 DEF Block
  <2>5. i < b
    <3>1. i \notin Block(T, n)
      BY <1>1, <2>2
    <3> QED BY <1>1, <2>4, <3>1
  <2>6. \A k \in b..n : k \in Rows(T) /\ T[k].kind = "snapshot"
    <3>1. \A k \in b..n : k \in i..n
      BY <1>1, <2>4, <2>5
    <3> QED BY <1>2, <1>4, <2>1, <2>2, <2>4, <3>1
  <2>7. T[b].seq = 1 /\ b \in Rows(T) /\ T[b].kind = "snapshot"
    <3>1. b \in b..n
      BY <2>4
    <3>2. T[b].seq = T[n].seq - (n - b)
      BY <2>1, <2>4, <3>1
    <3>3. T[n].seq - (n - b) = 1
      <4>. DEFINE z == T[n].seq
      <4>1. z \in Int /\ n \in Int /\ b = n + 1 - z
        BY <1>1, <2>1, <2>3
      <4>. HIDE DEF z
      <4>2. z - (n - b) = 1
        BY <4>1
      <4> QED BY <4>2 DEF z
    <3> QED BY <2>6, <3>1, <3>2, <3>3
  <2>8. /\ PrevRow(T, b) \in Nat /\ PrevRow(T, b) # 0 /\ i <= PrevRow(T, b)
    BY <1>1, <2>4, <2>5, PrevRowTakes
  <2>9. IsBoundary(T, b)
    BY <2>7, <2>8, BoundaryBegins
  <2>10. \A q \in Rows(T) \cap ((b + 1)..n) : T[q].kind = "snapshot" /\ ~IsBoundary(T, q)
    <3>. SUFFICES ASSUME NEW q \in (b + 1)..n PROVE T[q].kind = "snapshot" /\ ~IsBoundary(T, q)
      OBVIOUS
    <3>1. q \in b..n /\ q - 1 \in b..n /\ q \in Nat
      BY <1>1, <2>4
    <3>2. /\ q \in Rows(T) /\ q - 1 \in Rows(T) /\ T[q].kind = "snapshot"
          /\ T[q].seq = T[n].seq - (n - q) /\ T[q - 1].seq = T[n].seq - (n - (q - 1))
      BY <2>1, <2>4, <2>6, <3>1
    <3>3. T[q].seq = T[q - 1].seq + 1
      BY <1>1, <2>1, <3>1, <3>2
    <3>4. PrevRow(T, q) # 0
      BY <3>1, <3>2, PrevRowTakes
    <3> QED BY <3>2, <3>3, <3>4, BoundaryBegins
  <2>11. n <= BurstEnd(T, b)
    <3>. DEFINE R == {r \in Rows(T) :
                       /\ r >= b
                       /\ \A q \in Rows(T) \cap ((b + 1)..r) :
                             T[q].kind = "snapshot" /\ ~IsBoundary(T, q)}
    <3>1. n \in R
      BY <1>1, <2>4, <2>10
    <3>2. R \in SUBSET (0..Len(T))
      BY TapeFacts
    <3>3. BurstEnd(T, b) = Max(R)
      BY <2>7 DEF BurstEnd
    <3>. HIDE DEF R
    <3>4. n <= Max(R)
      BY <1>1, <3>1, <3>2, MaxTakes
    <3> QED BY <3>3, <3>4
  <2>12. [start |-> PrevRow(T, b), end |-> BurstEnd(T, b)] \in BlindWindows(T)
    BY <2>7, <2>9 DEF BlindWindows
  <2> QED BY <2>8, <2>11, <2>12
<1> QED BY <1>1, <1>3, <1>4, TapeFacts DEF IsFrame

\* The gap row finds the boundary behind it.
LEMMA GapFindsWindow ==
    ASSUME NEW T \in Seq(Entry), TapeInv(T), NEW g \in DOMAIN T, T[g].kind = "gap",
           \A t \in Tickers : ClearFrames(T, t) = {}
    PROVE  AttachedTo(T, g) \subseteq {PrevRow(T, g)}
<1>. DEFINE S == {w.start : w \in {v \in BlindWindows(T) : v.start <= g}}
            start == Latest(S)
<1>1. g \in 1..Len(T) /\ Len(T) \in Nat /\ Rows(T) \subseteq 1..Len(T) /\ g \notin Rows(T)
  BY TapeFacts DEF IsFrame
<1>3. PICK s \in Nat :
         /\ s = PrevRow(T, g)
         /\ s # 0 => s \in Rows(T) /\ s < g
         /\ \A r \in Rows(T) : r < g => r <= s /\ s # 0
  <2>1. g \in Nat
    BY <1>1
  <2> QED BY <2>1, PrevRowTakes, Zenon
<1>2. s = PrevRow(T, g)
  BY <1>3
<1>4. AttachedTo(T, g) \subseteq IF start = 0 \/ g > Latest(Rows(T)) THEN {} ELSE {start}
  BY DEF AttachedTo
<1>5. ASSUME NEW x \in S PROVE x \in Rows(T) /\ x <= s
  <2>1. PICK b \in Rows(T) : IsBoundary(T, b) /\ x = PrevRow(T, b) /\ x <= g
    BY DEF BlindWindows
  <2>2. x \in Rows(T)
    BY <1>1, <2>1, PrevRowTakes DEF IsBoundary
  <2> QED BY <1>1, <1>3, <2>1, <2>2
<1>6. S \in SUBSET (1..Len(T))
  BY <1>1, <1>5
<1>. HIDE DEF S
<1>7. /\ start \in S \cup {0} /\ start \in Nat /\ \A x \in S : x <= start
      /\ Latest(Rows(T)) \in Rows(T) \cup {0}
  BY <1>1, <1>6, LatestTakes
<1>. HIDE DEF start
<1>8. ASSUME start # 0, ~(g > Latest(Rows(T))) PROVE start = s
  <2>. DEFINE after == {r \in Rows(T) : r > g}
  <2>1. after \in SUBSET Nat /\ after # {}
    BY <1>1, <1>7, <1>8
  <2>2. PICK r \in after : \A q \in after : r <= q
    BY <2>1, LeastNatural
  <2>3. /\ r \in Rows(T) /\ r > g /\ r \in Nat /\ r \in 1..Len(T)
        /\ \A q \in Rows(T) : q < r => q < g
    BY <1>1, <2>2
  <2>4. /\ T[r].seq \in 1..r /\ Block(T, r) \subseteq 1..r
        /\ \A k \in Block(T, r) : k \in DOMAIN T /\ T[k].stored /\ IsFrame(T, k)
    BY <2>3, TapeFacts, StoredFrame
  <2>5. \A k \in Block(T, r) : k \in Rows(T)
    BY <2>4, StoredFrame
  <2>6. T[r].seq = 1
    <3>. SUFFICES ASSUME T[r].seq > 1 PROVE FALSE
      BY <2>3, <2>4
    <3>1. r - 1 \in Block(T, r)
      BY <2>3, <2>4 DEF Block
    <3>2. r - 1 \in Rows(T) /\ r - 1 >= g
      BY <1>1, <2>3, <2>5, <3>1
    <3> QED BY <2>3, <3>2
  <2>7. start <= s /\ start \in S /\ s # 0
    BY <1>2, <1>5, <1>6, <1>7, <1>8
  <2>8. PrevRow(T, r) = s
    <3>1. /\ PrevRow(T, r) \in Nat
          /\ PrevRow(T, r) # 0 => PrevRow(T, r) \in Rows(T) /\ PrevRow(T, r) < r
          /\ \A q \in Rows(T) : q < r => q <= PrevRow(T, r) /\ PrevRow(T, r) # 0
      BY <2>3, PrevRowTakes
    <3>2. s \in Rows(T) /\ s < r /\ s < g
      BY <1>1, <1>3, <2>3, <2>7
    <3>3. s <= PrevRow(T, r) /\ PrevRow(T, r) \in Rows(T) /\ PrevRow(T, r) < r
      BY <3>1, <3>2
    <3>4. PrevRow(T, r) <= s
      BY <1>3, <2>3, <3>3
    <3> QED BY <3>1, <3>3, <3>4
  <2>9. IsBoundary(T, r)
    BY <2>3, <2>6, <2>7, <2>8, BoundaryBegins
  <2>10. s \in S
    <3>1. [start |-> PrevRow(T, r), end |-> BurstEnd(T, r)] \in BlindWindows(T)
      BY <2>3, <2>9 DEF BlindWindows
    <3>2. s <= g
      BY <1>1, <1>3, <2>7
    <3> QED BY <2>8, <3>1, <3>2 DEF S
  <2> QED BY <1>2, <1>7, <2>7, <2>10
<1> QED BY <1>2, <1>4, <1>8

\* A skipped number of the rows is an empty snapshot.
LEMMA SkipsExplained ==
    ASSUME NEW T \in Seq(Entry), TapeInv(T)
    PROVE  SkipsAreExplained(T)
<1>. SUFFICES ASSUME NEW r \in Rows(T), PrevRow(T, r) # 0, T[r].seq # T[PrevRow(T, r)].seq + 1,
                     T[r].seq > T[PrevRow(T, r)].seq
              PROVE  \E i \in PrevRow(T, r)..r : \E t \in Tickers : i \in ClearFrames(T, t)
  BY DEF SkipsAreExplained, SeqBoundaries
<1>1. /\ r \in 1..Len(T) /\ Len(T) \in Nat /\ PrevRow(T, r) \in Nat
      /\ PrevRow(T, r) \in Rows(T) /\ PrevRow(T, r) < r
      /\ \A q \in Rows(T) : q < r => q <= PrevRow(T, r)
  BY TapeFacts, PrevRowTakes
<1>2. /\ T[r].seq \in 1..r /\ T[PrevRow(T, r)].seq \in 1..PrevRow(T, r)
      /\ \A k \in Block(T, r) : /\ k \in DOMAIN T /\ T[k].stored /\ IsFrame(T, k)
                                /\ T[k].seq = T[r].seq - (r - k)
  BY <1>1, TapeFacts, StoredFrame
<1>3. r - 1 \in Block(T, r)
  BY <1>1, <1>2 DEF Block
<1>4. r - 1 \notin Rows(T)
  <2>. SUFFICES ASSUME r - 1 \in Rows(T) PROVE FALSE
    OBVIOUS
  <2>1. PrevRow(T, r) = r - 1
    BY <1>1
  <2>2. T[r - 1].seq = T[r].seq - (r - (r - 1))
    BY <1>2, <1>3
  <2> QED BY <1>1, <1>2, <2>1, <2>2
<1>5. r - 1 \in ClearFrames(T, T[r - 1].ticker) /\ T[r - 1].ticker \in Tickers
  BY <1>2, <1>3, <1>4, StoredFrame
<1>6. r - 1 \in PrevRow(T, r)..r
  BY <1>1
<1> QED BY <1>5, <1>6

-----------------------------------------------------------------------------
(***************************************************************************)
(* The replays of a tape                                                   *)
(***************************************************************************)

\* A level after one more position of the tape.
Replayed(T, t, i, x) ==
    IF i \in RowsOf(T, t) /\ T[i].kind = "delta" /\ x >= 0 THEN x + T[i].size ELSE x

Walked(T, t, i, x) ==
    IF i \notin RowsOf(T, t) \/ x < 0 THEN x
    ELSE IF T[i].kind = "snapshot" THEN T[i].size ELSE x + T[i].size

\* g follows book_state_at from the snapshot at a on, and the pass.
Follows(T, t, a, g) ==
    /\ g[a] = T[a].size
    /\ \A i \in (a + 1)..Len(T) : g[i] = Replayed(T, t, i, g[i - 1])
    /\ \A at \in a..Len(T) : Anchor(T, t, at) = a => Folded(T, t, at) = g[at]

FollowsPass(T, t, g) ==
    /\ g[0] = 0
    /\ \A i \in 1..Len(T) : g[i] = Walked(T, t, i, g[i - 1])
    /\ \A at : Position(at) \in 0..Len(T) => PassBook(T, t, at) = g[Position(at)]

\* book_state_at follows one walk from its snapshot on.
LEMMA FoldedWalk ==
    ASSUME NEW T \in Seq(Entry), NEW t, NEW a \in DOMAIN T
    PROVE  \E g \in [a..Len(T) -> Int] : Follows(T, t, a, g)
<1>. DEFINE n == Len(T) - a
            step == [k \in 1..n |-> [x \in Int |-> Replayed(T, t, a + k, x)]]
<1>1. a \in 1..Len(T) /\ Len(T) \in Nat /\ n \in Nat /\ T[a].size \in Int
  BY TapeFacts
<1>2. \A i \in 1..Len(T) : \A x \in Int : Replayed(T, t, i, x) \in Int
  BY TapeFacts DEF Replayed
<1>3. step \in [1..n -> [Int -> Int]]
  <2>1. \A k \in 1..n : a + k \in 1..Len(T)
    BY <1>1
  <2> QED BY <1>2, <2>1
<1>. HIDE DEF n, step
<1>4. PICK h \in [0..n -> Int] : Unrolls(h, T[a].size, step, n)
  BY <1>1, <1>3, UnrollsExists
<1>5. h[0] = T[a].size /\ \A k \in 1..n : h[k] = Replayed(T, t, a + k, h[k - 1])
  <2>1. \A k \in 1..n : h[k] = step[k][h[k - 1]] /\ h[k - 1] \in Int
    BY <1>1, <1>4 DEF Unrolls
  <2> QED BY <1>4, <2>1 DEF Unrolls, step
<1>. DEFINE g == [i \in a..Len(T) |-> h[i - a]]
<1>6. g \in [a..Len(T) -> Int]
  BY <1>1 DEF n
<1>7. g[a] = T[a].size
  BY <1>1, <1>5
<1>8. ASSUME NEW i \in (a + 1)..Len(T) PROVE g[i] = Replayed(T, t, i, g[i - 1])
  <2>1. i - a \in 1..n /\ a + (i - a) = i /\ (i - a) - 1 = (i - 1) - a
        /\ i \in a..Len(T) /\ i - 1 \in a..Len(T)
    BY <1>1 DEF n
  <2>2. g[i] = h[i - a] /\ g[i - 1] = h[(i - 1) - a]
    BY <2>1
  <2> QED BY <1>5, <2>1, <2>2
<1>. HIDE DEF g
<1>9. ASSUME NEW at \in a..Len(T), Anchor(T, t, at) = a
      PROVE  Folded(T, t, at) = g[at]
  <2>. DEFINE R(f) == f = [i \in a..at |->
                             IF i = a THEN T[a].size
                             ELSE IF i \in RowsOf(T, t) /\ T[i].kind = "delta" /\ f[i - 1] >= 0
                                  THEN f[i - 1] + T[i].size
                                  ELSE f[i - 1]]
              c == CHOOSE f : R(f)
              r == [i \in a..at |-> g[i]]
  <2>1. Folded(T, t, at) = c[at]
    BY <1>9 DEF Folded
  <2>2. at \in Int /\ a \in Int /\ a <= at /\ at <= Len(T)
    BY <1>1
  <2>3. R(r)
    <3>1. ASSUME NEW i \in a..at, i # a
          PROVE  r[i] = IF i \in RowsOf(T, t) /\ T[i].kind = "delta" /\ r[i - 1] >= 0
                        THEN r[i - 1] + T[i].size ELSE r[i - 1]
      <4>1. i \in (a + 1)..Len(T) /\ i - 1 \in a..at
        BY <1>1, <2>2, <3>1
      <4>2. r[i] = g[i] /\ r[i - 1] = g[i - 1]
        BY <4>1
      <4> QED BY <1>8, <4>1, <4>2 DEF Replayed
    <3>2. r[a] = T[a].size
      BY <1>7, <2>2
    <3> QED BY <3>1, <3>2
  <2>4. R(c)
    <3>. HIDE DEF R, r
    <3> QED BY <2>3
  <2>. HIDE DEF c
  <2>5. c[a] = T[a].size
    BY <2>2, <2>4
  <2>6. ASSUME NEW i \in (a + 1)..at
        PROVE  c[i] = IF i \in RowsOf(T, t) /\ T[i].kind = "delta" /\ c[i - 1] >= 0
                      THEN c[i - 1] + T[i].size ELSE c[i - 1]
    <3>1. i \in a..at /\ i # a
      BY <2>2
    <3> QED BY <2>4, <3>1
  <2>. HIDE DEF R, r
  <2>7. \A i \in a..at : c[i] = g[i]
    <3>. DEFINE Bad == {i \in a..at : c[i] # g[i]}
    <3>. SUFFICES ASSUME Bad # {} PROVE FALSE
      OBVIOUS
    <3>1. Bad \in SUBSET Nat
      BY <1>1
    <3>2. PICK i \in Bad : \A k \in Bad : i <= k
      BY <3>1, LeastNatural
    <3>3. i # a /\ i \in (a + 1)..at /\ i - 1 \in a..at /\ i \in (a + 1)..Len(T)
      BY <1>7, <2>2, <2>5, <3>2
    <3>4. c[i - 1] = g[i - 1]
      BY <2>2, <3>2, <3>3
    <3> QED BY <1>8, <2>6, <3>2, <3>3, <3>4 DEF Replayed
  <2> QED BY <2>1, <2>2, <2>7
<1> QED BY <1>6, <1>7, <1>8, <1>9 DEF Follows

\* The pass walks over all rows of the market.
LEMMA PassWalk ==
    ASSUME NEW T \in Seq(Entry), NEW t
    PROVE  \E g \in [0..Len(T) -> Int] : FollowsPass(T, t, g)
<1>. DEFINE n == Len(T)
            step == [k \in 1..n |-> [x \in Int |-> Walked(T, t, k, x)]]
<1>1. n \in Nat /\ 0 \in Int
  BY TapeFacts
<1>2. \A i \in 1..n : \A x \in Int : Walked(T, t, i, x) \in Int
  BY TapeFacts DEF Walked
<1>3. step \in [1..n -> [Int -> Int]]
  BY <1>2
<1>. HIDE DEF n, step
<1>4. PICK g \in [0..n -> Int] : Unrolls(g, 0, step, n)
  BY <1>1, <1>3, UnrollsExists
<1>5. g[0] = 0 /\ \A i \in 1..n : g[i] = Walked(T, t, i, g[i - 1])
  <2>1. \A k \in 1..n : g[k] = step[k][g[k - 1]] /\ g[k - 1] \in Int
    BY <1>1, <1>4 DEF Unrolls
  <2> QED BY <1>4, <2>1 DEF Unrolls, step
<1>6. ASSUME NEW at, Position(at) \in 0..n
      PROVE  PassBook(T, t, at) = g[Position(at)]
  <2>. DEFINE p == Position(at)
              R(f) == f = [i \in 0..p |->
                             IF i = 0 THEN 0
                             ELSE IF i \notin RowsOf(T, t) \/ f[i - 1] < 0 THEN f[i - 1]
                             ELSE IF T[i].kind = "snapshot" THEN T[i].size ELSE f[i - 1] + T[i].size]
              c == CHOOSE f : R(f)
              r == [i \in 0..p |-> g[i]]
  <2>1. PassBook(T, t, at) = c[p]
    BY DEF PassBook
  <2>2. p \in Nat /\ p <= n
    BY <1>1, <1>6
  <2>. HIDE DEF p
  <2>3. R(r)
    <3>1. ASSUME NEW i \in 0..p, i # 0
          PROVE  r[i] = IF i \notin RowsOf(T, t) \/ r[i - 1] < 0 THEN r[i - 1]
                        ELSE IF T[i].kind = "snapshot" THEN T[i].size ELSE r[i - 1] + T[i].size
      <4>1. i \in 1..n /\ i - 1 \in 0..p
        BY <1>1, <2>2, <3>1
      <4>2. r[i] = g[i] /\ r[i - 1] = g[i - 1]
        BY <4>1
      <4> QED BY <1>5, <4>1, <4>2 DEF Walked
    <3>2. r[0] = 0
      BY <1>5, <2>2
    <3> QED BY <3>1, <3>2
  <2>4. R(c)
    <3>. HIDE DEF R, r
    <3> QED BY <2>3
  <2>. HIDE DEF c
  <2>5. c[0] = 0
    BY <2>2, <2>4
  <2>6. ASSUME NEW i \in 1..p
        PROVE  c[i] = IF i \notin RowsOf(T, t) \/ c[i - 1] < 0 THEN c[i - 1]
                      ELSE IF T[i].kind = "snapshot" THEN T[i].size ELSE c[i - 1] + T[i].size
    <3>1. i \in 0..p /\ i # 0
      BY <2>2
    <3> QED BY <2>4, <3>1
  <2>. HIDE DEF R, r
  <2>7. \A i \in 0..p : c[i] = g[i]
    <3>. DEFINE Bad == {i \in 0..p : c[i] # g[i]}
    <3>. SUFFICES ASSUME Bad # {} PROVE FALSE
      OBVIOUS
    <3>1. Bad \in SUBSET Nat
      OBVIOUS
    <3>2. PICK i \in Bad : \A k \in Bad : i <= k
      BY <3>1, LeastNatural
    <3>3. i # 0 /\ i \in 1..p /\ i - 1 \in 0..p /\ i \in 1..n
      BY <1>1, <1>5, <2>2, <2>5, <3>2
    <3>4. c[i - 1] = g[i - 1]
      BY <2>2, <3>2, <3>3
    <3> QED BY <1>5, <2>6, <3>2, <3>3, <3>4 DEF Walked
  <2> QED BY <2>1, <2>2, <2>7 DEF p
<1> QED BY <1>4, <1>5, <1>6 DEF n, FollowsPass

\* Position q has the last stored frame of t up to position j.
FrameOf(T, t, k) == T[k].stored /\ IsFrame(T, k) /\ T[k].ticker = t

LastFrame(T, t, q, j) ==
    q \in 1..j /\ FrameOf(T, t, q) /\ \A k \in (q + 1)..j : ~FrameOf(T, t, k)

\* A delta takes up the book of the last stored frame before it.
TakesUp(T, t, n, p) ==
    /\ LastFrame(T, t, p, n - 1) /\ T[n].book = T[p].book + T[n].size
    /\ p \in DOMAIN T /\ p \in Block(T, n) /\ Block(T, p) \subseteq Block(T, n)

\* There is such a frame.
LEMMA DeltaTakesUp ==
    ASSUME NEW T \in Seq(Entry), TapeInv(T), NEW t, NEW n \in RowsOf(T, t), T[n].kind = "delta"
    PROVE  \E p \in 1..(n - 1) : TakesUp(T, t, n, p)
<1>1. n \in Rows(T) /\ T[n].ticker = t
  BY TapeFacts
<1>2. PICK p \in Block(T, n) :
              /\ p \in 1..(n - 1) /\ p \in DOMAIN T /\ T[p].stored /\ IsFrame(T, p)
              /\ T[p].ticker = T[n].ticker /\ \A k \in (p + 1)..(n - 1) : T[k].ticker # T[n].ticker
              /\ T[n].book = T[p].book + T[n].size /\ T[n].ver = T[p].ver + 1
              /\ Block(T, p) \subseteq Block(T, n)
  BY <1>1, DeltaFollows, Zenon
<1> QED BY <1>1, <1>2 DEF LastFrame, FrameOf, TakesUp

\* Where book_state_at answers, the level it folds is the venue's book.
LEMMA ReplayIsTrue ==
    ASSUME NEW T \in Seq(Entry), TapeInv(T), NEW t \in Tickers, NEW i \in RowsOf(T, t),
           Anchor(T, t, i) # 0, ~StaleAt(T, t, i)
    PROVE  Folded(T, t, i) = T[i].book
<1>0. i \in 1..Len(T) /\ Len(T) \in Nat /\ i \in Nat /\ i \in Rows(T) /\ T[i].ticker = t
  BY TapeFacts
<1>1. PICK a \in Nat : a = Anchor(T, t, i)
  BY <1>0, AnchorTakes
<1>2. /\ a \in RowsOf(T, t) /\ a <= i /\ T[a].kind = "snapshot" /\ a # 0
      /\ \A r \in RowsOf(T, t) : r <= i /\ T[r].kind = "snapshot" => r <= a
  BY <1>0, <1>1, AnchorTakes
<1>3. a \in Rows(T) /\ a \in 1..Len(T) /\ a \in DOMAIN T /\ T[a].ticker = t
  BY <1>2, TapeFacts
<1>4. PICK g \in [a..Len(T) -> Int] :
         /\ g[a] = T[a].size
         /\ \A j \in (a + 1)..Len(T) : g[j] = Replayed(T, t, j, g[j - 1])
         /\ \A at \in a..Len(T) : Anchor(T, t, at) = a => Folded(T, t, at) = g[at]
  <2>1. PICK g \in [a..Len(T) -> Int] : Follows(T, t, a, g)
    BY <1>3, FoldedWalk
  <2> QED BY <2>1 DEF Follows
<1>5. ASSUME NEW c \in a..i PROVE Anchor(T, t, c) = a
  <2>1. c \in Nat /\ a <= c /\ c <= i
    BY <1>0
  <2>2. PICK b \in Nat : b = Anchor(T, t, c)
    BY <2>1, AnchorTakes
  <2>3. /\ b # 0 => b \in RowsOf(T, t) /\ b <= c /\ T[b].kind = "snapshot"
        /\ \A r \in RowsOf(T, t) : r <= c /\ T[r].kind = "snapshot" => r <= b /\ b # 0
    BY <2>1, <2>2, AnchorTakes
  <2>4. a <= b /\ b # 0
    BY <1>2, <2>1, <2>3
  <2>5. b <= a
    BY <1>0, <1>2, <2>1, <2>2, <2>3, <2>4
  <2> QED BY <2>2, <2>4, <2>5
<1>6. FrameOf(T, t, a) /\ FrameOf(T, t, i)
  BY <1>0, <1>3, TapeFacts DEF FrameOf
<1>. DEFINE Bad == {j \in a..i : \E q \in a..j : LastFrame(T, t, q, j) /\ g[j] # T[q].book}
<1>7. Bad = {}
  <2>. SUFFICES ASSUME Bad # {} PROVE FALSE
    OBVIOUS
  <2>1. Bad \in SUBSET Nat
    BY <1>0
  <2>2. PICK j \in Bad : \A k \in Bad : j <= k
    BY <2>1, LeastNatural
  <2>3. PICK q \in a..j : LastFrame(T, t, q, j) /\ g[j] # T[q].book
    BY <2>2
  <2>4. j \in a..i /\ j \in 1..Len(T) /\ j \in DOMAIN T /\ j \in Nat /\ q \in Nat /\ q <= j /\ a <= q
    BY <1>0, <1>3, <2>2, <2>3, TapeFacts
  <2>5. CASE j = a
    <3>1. T[a].size = T[a].book /\ q = a
      <4>1. q = a
        BY <2>4, <2>5
      <4>2. T[a].size = T[a].book
        BY <1>2, <1>3, <1>6, StoredFrame DEF FrameOf
      <4> QED BY <4>1, <4>2
    <3> QED BY <1>4, <2>3, <2>5, <3>1
  <2>6. CASE j # a
    <3>1. j \in (a + 1)..Len(T) /\ j - 1 \in a..i /\ j - 1 \notin Bad
      <4>. DEFINE l == Len(T)
      <4>0. j \in Int /\ a \in Int /\ i \in Int /\ l \in Int /\ a <= j /\ j <= i /\ i <= l /\ j # a
        BY <1>0, <2>4, <2>6
      <4>. HIDE DEF l
      <4>1. j \in (a + 1)..l /\ j - 1 \in a..i /\ ~(j <= j - 1)
        BY <4>0
      <4>. HIDE DEF Bad
      <4> QED BY <2>2, <4>1 DEF l
    <3>2. g[j] = Replayed(T, t, j, g[j - 1])
      BY <1>4, <3>1
    <3>3. CASE ~FrameOf(T, t, j)
      <4>1. j \notin RowsOf(T, t)
        BY <3>3, TapeFacts DEF FrameOf
      <4>2. q # j
        BY <2>3, <3>3 DEF LastFrame
      <4>3. q \in a..(j - 1) /\ LastFrame(T, t, q, j - 1)
        BY <2>3, <2>4, <4>2 DEF LastFrame
      <4>4. g[j - 1] = T[q].book
        BY <3>1, <4>3
      <4> QED BY <2>3, <3>2, <4>1, <4>4 DEF Replayed
    <3>4. CASE FrameOf(T, t, j) /\ j \notin Rows(T)
      <4>1. q = j
        BY <2>3, <2>4, <3>4 DEF LastFrame
      <4>2. j \in ClearFrames(T, t) /\ T[j].book = 0
        BY <2>4, <3>4, StoredFrame DEF FrameOf
      <4>3. j < i
        BY <1>0, <2>4, <3>4
      <4>4. Anchor(T, t, j) = a /\ Folded(T, t, j) = g[j]
        BY <1>5, <2>4, <3>1, <1>4
      <4>5. j \in MidLife(T, t)
        BY <1>2, <2>3, <4>1, <4>2, <4>3, <4>4 DEF MidLife
      <4>6. a < j
        BY <2>4, <2>6, <1>0
      <4> QED BY <1>1, <4>3, <4>5, <4>6 DEF StaleAt
    <3>5. CASE j \in Rows(T) /\ T[j].ticker = t
      <4>1. j \in RowsOf(T, t) /\ FrameOf(T, t, j)
        BY <3>5, TapeFacts DEF FrameOf
      <4>2. q = j
        BY <2>3, <2>4, <4>1 DEF LastFrame
      <4>3. T[j].kind = "delta"
        <5>1. T[j].kind # "snapshot"
          BY <1>0, <1>2, <2>4, <2>6, <4>1
        <5> QED BY <2>4, <4>1, <5>1, TapeFacts DEF FrameOf, IsFrame
      <4>4. PICK p \in 1..(j - 1) : TakesUp(T, t, j, p)
        BY <4>1, <4>3, DeltaTakesUp
      <4>5. p \in a..(j - 1)
        <5>1. ASSUME p < a PROVE FALSE
          <6>1. a \in (p + 1)..(j - 1)
            BY <2>4, <3>1, <5>1
          <6> QED BY <1>6, <4>4, <6>1 DEF LastFrame, TakesUp
        <5> QED BY <2>4, <5>1
      <4>6. g[j - 1] = T[p].book
        BY <3>1, <4>4, <4>5 DEF TakesUp
      <4>7. g[j - 1] >= 0
        BY <4>4, <4>6, TapeFacts DEF TakesUp
      <4>8. g[j] = g[j - 1] + T[j].size
        BY <3>2, <4>1, <4>3, <4>7 DEF Replayed
      <4> QED BY <2>3, <4>2, <4>4, <4>6, <4>8 DEF TakesUp
    <3> QED BY <3>3, <3>4, <3>5 DEF FrameOf
  <2> QED BY <2>5, <2>6
<1>8. i \in a..i /\ LastFrame(T, t, i, i)
  BY <1>0, <1>2, <1>6 DEF LastFrame
<1>9. g[i] = T[i].book
  BY <1>7, <1>8
<1>10. Folded(T, t, i) = g[i]
  BY <1>0, <1>1, <1>2, <1>4
<1> QED BY <1>9, <1>10

-----------------------------------------------------------------------------
(***************************************************************************)
(* The pass beside book_state_at                                           *)
(***************************************************************************)

\* The ladder of the pass is never below the book of the venue: an empty
\* snapshot leaves what was in it.
LEMMA PassStaysAbove ==
    ASSUME NEW T \in Seq(Entry), TapeInv(T), NEW t, NEW f \in [0..Len(T) -> Int],
           FollowsPass(T, t, f)
    PROVE  \A j \in 0..Len(T) : f[j] >= 0
<1>1. Len(T) \in Nat /\ f[0] = 0 /\ \A j \in 1..Len(T) : f[j] = Walked(T, t, j, f[j - 1])
  BY TapeFacts DEF FollowsPass
<1>. DEFINE Above(j) == f[j] >= 0 /\ \A q \in 1..j : LastFrame(T, t, q, j) => f[j] >= T[q].book
            Bad == {j \in 0..Len(T) : ~Above(j)}
<1>2. Bad = {}
  <2>. SUFFICES ASSUME Bad # {} PROVE FALSE
    OBVIOUS
  <2>1. Bad \in SUBSET Nat
    OBVIOUS
  <2>2. PICK j \in Bad : \A k \in Bad : j <= k
    BY <2>1, LeastNatural
  <2>3. CASE j = 0
    BY <1>1, <2>2, <2>3
  <2>4. CASE j # 0
    <3>1. j \in 1..Len(T) /\ j - 1 \in 0..Len(T) /\ j \in Nat /\ j \in DOMAIN T /\ ~(j <= j - 1)
      BY <1>1, <2>2, <2>4, TapeFacts
    <3>2. Above(j - 1)
      <4>1. j - 1 \notin Bad
        <5>. HIDE DEF Bad
        <5> QED BY <2>2, <3>1
      <4> QED BY <3>1, <4>1
    <3>3. f[j] = Walked(T, t, j, f[j - 1]) /\ f[j - 1] \in Int /\ f[j - 1] >= 0 /\ f[j] \in Int
      BY <1>1, <3>1, <3>2
    <3>4. ~Above(j)
      BY <2>2
    <3>5. CASE ~FrameOf(T, t, j)
      <4>1. j \notin RowsOf(T, t)
        BY <3>5, TapeFacts DEF FrameOf
      <4>2. f[j] = f[j - 1]
        BY <3>3, <4>1 DEF Walked
      <4>3. ASSUME NEW q \in 1..j, LastFrame(T, t, q, j) PROVE f[j] >= T[q].book
        <5>1. q # j
          BY <3>5, <4>3 DEF LastFrame
        <5>2. q \in 1..(j - 1) /\ LastFrame(T, t, q, j - 1)
          BY <3>1, <4>3, <5>1 DEF LastFrame
        <5> QED BY <3>2, <4>2, <5>2
      <4> QED BY <3>3, <3>4, <4>2, <4>3
    <3>6. ASSUME FrameOf(T, t, j), f[j] >= 0, f[j] >= T[j].book PROVE FALSE
      <4>1. \A q \in 1..j : LastFrame(T, t, q, j) => q = j
        BY <3>1, <3>6 DEF LastFrame
      <4> QED BY <3>4, <3>6, <4>1
    <3>7. CASE FrameOf(T, t, j) /\ j \notin Rows(T)
      <4>1. T[j].book = 0 /\ j \notin RowsOf(T, t)
        BY <3>1, <3>7, TapeFacts, StoredFrame DEF FrameOf
      <4>2. f[j] = f[j - 1]
        BY <3>3, <4>1 DEF Walked
      <4> QED BY <3>3, <3>6, <3>7, <4>1, <4>2
    <3>8. CASE FrameOf(T, t, j) /\ j \in Rows(T)
      <4>1. /\ j \in RowsOf(T, t) /\ T[j].kind \in {"snapshot", "delta"}
            /\ T[j].book \in Int /\ T[j].book >= 0 /\ T[j].size \in Int
        BY <3>1, <3>8, TapeFacts, TapeAssumption DEF FrameOf, IsFrame
      <4>2. CASE T[j].kind = "snapshot"
        <5>1. T[j].size = T[j].book
          BY <3>1, <3>8, <4>2, StoredFrame DEF FrameOf
        <5>2. f[j] = T[j].size
          BY <3>3, <4>1, <4>2 DEF Walked
        <5> QED BY <3>6, <3>8, <4>1, <5>1, <5>2
      <4>3. CASE T[j].kind = "delta"
        <5>1. PICK p \in 1..(j - 1) : TakesUp(T, t, j, p)
          BY <4>1, <4>3, DeltaTakesUp
        <5>2. f[j - 1] >= T[p].book /\ T[p].book \in Int
          BY <3>2, <5>1, TapeFacts DEF TakesUp
        <5>3. f[j] = f[j - 1] + T[j].size
          BY <3>3, <4>1, <4>3 DEF Walked
        <5>4. f[j] >= T[j].book
          <6>. DEFINE x == f[j - 1]
                      y == T[p].book
                      d == T[j].size
          <6>1. x >= y /\ x \in Int /\ y \in Int /\ d \in Int /\ f[j] = x + d /\ T[j].book = y + d
            BY <3>3, <4>1, <5>1, <5>2, <5>3 DEF TakesUp
          <6>. HIDE DEF x, y, d
          <6> QED BY <6>1
        <5> QED BY <3>3, <3>6, <3>8, <4>1, <5>4
      <4> QED BY <4>1, <4>2, <4>3
    <3> QED BY <3>5, <3>7, <3>8
  <2> QED BY <2>3, <2>4
<1> QED BY <1>2

\* From the snapshot on, both fold the same.
LEMMA PassAgrees ==
    ASSUME NEW T \in Seq(Entry), TapeInv(T), NEW t, NEW at, NEW i \in DOMAIN T,
           Position(at) = i, Anchor(T, t, i) # 0
    PROVE  PassBook(T, t, at) = Folded(T, t, i)
<1>0. i \in 1..Len(T) /\ Len(T) \in Nat /\ i \in Nat
  BY TapeFacts
<1>1. PICK a \in Nat : a = Anchor(T, t, i)
  BY <1>0, AnchorTakes
<1>2. /\ a \in RowsOf(T, t) /\ a <= i /\ T[a].kind = "snapshot" /\ a # 0
      /\ \A r \in RowsOf(T, t) : r <= i /\ T[r].kind = "snapshot" => r <= a
  BY <1>0, <1>1, AnchorTakes
<1>3. a \in 1..Len(T) /\ a \in DOMAIN T
  BY <1>2, TapeFacts
<1>4. PICK g \in [a..Len(T) -> Int] : Follows(T, t, a, g)
  BY <1>3, FoldedWalk
<1>5. PICK f \in [0..Len(T) -> Int] : FollowsPass(T, t, f)
  BY PassWalk
<1>6. \A j \in 0..Len(T) : f[j] >= 0
  BY <1>5, PassStaysAbove
<1>7. /\ g[a] = T[a].size
      /\ \A j \in (a + 1)..Len(T) : g[j] = Replayed(T, t, j, g[j - 1])
      /\ Folded(T, t, i) = g[i]
  BY <1>0, <1>1, <1>2, <1>4 DEF Follows
<1>8. /\ \A j \in 1..Len(T) : f[j] = Walked(T, t, j, f[j - 1])
      /\ PassBook(T, t, at) = f[i]
  BY <1>0, <1>5 DEF FollowsPass
<1>. DEFINE Bad == {j \in a..i : f[j] # g[j]}
<1>9. Bad = {}
  <2>. SUFFICES ASSUME Bad # {} PROVE FALSE
    OBVIOUS
  <2>1. Bad \in SUBSET Nat
    BY <1>0
  <2>2. PICK j \in Bad : \A k \in Bad : j <= k
    BY <2>1, LeastNatural
  <2>3. CASE j = a
    <3>1. a - 1 \in 0..Len(T)
      BY <1>0, <1>3
    <3>2. f[a] = T[a].size
      <4>1. f[a - 1] >= 0 /\ f[a - 1] \in Int /\ f[a] = Walked(T, t, a, f[a - 1])
        BY <1>3, <1>6, <1>8, <3>1
      <4>2. ~(f[a - 1] < 0)
        BY <4>1
      <4> QED BY <1>2, <4>1, <4>2 DEF Walked
    <3> QED BY <1>7, <2>2, <2>3, <3>2
  <2>4. CASE j # a
    <3>1. /\ j \in (a + 1)..Len(T) /\ j \in 1..Len(T) /\ j - 1 \in a..i /\ j - 1 \in 0..Len(T)
          /\ ~(j <= j - 1) /\ a < j /\ j <= i
      BY <1>0, <1>3, <2>2, <2>4
    <3>2. f[j - 1] = g[j - 1] /\ f[j - 1] \in Int /\ f[j - 1] >= 0
      <4>1. j - 1 \notin Bad
        <5>. HIDE DEF Bad
        <5> QED BY <2>2, <3>1
      <4> QED BY <1>6, <3>1, <4>1
    <3>3. g[j] = Replayed(T, t, j, g[j - 1]) /\ f[j] = Walked(T, t, j, f[j - 1])
      BY <1>7, <1>8, <3>1
    <3>4. j \in RowsOf(T, t) => T[j].kind = "delta"
      <4>1. ASSUME j \in RowsOf(T, t), T[j].kind = "snapshot" PROVE FALSE
        <5>1. j <= i /\ a < j /\ j \in Int /\ a \in Int
          BY <1>0, <1>1, <3>1
        <5>2. j <= a
          BY <1>2, <4>1, <5>1
        <5> QED BY <5>1, <5>2
      <4> QED BY <4>1, TapeFacts DEF IsFrame
    <3>5. f[j] = g[j]
      BY <3>2, <3>3, <3>4 DEF Replayed, Walked
    <3> QED BY <2>2, <3>5
  <2> QED BY <2>3, <2>4
<1>10. i \in a..i
  BY <1>0, <1>2
<1> QED BY <1>7, <1>8, <1>9, <1>10

\* Without empty snapshots, a row's replay begins in its own subscription.
LEMMA AnchorInBlock ==
    ASSUME NEW T \in Seq(Entry), TapeInv(T), NEW t, ClearFrames(T, t) = {}
    PROVE  \A r \in RowsOf(T, t) : Anchor(T, t, r) \in Block(T, r)
<1>. DEFINE Bad == {r \in RowsOf(T, t) : Anchor(T, t, r) \notin Block(T, r)}
<1>. SUFFICES ASSUME Bad # {} PROVE FALSE
  OBVIOUS
<1>1. Bad \in SUBSET Nat
  BY TapeFacts
<1>2. PICK r \in Bad : \A k \in Bad : r <= k
  BY <1>1, LeastNatural
<1>3. /\ r \in RowsOf(T, t) /\ r \in Rows(T) /\ r \in 1..Len(T) /\ r \in Nat /\ Len(T) \in Nat
      /\ T[r].kind \in {"snapshot", "delta"} /\ Anchor(T, t, r) \notin Block(T, r)
      /\ T[r].ticker = t
  BY <1>2, TapeFacts DEF IsFrame
<1>4. PICK b \in Nat : b = Anchor(T, t, r)
  BY <1>3, AnchorTakes
<1>5. /\ b # 0 => b \in RowsOf(T, t) /\ b <= r /\ T[b].kind = "snapshot"
      /\ \A q \in RowsOf(T, t) : q <= r /\ T[q].kind = "snapshot" => q <= b /\ b # 0
  BY <1>3, <1>4, AnchorTakes
<1>6. CASE T[r].kind = "snapshot"
  <2>1. b = r
    BY <1>3, <1>5, <1>6
  <2>2. r \in Block(T, r)
    BY <1>3, TapeFacts, StoredFrame
  <2> QED BY <1>3, <1>4, <2>1, <2>2
<1>7. CASE T[r].kind = "delta"
  <2>1. PICK p \in 1..(r - 1) : TakesUp(T, t, r, p)
    BY <1>3, <1>7, DeltaTakesUp
  <2>2. p \in RowsOf(T, t)
    <3>1. T[p].stored /\ IsFrame(T, p) /\ T[p].ticker = t
      BY <2>1 DEF LastFrame, FrameOf, TakesUp
    <3>2. p \in Rows(T)
      BY <2>1, <3>1, StoredFrame DEF TakesUp
    <3> QED BY <3>1, <3>2, TapeFacts
  <2>3. p \in Nat /\ p < r /\ Anchor(T, t, p) \in Block(T, p)
    <3>1. p \in Nat /\ p < r /\ ~(r <= p)
      BY <1>3, <2>1
    <3>2. p \notin Bad
      <4>. HIDE DEF Bad
      <4> QED BY <1>2, <3>1
    <3> QED BY <2>2, <3>1, <3>2
  <2>4. PICK c \in Nat : c = Anchor(T, t, p)
    BY <2>3, AnchorTakes
  <2>5. /\ c # 0 => c \in RowsOf(T, t) /\ c <= p /\ T[c].kind = "snapshot"
        /\ \A q \in RowsOf(T, t) : q <= p /\ T[q].kind = "snapshot" => q <= c /\ c # 0
    BY <2>3, <2>4, AnchorTakes
  <2>6. c # 0
    <3>1. T[p].stored /\ IsFrame(T, p)
      BY <2>1 DEF LastFrame, FrameOf, TakesUp
    <3>2. Block(T, p) \subseteq 1..p
      BY <2>1, <3>1, StoredFrame DEF TakesUp
    <3> QED BY <2>3, <2>4, <3>2
  <2>7. c <= b /\ b # 0
    BY <1>3, <1>5, <2>3, <2>5, <2>6
  <2>8. b <= p
    <3>. SUFFICES ASSUME b > p PROVE FALSE
      BY <2>3
    <3>1. b \in RowsOf(T, t) /\ b <= r /\ b # r
      BY <1>5, <1>7, <2>7
    <3>2. b \in (p + 1)..(r - 1)
      BY <1>3, <2>3, <3>1
    <3>3. FrameOf(T, t, b)
      BY <3>1, TapeFacts DEF FrameOf
    <3> QED BY <2>1, <3>2, <3>3 DEF LastFrame, TakesUp
  <2>9. b = c
    BY <1>5, <2>5, <2>7, <2>8
  <2> QED BY <1>3, <1>4, <2>1, <2>3, <2>4, <2>9 DEF TakesUp
<1> QED BY <1>3, <1>6, <1>7

\* An element of every rank.
LEMMA RankExists ==
    ASSUME NEW n \in Nat, NEW S \in SUBSET (1..n), NEW k \in Nat, k < Cardinality(S)
    PROVE  \E r \in S : Cardinality({q \in S : q < r}) = k
<1>. DEFINE Below(m) == {q \in S : q < m}
            Over == {m \in 0..(n + 1) : Cardinality(Below(m)) > k}
<1>0. \A q \in S : q \in Int /\ 1 <= q /\ q <= n /\ q < n + 1 /\ ~(q < 0)
  OBVIOUS
<1>1. IsFiniteSet(S)
  <2>1. 1 \in Int /\ n \in Int
    OBVIOUS
  <2>2. IsFiniteSet(1..n)
    BY <2>1, FS_Interval
  <2> QED BY <2>2, FS_Subset
<1>2. \A m \in 0..(n + 1) : IsFiniteSet(Below(m)) /\ Cardinality(Below(m)) \in Nat
  BY <1>1, FS_Subset, FS_CardinalityType
<1>3. Below(n + 1) = S
  BY <1>0
<1>4. n + 1 \in Over
  BY <1>3
<1>5. Over \in SUBSET Nat /\ Over # {}
  BY <1>4
<1>6. PICK m \in Over : \A o \in Over : m <= o
  BY <1>5, LeastNatural
<1>7. m \in 0..(n + 1) /\ Cardinality(Below(m)) > k
  BY <1>6
<1>8. m # 0
  <2>1. Below(0) = {}
    BY <1>0
  <2>2. Cardinality(Below(0)) = 0
    BY <2>1, FS_EmptySet
  <2> QED BY <1>7, <2>2
<1>9. m - 1 \in 0..(n + 1) /\ m - 1 \notin Over
  <2>1. m - 1 \in 0..(n + 1) /\ ~(m <= m - 1)
    BY <1>7, <1>8
  <2>. HIDE DEF Over
  <2> QED BY <1>6, <2>1
<1>10. Cardinality(Below(m - 1)) <= k
  <2>1. ~(Cardinality(Below(m - 1)) > k) /\ Cardinality(Below(m - 1)) \in Nat
    BY <1>2, <1>9
  <2>. HIDE DEF Below
  <2> QED BY <2>1
<1>11. m - 1 \in S /\ Below(m) = Below(m - 1) \cup {m - 1}
  <2>1. \A q \in S : q < m <=> q < m - 1 \/ q = m - 1
    BY <1>7
  <2>2. m - 1 \notin S => Below(m) = Below(m - 1)
    BY <2>1
  <2>3. m - 1 \in S
    BY <1>2, <1>7, <1>9, <1>10, <2>2
  <2>4. Below(m) = Below(m - 1) \cup {m - 1}
    BY <2>1, <2>3
  <2> QED BY <2>3, <2>4
<1>12. Cardinality(Below(m)) = Cardinality(Below(m - 1)) + 1
  <2>1. m - 1 \notin Below(m - 1)
    BY <1>7
  <2>. HIDE DEF Below
  <2> QED BY <1>2, <1>9, <1>11, <2>1, FS_AddElement
<1>13. Cardinality(Below(m - 1)) = k
  <2>. DEFINE x == Cardinality(Below(m - 1))
              y == Cardinality(Below(m))
  <2>1. x \in Nat /\ y \in Nat /\ x <= k /\ y > k /\ y = x + 1
    BY <1>2, <1>7, <1>9, <1>10, <1>12
  <2>. HIDE DEF x, y
  <2>2. x = k
    BY <2>1
  <2> QED BY <2>2 DEF x
<1> QED BY <1>11, <1>13

\* The points that the gate picks are rows of the market, the ticks behind
\* them, and gap rows.
LEMMA PointsAreNear ==
    ASSUME NEW T \in Seq(Entry), NEW t \in Tickers, NEW at \in PointsOf(T, t)
    PROVE  \/ \E r \in RowsOf(T, t) : at = Instant(r) \/ at = Instant(r) + Tick
           \/ \E g \in StoredGaps(T) : at = Instant(g) /\ T[g].ticker \in {t, ALL}
<1>. DEFINE Near(x) == \E r \in RowsOf(T, t) : x = Instant(r) \/ x = Instant(r) + Tick
            rows == RowsOf(T, t)
<1>1. Len(T) \in Nat /\ rows \in SUBSET (1..Len(T)) /\ DOMAIN T = 1..Len(T) /\ rows \subseteq Rows(T)
  BY TapeFacts
<1>2. ASSUME NEW S \in SUBSET rows, S # {} PROVE Max(S) \in rows /\ Min(S) \in rows
  <2>1. S \in SUBSET (0..Len(T)) /\ S \in SUBSET Nat
    BY <1>1
  <2>2. Max(S) \in S /\ Min(S) \in S
    BY <1>1, <1>2, <2>1, MaxTakes, MinTakes
  <2> QED BY <2>2
<1>3. CASE RowsOf(T, t) # {} /\ at \in TickerPoints(T, t)
  <2>. DEFINE inner == {r \in rows : \E k \in 1..5 : Cardinality({q \in rows : q < r}) = (Cardinality(rows) * k) \div 6}
              edges == {r \in rows : T[r].kind = "snapshot" /\ \E q \in rows : q < r}
              nth(k) == CHOOSE r \in edges : Cardinality({q \in edges : q < r}) = k
              picked == {nth((Cardinality(edges) * k) \div 3) : k \in IF edges = {} THEN {} ELSE 0..2}
  <2>1. TickerPoints(T, t) = {Instant(r) : r \in inner \cup picked}
           \cup {Instant(r) + Tick : r \in picked \cup {Max(rows)}}
           \cup {Instant(Max({q \in rows : q < r})) : r \in picked}
    BY DEF TickerPoints
  <2>2. inner \subseteq rows
    OBVIOUS
  <2>3. edges \in SUBSET (1..Len(T)) /\ edges \in SUBSET rows
    BY <1>1
  <2>4. picked \subseteq edges
    <3>. SUFFICES ASSUME edges # {}, NEW k \in 0..2
                  PROVE  nth((Cardinality(edges) * k) \div 3) \in edges
      OBVIOUS
    <3>1. IsFiniteSet(edges) /\ Cardinality(edges) \in Nat /\ Cardinality(edges) # 0
      <4>. HIDE DEF edges
      <4>1. 1 \in Int /\ Len(T) \in Int
        BY <1>1
      <4>2. IsFiniteSet(1..Len(T))
        BY <4>1, FS_Interval
      <4>3. IsFiniteSet(edges)
        BY <2>3, <4>2, FS_Subset
      <4> QED BY <4>3, FS_CardinalityType, FS_EmptySet
    <3>. DEFINE c == Cardinality(edges)
                d == (c * k) \div 3
    <3>2. d \in Nat /\ d < c
      <4>1. c \in Nat /\ c # 0
        BY <3>1
      <4>. HIDE DEF c
      <4>2. CASE k = 0
        BY <4>1, <4>2
      <4>3. CASE k = 1
        BY <4>1, <4>3
      <4>4. CASE k = 2
        BY <4>1, <4>4
      <4> QED BY <4>2, <4>3, <4>4
    <3>. HIDE DEF edges, d
    <3>3. \E r \in edges : Cardinality({q \in edges : q < r}) = d
      BY <1>1, <2>3, <3>2, RankExists DEF c
    <3>4. nth(d) \in edges
      BY <3>3
    <3> QED BY <3>4 DEF d, c
  <2>5. \A r \in edges : {q \in rows : q < r} \in SUBSET rows /\ {q \in rows : q < r} # {}
    OBVIOUS
  <2>. HIDE DEF inner, edges, nth, picked
  <2>6. rows \in SUBSET rows
    OBVIOUS
  <2>7. Max(rows) \in rows
    BY <1>2, <1>3, <2>6
  <2>8. \A r \in picked : Max({q \in rows : q < r}) \in rows
    BY <1>2, <2>4, <2>5
  <2>. HIDE DEF rows
  <2>9. \/ \E r \in rows : at = Instant(r) \/ at = Instant(r) + Tick
    BY <1>3, <2>1, <2>2, <2>3, <2>4, <2>7, <2>8
  <2> QED BY <2>9 DEF rows
<1>4. ASSUME NEW g \in StoredGaps(T), t \in Probed(T, g), at \in WindowPoints(T, t, g)
      PROVE  Near(at) \/ (at = Instant(g) /\ T[g].ticker \in {t, ALL})
  <2>1. /\ T[g].ticker \in {t, ALL} /\ Anchor(T, t, g) # 0 /\ g \in 1..Len(T) /\ g \in Nat
        /\ g \notin rows
    BY <1>1, <1>4, TapeFacts DEF Probed, StoredGaps, IsFrame
  <2>2. Anchor(T, t, g) \in rows /\ Anchor(T, t, g) <= g /\ Anchor(T, t, g) \in Nat
    BY <2>1, AnchorTakes
  <2>. DEFINE before == {r \in rows : r < g}
              after == {r \in rows : r > g}
  <2>3. WindowPoints(T, t, g) = {Instant(g), Instant(Max(before))}
           \cup (IF after = {} THEN {} ELSE {Instant(Min(after)), Instant(Min(after)) + Tick})
    BY DEF WindowPoints
  <2>4. before # {} /\ before \in SUBSET rows /\ after \in SUBSET rows
    BY <2>1, <2>2
  <2>. HIDE DEF before, after
  <2>5. Max(before) \in rows /\ (after # {} => Min(after) \in rows)
    BY <1>2, <2>4
  <2> QED BY <1>4, <2>1, <2>3, <2>5
<1>5. \/ RowsOf(T, t) # {} /\ at \in TickerPoints(T, t)
      \/ \E g \in StoredGaps(T) : t \in Probed(T, g) /\ at \in WindowPoints(T, t, g)
  BY DEF PointsOf
<1> QED BY <1>3, <1>4, <1>5

-----------------------------------------------------------------------------
(***************************************************************************)
(* The pass beside book_state_at                                           *)
(***************************************************************************)

\* The window w of the gap row g runs from the row at p to the row at q, if any.
Spans(T, w, g, p, q) ==
    /\ w.ticker = T[g].ticker /\ w.gap = 2 * g /\ w.start = 2 * p /\ w.end = 2 * q
    /\ p < g /\ \A r \in Rows(T) : r < g => r <= p
    /\ q # 0 => q \in Rows(T) /\ g < q
    /\ \A r \in Rows(T) : g < r => q # 0 /\ q <= r

LEMMA WindowSpans ==
    ASSUME NEW T \in Seq(Entry), NEW g \in StoredGaps(T)
    PROVE  \E p \in Nat, q \in Nat : Spans(T, Window(T, g), g, p, q)
<1>. DEFINE after == {r \in Rows(T) : r > g}
<1>1. g \in 1..Len(T) /\ g \in Nat /\ Len(T) \in Nat /\ Rows(T) \subseteq 1..Len(T)
  BY TapeFacts DEF StoredGaps
<1>2. PICK p \in Nat :
         /\ p = PrevRow(T, g)
         /\ p # 0 => p < g
         /\ \A r \in Rows(T) : r < g => r <= p
  BY <1>1, PrevRowTakes, Zenon
<1>3. p < g /\ \A r \in Rows(T) : r < g => r <= p
  BY <1>1, <1>2
<1>4. PICK q \in Nat : q = IF after = {} THEN 0 ELSE Min(after)
  <2>1. after \in SUBSET Nat
    BY <1>1
  <2>. HIDE DEF after
  <2> QED BY <2>1, MinTakes
<1>5. /\ q # 0 => q \in Rows(T) /\ g < q
      /\ \A r \in Rows(T) : g < r => q # 0 /\ q <= r
  <2>1. after \in SUBSET Nat /\ 0 \notin after
    BY <1>1
  <2>2. ASSUME after # {} PROVE q \in after /\ \A r \in after : q <= r
    <3>. HIDE DEF after
    <3> QED BY <1>4, <2>1, <2>2, MinTakes
  <2>3. ASSUME after = {} PROVE q = 0
    BY <1>4, <2>3
  <2>4. q # 0 => q \in after
    BY <2>2, <2>3
  <2>5. \A r \in after : q # 0 /\ q <= r
    BY <2>1, <2>2
  <2> QED BY <1>1, <2>4, <2>5
<1>6. /\ Window(T, g).ticker = T[g].ticker /\ Window(T, g).gap = 2 * g
      /\ Window(T, g).start = 2 * p
      /\ Window(T, g).end = IF after = {} THEN 0 ELSE 2 * Min(after)
  BY <1>2 DEF Window, Instant
<1>7. Window(T, g).end = 2 * q
  BY <1>4, <1>6
<1> QED BY <1>3, <1>5, <1>6, <1>7 DEF Spans

\* An instant at which something is stored belongs to its position.
LEMMA InstantsAreNear ==
    ASSUME NEW T \in Seq(Entry), NEW at \in Instants(T)
    PROVE  \E n \in 1..Len(T) : Position(at) = n /\ (at = 2 * n \/ at = 2 * n + 1)
<1>1. PICK n \in Rows(T) \cup StoredGaps(T) : at = 2 * n \/ at = 2 * n + 1
  BY DEF Instants, Instant, Tick
<1>2. n \in 1..Len(T) /\ n \in Nat
  BY TapeFacts DEF StoredGaps
<1>3. (2 * n) \div 2 = n /\ (2 * n + 1) \div 2 = n
  BY <1>2
<1> QED BY <1>1, <1>2, <1>3 DEF Position

\* Where a snapshot opened the market, only the refusals can disagree.
LEMMA OnlyRefusalsDisagree ==
    ASSUME NEW T \in Seq(Entry), TapeInv(T), NEW t, NEW windows, NEW at, NEW n \in DOMAIN T,
           Position(at) = n, Anchor(T, t, n) # 0,
           Evaluated(T, windows, t, at) = "disagreed"
    PROVE  OracleRaises(T, t, at) # PassRaises(windows, t, at)
<1>1. PassBook(T, t, at) = Folded(T, t, n)
  BY PassAgrees
<1>2. OracleRaises(T, t, at) \in BOOLEAN /\ PassRaises(windows, t, at) \in BOOLEAN
  BY DEF OracleRaises, PassRaises
<1>. DEFINE oracle == OracleRaises(T, t, at)
            pass == PassRaises(windows, t, at)
            later == \E r \in RowsOf(T, t) : T[r].kind = "snapshot" /\ Instant(r) > at
<1>3. Evaluated(T, windows, t, at) =
        CASE oracle /\ pass -> "agreed_on_raise"
          [] oracle # pass -> "disagreed"
          [] Anchor(T, t, n) = 0 -> IF later THEN "excluded_no_anchor" ELSE "disagreed"
          [] OTHER -> IF PassBook(T, t, at) = Folded(T, t, n) THEN "agreed" ELSE "disagreed"
  BY DEF Evaluated
<1>4. oracle \in BOOLEAN /\ pass \in BOOLEAN
  BY <1>2
<1>. HIDE DEF oracle, pass, later
<1>5. oracle # pass
  <2>1. CASE oracle = TRUE /\ pass = TRUE
    BY <1>3, <2>1
  <2>2. CASE oracle = FALSE /\ pass = FALSE
    BY <1>1, <1>3, <2>2
  <2> QED BY <1>4, <2>1, <2>2
<1> QED BY <1>5 DEF oracle, pass

\* The instant at is that of n or the tick behind it, and a the snapshot from
\* which book_state_at replays t.
Within(T, t, at, n, a) ==
    /\ n \in 1..Len(T) /\ Position(at) = n /\ (at = 2 * n \/ at = 2 * n + 1)
    /\ a = Anchor(T, t, n) /\ a # 0

\* Gap row g keeps book_state_at from replaying over it.
Bars(T, t, g, a, n) ==
    g \in StoredGaps(T) /\ a < g /\ g <= n /\ T[g].ticker \in {t, ALL}

LEMMA OracleIsBarred ==
    ASSUME NEW T \in Seq(Entry), NEW t, NEW at, NEW n, NEW a, Within(T, t, at, n, a)
    PROVE  /\ OracleRaises(T, t, at) <=> \E g : Bars(T, t, g, a, n)
           /\ n \in Int /\ at \in Int /\ a \in Nat /\ a <= n /\ a \in Rows(T) /\ a \in RowsOf(T, t)
<1>1. n \in 1..Len(T) /\ Len(T) \in Nat /\ n \in Nat /\ Position(at) = n /\ a = Anchor(T, t, n) /\ a # 0
      /\ DOMAIN T = 1..Len(T)
  BY TapeFacts DEF Within
<1>2. a \in Nat /\ a \in RowsOf(T, t) /\ a <= n
  BY <1>1, AnchorTakes
<1>3. OracleRaises(T, t, at) <=> GapBetween(T, t, a, n)
  BY <1>1 DEF OracleRaises
<1>4. \A g \in (a + 1)..n : g \in DOMAIN T /\ a < g /\ g <= n
  BY <1>1, <1>2
<1>5. \A g \in DOMAIN T : a < g /\ g <= n => g \in (a + 1)..n
  BY <1>1, <1>2
<1>6. GapBetween(T, t, a, n) <=> \E g : Bars(T, t, g, a, n)
  BY <1>4, <1>5 DEF GapBetween, Bars, StoredGaps
<1>7. at \in Int
  BY <1>1 DEF Within
<1> QED BY <1>1, <1>2, <1>3, <1>6, <1>7, TapeFacts

\* Where only book_state_at refuses, the market waits for its own snapshot.
LEMMA LateRefusal ==
    ASSUME NEW T \in Seq(Entry), NEW t, NEW at, NEW n, NEW a, Within(T, t, at, n, a),
           OracleRaises(T, t, at), ~PassRaises(ExclusionWindows(T), t, at)
    PROVE  UntilItsSnapshot(T, ExclusionWindows(T), t, at)
<1>1. /\ n \in Int /\ at \in Int /\ a \in Nat /\ a \in Rows(T)
      /\ at = 2 * n \/ at = 2 * n + 1
      /\ Anchor(T, t, Position(at)) = a /\ a > 0
  BY OracleIsBarred DEF Within
<1>2. PICK g : Bars(T, t, g, a, n)
  BY OracleIsBarred
<1>3. PICK w : w = Window(T, g)
  OBVIOUS
<1>4. g \in StoredGaps(T) /\ a < g /\ g <= n /\ T[g].ticker \in {t, ALL} /\ g \in Int
  BY <1>2, TapeFacts DEF Bars, StoredGaps
<1>5. PICK p \in Nat, q \in Nat : Spans(T, w, g, p, q)
  BY <1>3, <1>4, WindowSpans
<1>6. w \in ExclusionWindows(T) /\ ~Covers(w, t, at)
  BY <1>3, <1>4 DEF ExclusionWindows, PassRaises
<1>7. w.ticker \in {t, ALL} /\ w.gap = 2 * g /\ w.start = 2 * p /\ w.end = 2 * q /\ p < g
  BY <1>4, <1>5 DEF Spans
<1>8. at > w.start
  BY <1>1, <1>4, <1>7
<1>9. w.end # 0 /\ w.end <= at
  <2>1. w.end # 0 /\ ~(at < w.end)
    BY <1>6, <1>7, <1>8 DEF Covers
  <2> QED BY <1>1, <1>7, <2>1
<1>10. Instant(a) < w.gap
  BY <1>1, <1>4, <1>7 DEF Instant
<1> QED BY <1>1, <1>6, <1>7, <1>9, <1>10 DEF UntilItsSnapshot

\* Where only the pass refuses, a gap row is about to be stamped.
LEMMA EarlyRefusal ==
    ASSUME NEW T \in Seq(Entry), NEW t, NEW at, NEW n, NEW a, Within(T, t, at, n, a),
           ~OracleRaises(T, t, at), PassRaises(ExclusionWindows(T), t, at)
    PROVE  /\ BeforeTheStamp(ExclusionWindows(T), t, at)
           /\ \A r \in Rows(T) : r <= n => 2 * r < at
<1>1. /\ n \in Int /\ at \in Int /\ a \in Nat /\ a \in Rows(T) /\ a > 0 /\ a <= n
      /\ at = 2 * n \/ at = 2 * n + 1
  BY OracleIsBarred DEF Within
<1>2. PICK g \in StoredGaps(T) : Covers(Window(T, g), t, at)
  BY DEF PassRaises, ExclusionWindows
<1>3. PICK w : w = Window(T, g)
  OBVIOUS
<1>4. g \in Int /\ g \notin Rows(T)
  BY TapeFacts DEF StoredGaps, IsFrame
<1>5. PICK p \in Nat, q \in Nat : Spans(T, w, g, p, q)
  BY <1>3, WindowSpans
<1>6. /\ w.ticker \in {t, ALL} /\ w.gap = 2 * g /\ w.start = 2 * p /\ w.end = 2 * q
      /\ w.ticker = T[g].ticker
      /\ \A r \in Rows(T) : r < g => r <= p
      /\ \A r \in Rows(T) : g < r => q # 0 /\ q <= r
      /\ w.start = 0 \/ at > w.start
      /\ w.end = 0 \/ at < w.end
  BY <1>2, <1>3, <1>5 DEF Covers, Spans
<1>7. g > n
  <2>. SUFFICES ASSUME g <= n PROVE FALSE
    BY <1>1, <1>4
  <2>1. ~(a < g)
    <3>1. ~Bars(T, t, g, a, n)
      BY OracleIsBarred
    <3> QED BY <1>6, <3>1 DEF Bars
  <2>2. g < a
    BY <1>1, <1>4, <2>1
  <2>3. q # 0 /\ q <= a
    BY <1>1, <1>6, <2>2
  <2> QED BY <1>1, <1>6, <2>3
<1>8. w.start < at /\ at < w.gap
  BY <1>1, <1>4, <1>6, <1>7
<1>9. ASSUME NEW r \in Rows(T), r <= n PROVE 2 * r < at
  <2>1. r \in Int
    BY TapeFacts
  <2>2. r <= p
    <3>1. r < g
      BY <1>1, <1>4, <1>7, <1>9, <2>1
    <3> QED BY <1>6, <3>1
  <2> QED BY <1>1, <1>6, <1>8, <2>1, <2>2
<1>10. w \in ExclusionWindows(T)
  BY <1>3 DEF ExclusionWindows
<1> QED BY <1>6, <1>8, <1>9, <1>10 DEF BeforeTheStamp

\* At a gap row both refuse.
LEMMA BothRefuseAtGaps ==
    ASSUME NEW T \in Seq(Entry), NEW t, NEW at, NEW n, NEW a, Within(T, t, at, n, a),
           NEW g \in StoredGaps(T), at = 2 * g, T[g].ticker \in {t, ALL}
    PROVE  OracleRaises(T, t, at) /\ PassRaises(ExclusionWindows(T), t, at)
<1>1. /\ n \in Int /\ a \in Nat /\ a \in Rows(T) /\ a <= n
      /\ at = 2 * n \/ at = 2 * n + 1
  BY OracleIsBarred DEF Within
<1>2. g \in Int /\ g \notin Rows(T) /\ g > 0
  BY TapeFacts DEF StoredGaps, IsFrame
<1>3. n = g
  BY <1>1, <1>2
<1>4. a # g
  BY <1>1, <1>2
<1>5. a < g
  BY <1>1, <1>2, <1>3, <1>4
<1>6. Bars(T, t, g, a, n)
  BY <1>1, <1>3, <1>5 DEF Bars
<1>7. PICK w : w = Window(T, g)
  OBVIOUS
<1>8. PICK p \in Nat, q \in Nat : Spans(T, w, g, p, q)
  BY <1>7, WindowSpans
<1>9. w.ticker \in {t, ALL} /\ w.start = 2 * p /\ w.end = 2 * q /\ p < g /\ (q # 0 => g < q)
  BY <1>8 DEF Spans
<1>10. at > w.start
  BY <1>2, <1>9
<1>11. w.end = 0 \/ at < w.end
  BY <1>2, <1>9
<1>12. Covers(w, t, at)
  BY <1>9, <1>10, <1>11 DEF Covers
<1> QED BY <1>6, <1>7, <1>12, OracleIsBarred DEF PassRaises, ExclusionWindows

\* The pass and book_state_at part at the edges of the windows only, and the
\* points of the gate see one of them at most.
LEMMA PathsPart ==
    ASSUME NEW T \in Seq(Entry), TapeInv(T)
    PROVE  PathsPartAtTheEdges(T)
<1>. DEFINE windows == ExclusionWindows(T)
            parted(t) == {at \in Instants(T) : /\ Anchor(T, t, Position(at)) # 0
                                               /\ Evaluated(T, windows, t, at) = "disagreed"}
<1>1. ASSUME NEW t \in Tickers, NEW at \in parted(t)
      PROVE  \E n, a : /\ Within(T, t, at, n, a)
                       /\ OracleRaises(T, t, at) # PassRaises(windows, t, at)
  <2>1. PICK n \in 1..Len(T) : Position(at) = n /\ (at = 2 * n \/ at = 2 * n + 1)
    BY InstantsAreNear
  <2>2. Anchor(T, t, n) # 0 /\ Evaluated(T, windows, t, at) = "disagreed" /\ n \in DOMAIN T
    BY <2>1, TapeFacts
  <2>. HIDE DEF windows
  <2>3. OracleRaises(T, t, at) # PassRaises(windows, t, at)
    BY <2>1, <2>2, OnlyRefusalsDisagree
  <2>4. Within(T, t, at, n, Anchor(T, t, n))
    BY <2>1, <2>2 DEF Within
  <2> QED BY <2>3, <2>4
<1>2. \A t, at : OracleRaises(T, t, at) \in BOOLEAN /\ PassRaises(windows, t, at) \in BOOLEAN
  BY DEF OracleRaises, PassRaises
<1>3. ASSUME NEW t \in Tickers, NEW at \in parted(t)
      PROVE  BeforeTheStamp(windows, t, at) \/ UntilItsSnapshot(T, windows, t, at)
  <2>1. PICK n, a : /\ Within(T, t, at, n, a)
                    /\ OracleRaises(T, t, at) # PassRaises(windows, t, at)
    BY <1>1
  <2>. HIDE DEF parted
  <2>2. CASE OracleRaises(T, t, at) = TRUE /\ PassRaises(windows, t, at) = FALSE
    BY <2>1, <2>2, LateRefusal
  <2>3. CASE OracleRaises(T, t, at) = FALSE /\ PassRaises(windows, t, at) = TRUE
    BY <2>1, <2>3, EarlyRefusal
  <2> QED BY <1>2, <2>1, <2>2, <2>3
<1>4. ASSUME NEW t \in Tickers, ClearFrames(T, t) = {}, NEW at \in parted(t) \cap PointsOf(T, t)
      PROVE  at % 2 = 1 /\ BeforeTheStamp(windows, t, at)
  <2>1. PICK n, a : /\ Within(T, t, at, n, a)
                    /\ OracleRaises(T, t, at) # PassRaises(windows, t, at)
    BY <1>1
  <2>2. /\ n \in Int /\ at \in Int /\ a \in Nat /\ a <= n
        /\ at = 2 * n \/ at = 2 * n + 1
        /\ a = Anchor(T, t, n)
        /\ OracleRaises(T, t, at) <=> \E g : Bars(T, t, g, a, n)
    BY <2>1, OracleIsBarred DEF Within
  <2>3. ASSUME NEW g \in StoredGaps(T), at = Instant(g), T[g].ticker \in {t, ALL} PROVE FALSE
    <3>1. at = 2 * g
      BY <2>3 DEF Instant
    <3>2. OracleRaises(T, t, at) /\ PassRaises(windows, t, at)
      BY <2>1, <2>3, <3>1, BothRefuseAtGaps
    <3> QED BY <1>2, <2>1, <3>2
  <2>4. PICK r \in RowsOf(T, t) : at = Instant(r) \/ at = Instant(r) + Tick
    BY <2>3, PointsAreNear
  <2>5. r \in Rows(T) /\ r \in Int /\ (at = 2 * r \/ at = 2 * r + 1)
    BY <2>4, TapeFacts DEF Instant, Tick
  <2>6. r = n
    BY <2>2, <2>5
  <2>7. ~OracleRaises(T, t, at)
    <3>. SUFFICES ASSUME NEW g, Bars(T, t, g, a, n) PROVE FALSE
      BY <2>2
    <3>1. /\ r \in 1..Len(T) /\ r \in DOMAIN T /\ T[r].stored /\ IsFrame(T, r) /\ T[r].seq \in Nat
      BY <2>5, TapeFacts
    <3>2. a \in Block(T, r)
      BY <1>4, <2>2, <2>4, <2>6, AnchorInBlock
    <3>3. g \in StoredGaps(T) /\ g \in Int /\ a < g /\ g <= r
      BY <2>6, TapeFacts DEF Bars, StoredGaps
    <3>4. g \in Block(T, r)
      BY <2>2, <2>5, <3>1, <3>2, <3>3 DEF Block
    <3> QED BY <3>1, <3>3, <3>4, StoredFrame DEF StoredGaps, IsFrame
  <2>8. PassRaises(windows, t, at)
    BY <1>2, <2>1, <2>7
  <2>9. BeforeTheStamp(windows, t, at) /\ 2 * r < at
    <3>1. n \in Int /\ r <= n
      BY <2>2, <2>5, <2>6
    <3> QED BY <2>1, <2>5, <2>7, <2>8, <3>1, EarlyRefusal
  <2>10. at % 2 = 1
    <3>1. at = 2 * r + 1
      BY <2>5, <2>9
    <3> QED BY <2>5, <3>1
  <2> QED BY <2>9, <2>10
<1>. HIDE DEF windows
<1> QED BY <1>3, <1>4 DEF PathsPartAtTheEdges, windows

-----------------------------------------------------------------------------
(***************************************************************************)
(* The theorems                                                            *)
(***************************************************************************)

LEMMA RecordedTape ==
    ASSUME RecInv
    PROVE  tape \in Seq(Entry) /\ TapeInv(tape)
BY DEF RecInv, TypeInv, FlightInv

(* Whenever book_state_at answers for a row of a market (ws_book.py), the    *)
(* book it folds is the one that the venue had: for any number of markets,   *)
(* levels, changes, faults and any length of a batch.  A replay starts at a  *)
(* snapshot of some subscription, and the frames of a subscription reach     *)
(* the database as an unbroken beginning of it.                              *)
THEOREM ReplaysAreTheVenuesBooks == Spec => []ReplayIsTheVenuesBook
<1>1. ASSUME RecInv PROVE ReplayIsTheVenuesBook
  <2>1. tape \in Seq(Entry) /\ TapeInv(tape)
    BY <1>1, RecordedTape
  <2>2. TypeOK
    BY <1>1, TypesAreRight DEF RecInv
  <2>3. ASSUME NEW t \in Tickers, NEW i \in RowsOf(tape, t), Answers(tape, t, i), ~StaleAt(tape, t, i)
        PROVE  Folded(tape, t, i) = tape[i].book
    <3>1. Anchor(tape, t, i) # 0
      BY <2>3 DEF Answers
    <3> QED BY <2>1, <2>3, <3>1, ReplayIsTrue
  <2> QED BY <2>2, <2>3 DEF ReplayIsTheVenuesBook
<1> QED BY <1>1, RecInvHolds, PTL

(* Every change of a book that is missing between two of its rows lies in a  *)
(* window that BlindWindowDetector finds from the numbers of the rows,       *)
(* unless an empty snapshot lies between them: a subscription numbers its    *)
(* messages from one, so where the book was lost the numbers begin again.    *)
THEOREM LossesAreBlind == Spec => []EveryLossIsInABlindWindow
<1>1. ASSUME RecInv PROVE EveryLossIsInABlindWindow
  <2>1. tape \in Seq(Entry) /\ TapeInv(tape)
    BY <1>1, RecordedTape
  <2>. SUFFICES ASSUME NEW t \in Tickers, NEW i \in RowsOf(tape, t), HasNextRow(t, i),
                       LostAfter(t, i), ~ClearBetween(i, NextRowOf(t, i))
                PROVE  LossIsInABlindWindow(t, i)
    BY DEF EveryLossIsInABlindWindow
  <2>. DEFINE later == {r \in RowsOf(tape, t) : r > i}
  <2>2. later \in SUBSET Nat /\ later # {}
    BY <2>1, TapeFacts DEF HasNextRow
  <2>3. PICK n : n = NextRowOf(t, i)
    OBVIOUS
  <2>4. n \in later /\ \A r \in later : n <= r
    <3>1. n = Min(later)
      BY <2>3 DEF NextRowOf
    <3>. HIDE DEF later
    <3> QED BY <2>2, <3>1, MinTakes
  <2>5. n \in RowsOf(tape, t) /\ i < n /\ \A r \in RowsOf(tape, t) : i < r => n <= r
    BY <2>1, <2>4, TapeFacts
  <2>6. tape[n].ver # tape[i].ver + (IF tape[n].kind = "delta" THEN 1 ELSE 0)
    BY <2>3 DEF LostAfter
  <2>7. \A u \in Tickers : ClearFrames(tape, u) \cap (i..n) = {}
    BY <2>3 DEF ClearBetween
  <2>8. \E w \in BlindWindows(tape) : i <= w.start /\ n <= w.end
    BY <2>1, <2>5, <2>6, <2>7, LossIsBlind
  <2> QED BY <2>3, <2>8 DEF LossIsInABlindWindow
<1> QED BY <1>1, RecInvHolds, PTL

(* A gap row is attached to the window of its own boundary or to none        *)
(* (attach_gap_rows), the pass and book_state_at part only at the edges of   *)
(* an exclusion window and the points of the parity gate see one of them at  *)
(* most (parity.py), and a number that SeqBoundaryDetector counts as skipped *)
(* is an empty snapshot or a gap row.                                        *)
THEOREM GapsAccounted == Spec => []GapsAreAccountedFor
<1>1. ASSUME RecInv PROVE GapsAreAccountedFor
  <2>1. tape \in Seq(Entry) /\ TapeInv(tape)
    BY <1>1, RecordedTape
  <2>2. PathsPartAtTheEdges(tape) /\ SkipsAreExplained(tape)
    BY <2>1, PathsPart, SkipsExplained
  <2>3. ASSUME NEW g \in DOMAIN tape, tape[g].kind = "gap", \A t \in Tickers : ClearFrames(tape, t) = {}
        PROVE  AttachedTo(tape, g) \subseteq {PrevRow(tape, g)}
    BY <2>1, <2>3, GapFindsWindow
  <2>4. GapRowsFindTheirWindow
    BY <2>3 DEF GapRowsFindTheirWindow
  <2> QED BY <2>2, <2>4 DEF GapsAreAccountedFor
<1> QED BY <1>1, RecInvHolds, PTL
==============================================================================
