---------------------------- MODULE StreamProofs ----------------------------
(***************************************************************************)
(* What the two pages that follow a run show, for any number of events,    *)
(* statuses, runs, broadcasts and broken connections.  The timeline's      *)
(* invariant says of each event under way that the one before it is shown  *)
(* or ahead of it, and of "done" that every event of the run is.  The      *)
(* panel's says of its last request what it will leave behind: as answers  *)
(* come in order, that is what the panel shows when it is at rest.         *)
(***************************************************************************)
EXTENDS EventStream, RunPanel, SequenceTheorems, TLAPS

-----------------------------------------------------------------------------
(* The timeline *)

USE StatusAssumption, BoundAssumption

\* Event v is among the k events shown, or in one of the frames fs before position n.
Sent(k, fs, v, n) ==
    \/ v <= k
    \/ \E j \in 1 .. Len(fs) : j < n /\ fs[j].kind = "run-event" /\ fs[j].value = v

NShown == Len(page.shown)

\* What the page resumes from it holds already.
PageInv ==
    /\ ShownInOrder
    /\ page.phase \in {"blank", "loading"} =>
          /\ page.shown = <<>> /\ frames = <<>> /\ server.at = "ended"
          /\ ~source.open /\ ~source.done
    /\ page.phase = "effect" => page.after <= NShown
    /\ source.after <= NShown /\ source.lastId <= NShown

\* Each event follows the one before it, in the frames as at the handler's cursor.
FramesInv ==
    /\ \A i \in 1 .. Len(frames) :
          frames[i].kind = "run-event" =>
             frames[i].value \in 1 .. recorded /\ Sent(NShown, frames, frames[i].value - 1, i)
    /\ server.at # "ended" => Sent(NShown, frames, server.cursor, Len(frames) + 1)

\* "done" comes behind the last event of a finished run.
DoneInv ==
    /\ server.at = "drain" => status \in TerminalStatuses
    /\ \A i \in 1 .. Len(frames) :
          frames[i].kind = "done" =>
             /\ status \in TerminalStatuses
             /\ \E v \in Nat : v >= final /\ Sent(NShown, frames, v, i)
    /\ source.done => status \in TerminalStatuses /\ final <= NShown

StreamInv == TypeOK /\ PageInv /\ FramesInv /\ DoneInv

LEMMA FrameFields ==
  ASSUME NEW f \in Frame
  PROVE  /\ f.kind \in {"run-event", "run-status", "done"}
         /\ f.kind = "run-event" => f.value \in Nat
         /\ f.kind = "run-status" => f.value \in Statuses
BY DEF Frame

LEMMA FrameMade ==
  /\ \A v \in Nat : [kind |-> "run-event", value |-> v] \in Frame
  /\ \A s \in Statuses : [kind |-> "run-status", value |-> s] \in Frame
  /\ [kind |-> "done"] \in Frame
BY DEF Frame

LEMMA UpToIsSeq ==
  ASSUME NEW n \in Nat
  PROVE  UpTo(n) \in Seq(Nat) /\ Len(UpTo(n)) = n /\ \A i \in 1 .. n : UpTo(n)[i] = i
BY DEF UpTo

\* A log's prefix, and its next event.
LEMMA NextIsShown ==
  ASSUME NEW n \in Nat
  PROVE  Append(UpTo(n), n + 1) = UpTo(n + 1)
  <1>1. /\ Append(UpTo(n), n + 1) \in Seq(Nat)
        /\ Len(Append(UpTo(n), n + 1)) = n + 1
        /\ \A i \in 1 .. n : Append(UpTo(n), n + 1)[i] = i
        /\ Append(UpTo(n), n + 1)[n + 1] = n + 1
    BY UpToIsSeq, AppendProperties, n + 1 \in Nat
  <1>2. /\ UpTo(n + 1) \in Seq(Nat) /\ Len(UpTo(n + 1)) = n + 1
        /\ \A i \in 1 .. n + 1 : UpTo(n + 1)[i] = i
    BY UpToIsSeq, n + 1 \in Nat
  <1>3. \A i \in 1 .. n + 1 : Append(UpTo(n), n + 1)[i] = UpTo(n + 1)[i]
    BY <1>1, <1>2
  <1> QED BY <1>1, <1>2, <1>3, SeqEqual

\* gs is fs, of length l, and behind it the d events that follow the cursor c.
SentBehind(gs, fs, c, l, d) ==
  /\ gs \in Seq(Frame) /\ Len(gs) = l + d
  /\ \A i \in 1 .. l : gs[i] = fs[i]
  /\ \A i \in l + 1 .. l + d : gs[i] = [kind |-> "run-event", value |-> c + (i - l)]
  /\ \A i \in l + 1 .. l + d : gs[i].kind = "run-event"

\* What a query sends.
LEMMA QuerySends ==
  ASSUME NEW fs \in Seq(Frame), NEW c \in Nat, NEW b \in Nat, NEW d \in Nat, NEW l \in Nat,
         c + d = b, l = Len(fs)
  PROVE  SentBehind(fs \o EventFrames(Between(c, b)), fs, c, l, d)
  <1> DEFINE new == EventFrames(Between(c, b))
  <1>1. new = [i \in 1 .. d |-> [kind |-> "run-event", value |-> c + i]]
    <2>1. b - c = d
      OBVIOUS
    <2>2. Between(c, b) = [i \in 1 .. d |-> c + i]
      BY <2>1 DEF Between
    <2> QED BY <2>2 DEF EventFrames
  <1>2. \A i \in 1 .. d : [kind |-> "run-event", value |-> c + i] \in Frame
    BY FrameMade
  <1>3. new \in Seq(Frame) /\ Len(new) = d
    <2>1. new \in [1 .. d -> Frame]
      BY <1>1, <1>2
    <2> HIDE DEF new
    <2> QED BY <2>1
  <1>4. \A i \in 1 .. d : new[i] = [kind |-> "run-event", value |-> c + i]
    BY <1>1
  <1> HIDE DEF new
  <1> DEFINE gs == fs \o new
  <1>5. /\ gs \in Seq(Frame) /\ Len(gs) = Len(fs) + Len(new)
        /\ \A i \in 1 .. Len(fs) + Len(new) :
              gs[i] = IF i <= Len(fs) THEN fs[i] ELSE new[i - Len(fs)]
    BY <1>3, ConcatProperties
  <1> HIDE DEF gs
  <1>6. /\ gs \in Seq(Frame) /\ Len(gs) = l + d
        /\ \A i \in 1 .. l + d : gs[i] = IF i <= l THEN fs[i] ELSE new[i - l]
    BY <1>3, <1>5
  <1>7. \A i \in 1 .. l : i \in 1 .. l + d /\ i <= l
    OBVIOUS
  <1>8. \A i \in l + 1 .. l + d : i \in 1 .. l + d /\ ~(i <= l) /\ i - l \in 1 .. d
    OBVIOUS
  <1>9. \A i \in l + 1 .. l + d :
           gs[i] = [kind |-> "run-event", value |-> c + (i - l)]
    <2>1. ASSUME NEW i \in l + 1 .. l + d
          PROVE  gs[i] = [kind |-> "run-event", value |-> c + (i - l)]
      <3>1. gs[i] = new[i - l] /\ i - l \in 1 .. d
        BY <1>6, <1>8
      <3> QED BY <1>4, <3>1
    <2> QED BY <2>1
  <1>10. ASSUME NEW i \in l + 1 .. l + d PROVE gs[i].kind = "run-event"
    <2>1. PICK v : v = c + (i - l)
      OBVIOUS
    <2>2. gs[i] = [kind |-> "run-event", value |-> v]
      BY <1>9, <2>1
    <2> QED BY <2>2
  <1>11. \A i \in 1 .. l : gs[i] = fs[i]
    BY <1>6, <1>7
  <1>12. SentBehind(gs, fs, c, l, d)
    BY <1>6, <1>9, <1>10, <1>11 DEF SentBehind
  <1> QED BY <1>12 DEF gs, new

\* The rest of the frames, when the first is taken.
LEMMA TailTaken ==
  ASSUME NEW fs \in Seq(Frame), fs # <<>>
  PROVE  /\ Len(fs) \in Nat \ {0}
         /\ Tail(fs) \in Seq(Frame) /\ Len(Tail(fs)) = Len(fs) - 1
         /\ \A i \in 1 .. Len(Tail(fs)) : i + 1 \in 1 .. Len(fs) /\ Tail(fs)[i] = fs[i + 1]
         /\ Head(fs) = fs[1] /\ fs[1] \in Frame
  <1>1. Len(fs) \in Nat \ {0}
    BY EmptySeq
  <1>2. /\ Tail(fs) \in Seq(Frame) /\ Len(Tail(fs)) = Len(fs) - 1
        /\ \A i \in 1 .. Len(Tail(fs)) : Tail(fs)[i] = fs[i + 1]
    BY HeadTailProperties
  <1>3. fs[1] \in Frame
    BY <1>1, ElementOfSeq
  <1> QED BY <1>1, <1>2, <1>3

\* What is sent stays sent when the first frame is delivered.
LEMMA StaysSent ==
  ASSUME NEW fs \in Seq(Frame), fs # <<>>, NEW k \in Nat, NEW l \in Nat, k <= l,
         fs[1].kind = "run-event" => fs[1].value <= l,
         NEW v \in Nat
  PROVE  /\ \A i \in 0 .. Len(fs) : Sent(k, fs, v, i + 1) => Sent(l, Tail(fs), v, i)
         /\ Sent(k, fs, v, 1) => v <= k
  <1>1. /\ Len(fs) \in Nat \ {0} /\ Len(Tail(fs)) = Len(fs) - 1
        /\ \A i \in 1 .. Len(Tail(fs)) : Tail(fs)[i] = fs[i + 1]
    BY TailTaken
  <1>2. ASSUME NEW i \in 0 .. Len(fs), Sent(k, fs, v, i + 1)
        PROVE  Sent(l, Tail(fs), v, i)
    <2>1. CASE v <= k
      BY <2>1 DEF Sent
    <2>2. ASSUME NEW j \in 1 .. Len(fs), j < i + 1, fs[j].kind = "run-event", fs[j].value = v
          PROVE  Sent(l, Tail(fs), v, i)
      <3>1. CASE j = 1
        BY <2>2, <3>1 DEF Sent
      <3>2. CASE j # 1
        <4>1. j - 1 \in 1 .. Len(Tail(fs)) /\ j - 1 < i
          BY <1>1, <2>2, <3>2
        <4>2. Tail(fs)[j - 1] = fs[j]
          BY <1>1, <4>1
        <4> QED BY <2>2, <4>1, <4>2 DEF Sent
      <3> QED BY <3>1, <3>2
    <2> QED BY <1>2, <2>1, <2>2 DEF Sent
  <1>3. Sent(k, fs, v, 1) => v <= k
    BY DEF Sent
  <1> QED BY <1>2, <1>3

\* What is sent stays sent when frames are added behind.
LEMMA StaysSentBefore ==
  ASSUME NEW fs \in Seq(Frame), NEW gs \in Seq(Frame), NEW k \in Nat,
         Len(fs) <= Len(gs), \A i \in 1 .. Len(fs) : gs[i] = fs[i]
  PROVE  \A v \in Nat, n \in Nat, m \in Nat : n <= m /\ Sent(k, fs, v, n) => Sent(k, gs, v, m)
  <1>1. Len(fs) \in Nat /\ Len(gs) \in Nat
    BY LenProperties
  <1> SUFFICES ASSUME NEW v \in Nat, NEW n \in Nat, NEW m \in Nat, n <= m, Sent(k, fs, v, n)
               PROVE  Sent(k, gs, v, m)
    OBVIOUS
  <1>2. CASE v <= k
    BY <1>2 DEF Sent
  <1>3. ASSUME NEW j \in 1 .. Len(fs), j < n, fs[j].kind = "run-event", fs[j].value = v
        PROVE  Sent(k, gs, v, m)
    <2>1. j \in 1 .. Len(gs) /\ j < m /\ gs[j] = fs[j]
      BY <1>1, <1>3
    <2> QED BY <1>3, <2>1 DEF Sent
  <1> QED BY <1>2, <1>3 DEF Sent

\* The first frame is delivered: if it is an event's the page holds it, and the rest follows.
LEMMA FrameDelivered ==
  ASSUME StreamInv, frames # <<>>, frames' = Tail(frames),
         UNCHANGED <<recorded, status, final, server>>,
         NShown' \in Nat, NShown <= NShown',
         frames[1].kind = "run-event" => frames[1].value <= NShown'
  PROVE  /\ FramesInv'
         /\ \A i \in 1 .. Len(frames') :
              frames'[i].kind = "done" =>
                 /\ status \in TerminalStatuses
                 /\ \E v \in Nat : v >= final /\ Sent(NShown', frames', v, i)
         /\ frames[1].kind = "done" => status \in TerminalStatuses /\ final <= NShown
  <1> USE DEF StreamInv
  <1>0. frames \in Seq(Frame) /\ NShown \in Nat /\ final \in Nat /\ server.cursor \in Nat
        /\ recorded \in Nat
    BY DEF TypeOK, Page, Server, NShown
  <1>1. /\ Len(frames) \in Nat \ {0}
        /\ Len(frames') = Len(frames) - 1
        /\ \A i \in 1 .. Len(frames') : i + 1 \in 1 .. Len(frames) /\ frames'[i] = frames[i + 1]
    BY <1>0, TailTaken
  <1>2. \A v \in Nat :
           /\ \A i \in 0 .. Len(frames) :
                Sent(NShown, frames, v, i + 1) => Sent(NShown', frames', v, i)
           /\ Sent(NShown, frames, v, 1) => v <= NShown
    BY <1>0, StaysSent
  <1>3. ASSUME NEW i \in 1 .. Len(frames'), frames'[i].kind = "run-event"
        PROVE  frames'[i].value \in 1 .. recorded /\ Sent(NShown', frames', frames'[i].value - 1, i)
    <2>1. /\ i + 1 \in 1 .. Len(frames) /\ i \in 0 .. Len(frames) /\ frames'[i] = frames[i + 1]
      BY <1>1
    <2>2. frames[i + 1].value \in 1 .. recorded /\ Sent(NShown, frames, frames[i + 1].value - 1, i + 1)
      BY <1>3, <2>1 DEF FramesInv
    <2>3. frames[i + 1].value - 1 \in Nat
      BY SMTT(30), <1>0, <2>2
    <2> QED BY <1>2, <2>1, <2>2, <2>3
  <1>4. server.at # "ended" => Sent(NShown', frames', server.cursor, Len(frames') + 1)
    <2>1. Len(frames) \in 0 .. Len(frames) /\ Len(frames') + 1 = Len(frames)
      BY <1>1
    <2> QED BY <1>0, <1>2, <2>1 DEF FramesInv
  <1>5. FramesInv'
    BY <1>3, <1>4 DEF FramesInv
  <1>6. ASSUME NEW i \in 1 .. Len(frames'), frames'[i].kind = "done"
        PROVE  /\ status \in TerminalStatuses
               /\ \E v \in Nat : v >= final /\ Sent(NShown', frames', v, i)
    <2>1. /\ i + 1 \in 1 .. Len(frames) /\ i \in 0 .. Len(frames) /\ frames'[i] = frames[i + 1]
      BY <1>1
    <2>2. /\ status \in TerminalStatuses
          /\ \E v \in Nat : v >= final /\ Sent(NShown, frames, v, i + 1)
      BY <1>6, <2>1 DEF DoneInv
    <2> QED BY <1>2, <2>1, <2>2
  <1>7. frames[1].kind = "done" => status \in TerminalStatuses /\ final <= NShown
    <2> SUFFICES ASSUME frames[1].kind = "done"
                 PROVE  status \in TerminalStatuses /\ final <= NShown
      OBVIOUS
    <2>1. 1 \in 1 .. Len(frames)
      BY <1>1
    <2>2. PICK v \in Nat : v >= final /\ Sent(NShown, frames, v, 1)
      BY <2>1 DEF DoneInv
    <2> QED BY <1>0, <1>2, <2>1, <2>2 DEF DoneInv
  <1> QED BY <1>5, <1>6, <1>7

LEMMA TimelineStarts == Init => StreamInv
  <1> SUFFICES ASSUME Init PROVE StreamInv
    OBVIOUS
  <1> USE DEF Init
  <1>1. TypeOK
    BY EmptySeq DEF TypeOK, Page, Source, Server
  <1>2. Len(page.shown) = 0 /\ UpTo(0) = <<>>
    BY UpToIsSeq, EmptySeq, 0 \in Nat
  <1>3. PageInv
    BY <1>2 DEF PageInv, ShownInOrder, NShown
  <1>4. FramesInv
    BY EmptySeq DEF FramesInv
  <1>5. DoneInv
    BY EmptySeq DEF DoneInv
  <1> QED BY <1>1, <1>3, <1>4, <1>5 DEF StreamInv

\* The run: the log grows, and its end is behind all it had recorded.
LEMMA RunGoesOn ==
  ASSUME StreamInv, Record \/ ChangeStatus
  PROVE  StreamInv'
  <1> USE DEF StreamInv
  <1>1. UNCHANGED <<page, source, server, frames, breaks>>
    BY DEF Record, ChangeStatus
  <1>2. recorded \in Nat /\ recorded' \in Nat /\ recorded <= recorded'
    BY DEF Record, ChangeStatus, TypeOK
  <1>3. TypeOK'
    <2>1. CASE Record
      BY <1>1, <2>1 DEF Record, TypeOK, Server
    <2>2. CASE ChangeStatus
      BY <1>1, <2>2 DEF ChangeStatus, TypeOK
    <2> QED BY <2>1, <2>2
  <1>4. NShown' = NShown /\ NShown \in Nat
    BY <1>1 DEF NShown, TypeOK, Page
  <1>5. PageInv'
    BY <1>1, <1>2, <1>4 DEF PageInv, ShownInOrder, NShown
  <1>6. FramesInv'
    BY <1>1, <1>2, <1>4 DEF FramesInv
  <1>7. DoneInv'
    <2>1. CASE Record
      BY <1>1, <1>4, <2>1 DEF Record, DoneInv
    <2>2. CASE ChangeStatus
      <3>1. status \notin TerminalStatuses
        BY <2>2 DEF ChangeStatus
      <3>2. /\ server.at # "drain" /\ ~source.done
            /\ \A i \in 1 .. Len(frames) : frames[i].kind # "done"
        BY <3>1 DEF DoneInv
      <3> QED BY <1>1, <3>2 DEF DoneInv
    <2> QED BY <2>1, <2>2
  <1> QED BY <1>3, <1>5, <1>6, <1>7

LEMMA LastShownIsNumber ==
  ASSUME TypeOK, ShownInOrder
  PROVE  LastShown = NShown /\ NShown \in Nat /\ NShown <= recorded
  <1>1. page.shown \in Seq(Nat) /\ NShown \in Nat
    BY DEF TypeOK, Page, NShown
  <1>2. page.shown = UpTo(NShown) /\ NShown <= recorded
    BY DEF ShownInOrder, NShown
  <1>3. CASE page.shown = <<>>
    BY <1>1, <1>2, <1>3, EmptySeq DEF LastShown, NShown
  <1>4. CASE page.shown # <<>>
    <2>1. NShown \in 1 .. NShown
      BY <1>1, <1>4, EmptySeq DEF NShown
    <2>2. page.shown[NShown] = NShown
      BY <1>1, <1>2, <2>1, UpToIsSeq
    <2> QED BY <1>1, <1>2, <1>4, <2>2 DEF LastShown, Last, NShown
  <1> QED BY <1>3, <1>4

\* The page: it loads, renders, and opens a source behind what it shows.
LEMMA PageGoesOn ==
  ASSUME StreamInv, PageStep
  PROVE  StreamInv'
  <1> USE DEF StreamInv
  <1>1. UNCHANGED <<status, version, recorded, final, breaks>>
    BY DEF PageStep, LoadRun, LoadEvents, Render, Effect, runVars
  <1>2. page \in Page /\ NShown \in Nat /\ recorded \in Nat
    BY DEF TypeOK, Page, NShown
  <1>3. CASE LoadRun
    <2>1. /\ page' = [page EXCEPT !.phase = "loading", !.status = status]
          /\ page.phase = "blank" /\ UNCHANGED <<source, server, frames>>
      BY <1>3 DEF LoadRun
    <2>2. page' \in Page /\ page'.shown = page.shown /\ page'.phase = "loading"
      BY <1>2, <2>1 DEF Page, TypeOK
    <2>3. TypeOK'
      BY <1>1, <2>1, <2>2 DEF TypeOK
    <2>4. NShown' = NShown
      BY <2>2 DEF NShown
    <2>5. PageInv'
      BY <1>1, <2>1, <2>2, <2>4 DEF PageInv, ShownInOrder
    <2>6. FramesInv' /\ DoneInv'
      BY <1>1, <2>1, <2>4 DEF FramesInv, DoneInv
    <2> QED BY <2>3, <2>5, <2>6
  <1>4. CASE LoadEvents
    <2>1. /\ page' = [page EXCEPT !.phase = "effect", !.shown = UpTo(recorded), !.after = recorded]
          /\ page.phase = "loading" /\ UNCHANGED <<source, server, frames>>
      BY <1>4 DEF LoadEvents
    <2>2. UpTo(recorded) \in Seq(Nat) /\ Len(UpTo(recorded)) = recorded
      BY <1>2, UpToIsSeq
    <2>3. /\ page' \in Page /\ page'.shown = UpTo(recorded) /\ page'.phase = "effect"
          /\ page'.after = recorded
      BY <1>2, <2>1, <2>2 DEF Page
    <2>4. TypeOK'
      BY <1>1, <2>1, <2>3 DEF TypeOK
    <2>5. NShown' = recorded /\ ShownInOrder'
      BY <1>1, <1>2, <2>2, <2>3 DEF NShown, ShownInOrder
    <2>6. page.shown = <<>> /\ NShown = 0 /\ frames = <<>> /\ server.at = "ended" /\ ~source.done
      BY <2>1, EmptySeq DEF PageInv, NShown
    <2>7. PageInv'
      <3>1. source.after <= NShown /\ source.lastId <= NShown
        BY DEF PageInv
      <3>2. source.after \in Nat /\ source.lastId \in Nat
        BY DEF TypeOK, Source
      <3> QED BY <1>2, <2>1, <2>3, <2>5, <2>6, <3>1, <3>2 DEF PageInv
    <2>8. FramesInv' /\ DoneInv'
      BY <2>1, <2>6, EmptySeq DEF FramesInv, DoneInv
    <2> QED BY <2>4, <2>7, <2>8
  <1>5. CASE Render
    <2>1. /\ page' = [page EXCEPT !.phase = "effect", !.after = LastShown]
          /\ page.phase = "live" /\ UNCHANGED <<source, server, frames>>
      BY <1>5 DEF Render
    <2>2. LastShown = NShown
      BY LastShownIsNumber DEF PageInv
    <2>3. /\ page' \in Page /\ page'.shown = page.shown /\ page'.phase = "effect"
          /\ page'.after = NShown
      BY <1>2, <2>1, <2>2 DEF Page
    <2>4. TypeOK'
      BY <1>1, <2>1, <2>3 DEF TypeOK
    <2>5. NShown' = NShown
      BY <2>3 DEF NShown
    <2>6. PageInv'
      BY <1>1, <1>2, <2>1, <2>3, <2>5 DEF PageInv, ShownInOrder
    <2>7. FramesInv' /\ DoneInv'
      BY <1>1, <2>1, <2>5 DEF FramesInv, DoneInv
    <2> QED BY <2>4, <2>6, <2>7
  <1>6. CASE Effect
    <2>1. /\ page.phase = "effect"
          /\ page' = [page EXCEPT !.phase = "live", !.seen = page.status]
          /\ source' = [open |-> page.status \notin TerminalStatuses, after |-> page.after,
                        lastId |-> 0, done |-> FALSE, refused |-> FALSE]
          /\ server' = [server EXCEPT !.at = "ended"]
          /\ frames' = <<>>
      BY <1>6 DEF Effect
    <2>2. page' \in Page /\ page'.shown = page.shown /\ page'.phase = "live"
      BY <1>2, <2>1 DEF Page
    <2>3. source' \in Source /\ source'.after = page.after /\ source'.lastId = 0
          /\ source'.done = FALSE
      BY <1>2, <2>1 DEF Page, Source
    <2>4. server' \in Server /\ server'.at = "ended" /\ server'.cursor = server.cursor
      BY <2>1 DEF TypeOK, Server
    <2>5. TypeOK'
      BY <1>1, <2>1, <2>2, <2>3, <2>4, EmptySeq DEF TypeOK
    <2>6. NShown' = NShown
      BY <2>2 DEF NShown
    <2>7. PageInv'
      BY <1>1, <1>2, <2>1, <2>2, <2>3, <2>6 DEF PageInv, ShownInOrder
    <2>8. FramesInv' /\ DoneInv'
      BY <2>1, <2>3, <2>4, EmptySeq DEF FramesInv, DoneInv
    <2> QED BY <2>5, <2>7, <2>8
  <1> QED BY <1>3, <1>4, <1>5, <1>6 DEF PageStep

\* An event is delivered: shown already, or the next one.
LEMMA EventArrives ==
  ASSUME StreamInv, DeliverEvent
  PROVE  StreamInv'
  <1> USE DEF StreamInv
  <1>1. /\ source.open /\ frames # <<>> /\ frames' = Tail(frames)
        /\ UNCHANGED <<status, version, recorded, final, server, breaks>>
    BY DEF DeliverEvent, runVars
  <1>2. /\ frames \in Seq(Frame) /\ page \in Page /\ source \in Source /\ recorded \in Nat
        /\ NShown \in Nat
    BY DEF TypeOK, Page, NShown
  <1>3. /\ Len(frames) \in Nat \ {0} /\ frames' \in Seq(Frame)
        /\ Head(frames) = frames[1] /\ frames[1] \in Frame
    BY <1>1, <1>2, TailTaken
  <1>4. PICK v \in Nat : v = frames[1].value /\ frames[1].kind = "run-event" /\ v \in 1 .. recorded
    BY <1>3, FrameFields, 1 \in 1 .. Len(frames) DEF DeliverEvent, FramesInv
  <1>5. v <= NShown + 1
    <2>1. Sent(NShown, frames, v - 1, 1)
      BY <1>3, <1>4, 1 \in 1 .. Len(frames) DEF FramesInv
    <2> QED BY <1>2, <1>4, <2>1 DEF Sent
  <1>6. /\ source' = [source EXCEPT !.lastId = v]
        /\ page' = IF Contains(page.shown, v) THEN page
                   ELSE [page EXCEPT !.shown = Append(page.shown, v)]
    BY <1>3, <1>4 DEF DeliverEvent
  <1>7. source' \in Source /\ source'.lastId = v /\ source'.open = source.open
        /\ source'.after = source.after /\ source'.done = source.done
    BY <1>2, <1>6 DEF Source
  <1>8. page.shown = UpTo(NShown) /\ \A i \in 1 .. NShown : page.shown[i] = i
    BY <1>2, UpToIsSeq DEF PageInv, ShownInOrder, NShown
  <1>9. /\ page' \in Page /\ page'.phase = page.phase /\ page'.after = page.after
        /\ NShown' \in Nat /\ NShown <= NShown' /\ v <= NShown' /\ NShown' <= recorded
        /\ page'.shown = UpTo(NShown')
    <2>1. CASE v <= NShown
      <3>1. Contains(page.shown, v)
        BY <1>4, <1>8, <2>1 DEF Contains, NShown
      <3>2. page' = page
        BY <1>6, <3>1
      <3> QED BY <1>2, <1>8, <2>1, <3>2 DEF NShown, PageInv, ShownInOrder
    <2>2. CASE v = NShown + 1
      <3>1. ~Contains(page.shown, v)
        BY <1>2, <1>8, <2>2 DEF Contains, NShown
      <3>2. page' = [page EXCEPT !.shown = Append(page.shown, v)]
        BY <1>6, <3>1
      <3>3. Append(page.shown, v) = UpTo(NShown + 1)
        BY <1>2, <1>8, <2>2, NextIsShown
      <3>4. UpTo(NShown + 1) \in Seq(Nat) /\ Len(UpTo(NShown + 1)) = NShown + 1
        BY <1>2, UpToIsSeq, NShown + 1 \in Nat
      <3>5. page' \in Page /\ page'.shown = UpTo(NShown + 1) /\ page'.phase = page.phase
            /\ page'.after = page.after
        BY <1>2, <3>2, <3>3, <3>4 DEF Page
      <3>6. NShown' = NShown + 1
        BY <3>4, <3>5 DEF NShown
      <3> QED BY <1>2, <1>4, <2>2, <3>5, <3>6
    <2> QED BY <1>2, <1>4, <1>5, <2>1, <2>2
  <1>10. TypeOK'
    BY <1>1, <1>3, <1>7, <1>9 DEF TypeOK
  <1>11. PageInv'
    <2>1. page.phase \notin {"blank", "loading"}
      BY <1>1 DEF PageInv
    <2>2. page.after \in Nat /\ source.after \in Nat
      BY <1>2 DEF Page, Source
    <2>3. ShownInOrder'
      BY <1>1, <1>9 DEF ShownInOrder, NShown
    <2>4. page'.phase = "effect" => page'.after <= NShown'
      BY <1>2, <1>9, <2>2 DEF PageInv
    <2>5. source'.after <= NShown' /\ source'.lastId <= NShown'
      BY <1>2, <1>7, <1>9, <2>2 DEF PageInv
    <2> QED BY <1>9, <2>1, <2>3, <2>4, <2>5 DEF PageInv
  <1>12. /\ FramesInv'
         /\ \A i \in 1 .. Len(frames') :
              frames'[i].kind = "done" =>
                 /\ status \in TerminalStatuses
                 /\ \E w \in Nat : w >= final /\ Sent(NShown', frames', w, i)
    BY <1>1, <1>4, <1>9, FrameDelivered
  <1>13. DoneInv'
    <2>1. final \in Nat
      BY DEF TypeOK
    <2> QED BY <1>1, <1>2, <1>7, <1>9, <1>12, <2>1 DEF DoneInv
  <1> QED BY <1>10, <1>11, <1>12, <1>13

\* A status or the end is delivered.
LEMMA OtherFrameArrives ==
  ASSUME StreamInv, DeliverStatus \/ DeliverDone
  PROVE  StreamInv'
  <1> USE DEF StreamInv
  <1>1. /\ source.open /\ frames # <<>> /\ frames' = Tail(frames)
        /\ UNCHANGED <<status, version, recorded, final, server, breaks>>
    BY DEF DeliverStatus, DeliverDone, runVars
  <1>2. /\ frames \in Seq(Frame) /\ page \in Page /\ source \in Source /\ NShown \in Nat
    BY DEF TypeOK, Page, NShown
  <1>3. /\ frames' \in Seq(Frame) /\ Head(frames) = frames[1] /\ frames[1] \in Frame
    BY <1>1, <1>2, TailTaken
  <1>4. frames[1].kind # "run-event"
    BY <1>3 DEF DeliverStatus, DeliverDone
  <1>5. /\ page' \in Page /\ page'.shown = page.shown /\ page'.phase = page.phase
        /\ page'.after = page.after
    <2>1. CASE DeliverStatus
      <3>1. page' = [page EXCEPT !.status = frames[1].value] /\ frames[1].kind = "run-status"
        BY <1>3, <2>1 DEF DeliverStatus
      <3>2. frames[1].value \in Statuses
        BY <1>3, <3>1, FrameFields
      <3> QED BY <1>2, <3>1, <3>2 DEF Page
    <2>2. CASE DeliverDone
      BY <1>2, <2>2 DEF DeliverDone
    <2> QED BY <2>1, <2>2
  <1>6. /\ source' \in Source /\ source'.after = source.after /\ source'.lastId = source.lastId
        /\ source'.done => source.done \/ frames[1].kind = "done"
    <2>1. CASE DeliverStatus
      BY <1>2, <2>1 DEF DeliverStatus
    <2>2. CASE DeliverDone
      <3>1. source' = [source EXCEPT !.open = FALSE, !.done = TRUE] /\ frames[1].kind = "done"
        BY <1>3, <2>2 DEF DeliverDone
      <3> QED BY <1>2, <3>1 DEF Source
    <2> QED BY <2>1, <2>2
  <1>7. NShown' = NShown /\ NShown' \in Nat /\ NShown <= NShown'
    BY <1>2, <1>5 DEF NShown
  <1>8. TypeOK'
    BY <1>1, <1>3, <1>5, <1>6 DEF TypeOK
  <1>9. PageInv'
    <2>1. page.phase \notin {"blank", "loading"}
      BY <1>1 DEF PageInv
    <2> QED BY <1>1, <1>5, <1>6, <1>7, <2>1 DEF PageInv, ShownInOrder
  <1>10. /\ FramesInv'
         /\ \A i \in 1 .. Len(frames') :
              frames'[i].kind = "done" =>
                 /\ status \in TerminalStatuses
                 /\ \E w \in Nat : w >= final /\ Sent(NShown', frames', w, i)
         /\ frames[1].kind = "done" => status \in TerminalStatuses /\ final <= NShown
    BY <1>1, <1>4, <1>7, FrameDelivered
  <1>11. DoneInv'
    BY <1>1, <1>6, <1>7, <1>10 DEF DoneInv
  <1> QED BY <1>8, <1>9, <1>10, <1>11

\* The nth of d events behind the cth is one of the t that are recorded.
LEMMA CountedWithin ==
  ASSUME NEW c \in Nat, NEW d \in Nat, NEW t \in Nat, c + d <= t, NEW n \in 1 .. d
  PROVE  c + n \in 1 .. t
  OBVIOUS

\* The handler sends d events behind its cursor c, and no event behind them.
LEMMA EventsAreSent ==
  ASSUME StreamInv, server.at # "ended", NEW c \in Nat, NEW d \in Nat, NEW l \in Nat,
         c = server.cursor, l = Len(frames), c + d <= recorded, server'.cursor = c + d,
         frames' \in Seq(Frame), Len(frames') >= l + d,
         \A i \in 1 .. l : frames'[i] = frames[i],
         \A i \in l + 1 .. l + d :
            frames'[i] = [kind |-> "run-event", value |-> c + (i - l)],
         \A i \in 1 .. Len(frames') : i > l + d => frames'[i].kind # "run-event",
         UNCHANGED <<page, recorded>>
  PROVE  FramesInv' /\ Sent(NShown, frames', c + d, l + d + 1)
  <1> USE DEF StreamInv
  <1>1. /\ frames \in Seq(Frame) /\ NShown \in Nat /\ recorded \in Nat
        /\ Len(frames') \in Nat
    BY LenProperties DEF TypeOK, Page, NShown
  <1>2. NShown' = NShown
    BY DEF NShown
  <1>3. Sent(NShown, frames, c, l + 1)
    BY DEF FramesInv
  <1>4. \A v \in Nat, n \in Nat, m \in Nat :
           n <= m /\ Sent(NShown, frames, v, n) => Sent(NShown, frames', v, m)
    <2>1. Len(frames) <= Len(frames') /\ \A i \in 1 .. Len(frames) : frames'[i] = frames[i]
      BY <1>1
    <2> QED BY <1>1, <2>1, StaysSentBefore
  <1>5. ASSUME NEW n \in 1 .. d
        PROVE  /\ l + n \in 1 .. Len(frames')
               /\ frames'[l + n].kind = "run-event" /\ frames'[l + n].value = c + n
    <2>1. l + n \in l + 1 .. l + d /\ (l + n) - l = n /\ l + n \in 1 .. Len(frames')
      BY <1>1
    <2>2. frames'[l + n] = [kind |-> "run-event", value |-> c + n]
      BY <2>1
    <2> QED BY <2>1, <2>2
  <1>6. ASSUME NEW n \in 0 .. d
        PROVE  Sent(NShown, frames', c + n, l + n + 1)
    <2>1. CASE n = 0
      <3>1. c + n = c /\ l + n + 1 = l + 1 /\ l + 1 \in Nat
        BY <2>1
      <3> QED BY <1>3, <1>4, <3>1
    <2>2. CASE n # 0
      <3>1. n \in 1 .. d /\ l + n < l + n + 1
        BY <2>2
      <3> QED BY <1>5, <3>1 DEF Sent
    <2> QED BY <2>1, <2>2
  <1>7. ASSUME NEW i \in 1 .. Len(frames'), frames'[i].kind = "run-event"
        PROVE  frames'[i].value \in 1 .. recorded /\ Sent(NShown, frames', frames'[i].value - 1, i)
    <2>1. CASE i <= l
      <3>1. /\ frames'[i] = frames[i] /\ frames[i].value \in 1 .. recorded
            /\ Sent(NShown, frames, frames[i].value - 1, i)
        BY <1>1, <1>7, <2>1 DEF FramesInv
      <3>2. PICK w \in 1 .. recorded : w = frames[i].value
        BY <3>1
      <3>3. w - 1 \in Nat /\ i \in Nat /\ i <= i
        BY SMTT(30), <1>1, <3>2
      <3>4. Sent(NShown, frames', w - 1, i)
        BY <1>4, <3>1, <3>2, <3>3
      <3> QED BY <3>1, <3>2, <3>4
    <2>2. CASE i > l
      <3>1. i <= l + d
        BY SMTT(30), <1>7
      <3>2. i - l \in 1 .. d /\ l + (i - l) = i
        BY <1>1, <2>2, <3>1
      <3>3. frames'[i].value = c + (i - l)
        BY <1>5, <3>2
      <3>4. (i - l) - 1 \in 0 .. d /\ l + ((i - l) - 1) + 1 = i
            /\ c + ((i - l) - 1) = frames'[i].value - 1
        BY SMTT(30), <1>1, <3>2, <3>3
      <3>5. Sent(NShown, frames', frames'[i].value - 1, i)
        BY <1>6, <3>4
      <3>6. c + (i - l) \in 1 .. recorded
        <4>1. PICK n \in 1 .. d : n = i - l
          BY <3>2
        <4>2. c + n \in 1 .. recorded
          BY <1>1, CountedWithin
        <4> QED BY <4>1, <4>2
      <3> QED BY <3>3, <3>5, <3>6
    <2> QED BY <1>1, <2>1, <2>2
  <1>8. Sent(NShown, frames', c + d, l + d + 1)
    BY <1>6, d \in 0 .. d
  <1>9. Sent(NShown, frames', server'.cursor, Len(frames') + 1)
    <2>1. \A n, m \in Nat : n <= m /\ Sent(NShown, frames', c + d, n) => Sent(NShown, frames', c + d, m)
      BY SMTT(30), <1>1 DEF Sent
    <2>2. l + d + 1 \in Nat /\ Len(frames') + 1 \in Nat /\ l + d + 1 <= Len(frames') + 1
      BY SMTT(30), <1>1
    <2> QED BY <1>8, <2>1, <2>2
  <1>10. FramesInv'
    BY <1>2, <1>7, <1>9 DEF FramesInv
  <1> QED BY <1>8, <1>10

LEMMA SmallerOfTwo ==
  ASSUME NEW a \in Nat, NEW b \in Nat
  PROVE  Min({a, b}) = IF a <= b THEN a ELSE b
  <1> DEFINE least == IF a <= b THEN a ELSE b
  <1>1. \A x \in {a, b} : (\A y \in {a, b} : x <= y) <=> x = least
    OBVIOUS
  <1>2. least \in {a, b}
    OBVIOUS
  <1> HIDE DEF least
  <1>3. Min({a, b}) = CHOOSE x \in {a, b} : \A y \in {a, b} : x <= y
    BY DEF Min
  <1>4. Min({a, b}) = least
    BY <1>1, <1>2, <1>3
  <1> QED BY <1>4 DEF least

\* What the handler sends disturbs neither the page nor what was promised of "done".
LEMMA DoneStays ==
  ASSUME StreamInv, UNCHANGED <<page, source, status, final>>,
         frames' \in Seq(Frame), Len(frames) <= Len(frames'),
         \A i \in 1 .. Len(frames) : frames'[i] = frames[i],
         server'.at = "drain" => status \in TerminalStatuses,
         \A i \in 1 .. Len(frames') :
            i > Len(frames) /\ frames'[i].kind = "done" =>
               /\ status \in TerminalStatuses
               /\ \E v \in Nat : v >= final /\ Sent(NShown, frames', v, i)
  PROVE  DoneInv'
  <1> USE DEF StreamInv
  <1>1. /\ frames \in Seq(Frame) /\ NShown \in Nat /\ NShown' = NShown
        /\ Len(frames) \in Nat /\ Len(frames') \in Nat
    BY LenProperties DEF TypeOK, Page, NShown
  <1>2. \A v \in Nat, n \in Nat, m \in Nat :
           n <= m /\ Sent(NShown, frames, v, n) => Sent(NShown, frames', v, m)
    BY <1>1, StaysSentBefore
  <1>3. ASSUME NEW i \in 1 .. Len(frames'), frames'[i].kind = "done"
        PROVE  /\ status \in TerminalStatuses
               /\ \E v \in Nat : v >= final /\ Sent(NShown, frames', v, i)
    <2>1. CASE i <= Len(frames)
      <3>1. i \in 1 .. Len(frames) /\ i \in Nat /\ i <= i /\ frames'[i] = frames[i]
        BY <1>1, <2>1
      <3>2. /\ status \in TerminalStatuses
            /\ \E v \in Nat : v >= final /\ Sent(NShown, frames, v, i)
        BY <1>3, <3>1 DEF DoneInv
      <3> QED BY <1>2, <3>1, <3>2
    <2>2. CASE i > Len(frames)
      BY <1>3, <2>2
    <2> QED BY SMTT(30), <1>1, <2>1, <2>2
  <1> QED BY <1>1, <1>3 DEF DoneInv

\* The page and its source are as they were.
LEMMA PageStays ==
  ASSUME PageInv, UNCHANGED <<page, source, recorded>>,
         page.phase \in {"blank", "loading"} => frames' = <<>> /\ server'.at = "ended"
  PROVE  PageInv' /\ NShown' = NShown
BY DEF PageInv, ShownInOrder, NShown

\* The handler: it connects behind what was delivered, and asks its three queries.
LEMMA HandlerGoesOn ==
  ASSUME StreamInv, Serve
  PROVE  StreamInv'
  <1> USE DEF StreamInv
  <1>1. UNCHANGED <<status, version, recorded, final, page, source, breaks>>
    BY DEF Serve, Connect, Poll, CheckStatus, Drain, runVars
  <1>2. /\ frames \in Seq(Frame) /\ server \in Server /\ recorded \in Nat /\ version \in Nat
        /\ final \in 0 .. recorded
        /\ NShown \in Nat /\ Len(frames) \in Nat /\ server.cursor \in Nat /\ server.cursor <= recorded
    BY LenProperties DEF TypeOK, Page, NShown, Server
  <1>3. CASE Connect
    <2>1. PICK c : /\ c = IF source.lastId # 0 THEN source.lastId ELSE source.after
                   /\ server' = [at |-> "poll", lastVersion |-> version, cursor |-> c]
                   /\ frames = <<>> /\ frames' = frames /\ source.open
      BY <1>3 DEF Connect
    <2>2. c \in Nat /\ c <= NShown /\ NShown <= recorded
      BY <2>1 DEF PageInv, ShownInOrder, NShown, TypeOK, Source
    <2>3. server' \in Server /\ server'.at = "poll" /\ server'.cursor = c /\ c <= recorded
      BY <1>2, <2>1, <2>2 DEF Server
    <2>4. TypeOK'
      BY <1>1, <2>1, <2>3 DEF TypeOK
    <2>5. PageInv' /\ NShown' = NShown
      <3>1. page.phase \notin {"blank", "loading"}
        BY <2>1 DEF PageInv
      <3> QED BY <1>1, <3>1, PageStays
    <2>6. FramesInv'
      BY <2>1, <2>2, <2>3, <2>5, EmptySeq DEF FramesInv, Sent
    <2>7. DoneInv'
      BY <1>1, <2>1, <2>3, <2>5, EmptySeq DEF DoneInv
    <2> QED BY <2>4, <2>5, <2>6, <2>7
  <1>4. ASSUME server.at # "ended"
        PROVE  page.phase \notin {"blank", "loading"}
    BY <1>4 DEF PageInv
  <1>5. PICK c \in Nat, l \in Nat : c = server.cursor /\ l = Len(frames)
    BY <1>2
  <1>6. CASE Poll
    <2>1. PICK upTo \in Nat : /\ upTo = Min({recorded, c + Take})
                               /\ c <= upTo /\ upTo <= recorded
      <3>1. c + Take \in Nat /\ Take \in Nat
        OBVIOUS
      <3> QED BY <1>2, <1>5, <3>1, SmallerOfTwo
    <2>2. /\ server.at = "poll"
          /\ frames' = frames \o EventFrames(Between(c, upTo))
          /\ server' = [server EXCEPT !.at = "status", !.cursor = upTo]
      BY <1>6, <1>5, <2>1 DEF Poll
    <2>3. server' \in Server /\ server'.at = "status" /\ server'.cursor = upTo
      BY <1>2, <2>2 DEF Server
    <2>4. PICK d \in Nat : c + d = upTo
      <3>1. upTo - c \in Nat /\ c + (upTo - c) = upTo
        BY <2>1
      <3> QED BY <3>1
    <2>5. /\ frames' \in Seq(Frame) /\ Len(frames') = l + d
          /\ \A i \in 1 .. l : frames'[i] = frames[i]
          /\ \A i \in l + 1 .. l + d :
                frames'[i] = [kind |-> "run-event", value |-> c + (i - l)]
          /\ \A i \in l + 1 .. l + d : frames'[i].kind = "run-event"
      <3>1. SentBehind(frames \o EventFrames(Between(c, upTo)), frames, c, l, d)
        BY <1>2, <1>5, <2>4, QuerySends
      <3>2. SentBehind(frames', frames, c, l, d)
        BY <2>2, <3>1
      <3> QED BY <3>2 DEF SentBehind
    <2>6. /\ \A i \in 1 .. Len(frames') : ~(i > l + d)
          /\ l <= Len(frames') /\ l + d <= Len(frames')
      BY <2>5
    <2>7. FramesInv'
      <3>1. server.at # "ended" /\ c + d <= recorded /\ server'.cursor = c + d
        BY <2>1, <2>2, <2>3, <2>4
      <3> QED BY <1>1, <1>5, <2>5, <2>6, <3>1, EventsAreSent
    <2>8. TypeOK'
      BY <1>1, <2>1, <2>3, <2>5 DEF TypeOK
    <2>9. PageInv' /\ NShown' = NShown
      BY <1>1, <1>4, <2>2, PageStays
    <2>10. DoneInv'
      <3>1. ASSUME NEW i \in 1 .. Len(frames'), i > Len(frames) PROVE frames'[i].kind # "done"
        <4>1. i \in l + 1 .. l + d
          BY <1>5, <2>5, <3>1
        <4> QED BY <2>5, <4>1
      <3> QED BY <1>1, <1>5, <2>3, <2>5, <2>6, <3>1, DoneStays
    <2> QED BY <2>7, <2>8, <2>9, <2>10
  <1>7. CASE CheckStatus
    <2>1. /\ server.at = "status"
          /\ server' = [server EXCEPT !.lastVersion = version,
                          !.at = IF status \in TerminalStatuses THEN "drain" ELSE "poll"]
          /\ \/ frames' = frames
             \/ frames' = Append(frames, [kind |-> "run-status", value |-> status])
      BY <1>7 DEF CheckStatus
    <2>2. /\ server' \in Server /\ server'.cursor = server.cursor
          /\ server'.at = "drain" => status \in TerminalStatuses
      BY <1>2, <2>1 DEF Server
    <2>3. /\ frames' \in Seq(Frame) /\ Len(frames) <= Len(frames')
          /\ \A i \in 1 .. Len(frames) : frames'[i] = frames[i]
          /\ \A i \in 1 .. Len(frames') : i > Len(frames) => frames'[i].kind = "run-status"
      <3>1. CASE frames' = frames
        BY <1>2, <3>1
      <3>2. CASE frames' = Append(frames, [kind |-> "run-status", value |-> status])
        <4> DEFINE told == [kind |-> "run-status", value |-> status]
        <4>1. told \in Frame /\ told.kind = "run-status"
          BY FrameMade DEF TypeOK
        <4> HIDE DEF told
        <4>2. /\ frames' \in Seq(Frame) /\ Len(frames') = Len(frames) + 1
              /\ \A i \in 1 .. Len(frames) : frames'[i] = frames[i]
              /\ frames'[Len(frames) + 1] = told
          BY <1>2, <3>2, <4>1, AppendProperties DEF told
        <4> QED BY <1>2, <4>1, <4>2
      <3> QED BY <2>1, <3>1, <3>2
    <2>4. FramesInv'
      <3>1. /\ server.at # "ended" /\ c + 0 <= recorded /\ server'.cursor = c + 0
            /\ Len(frames') >= l + 0 /\ l + 0 = l
        BY <1>2, <1>5, <2>1, <2>2, <2>3
      <3>2. \A i \in l + 1 .. l + 0 :
               frames'[i] = [kind |-> "run-event", value |-> c + (i - l)]
        OBVIOUS
      <3>3. /\ \A i \in 1 .. l : frames'[i] = frames[i]
            /\ \A i \in 1 .. Len(frames') : i > l + 0 => frames'[i].kind # "run-event"
        BY <1>5, <2>3, <3>1
      <3> QED BY <1>1, <1>5, <2>3, <3>1, <3>2, <3>3, 0 \in Nat, EventsAreSent
    <2>5. TypeOK'
      BY <1>1, <1>2, <2>2, <2>3 DEF TypeOK
    <2>6. PageInv' /\ NShown' = NShown
      BY <1>1, <1>4, <2>1, PageStays
    <2>7. DoneInv'
      BY <1>1, <2>2, <2>3, DoneStays
    <2> QED BY <2>4, <2>5, <2>6, <2>7
  <1>8. CASE Drain
    <2> DEFINE sent == frames \o EventFrames(Between(c, recorded))
               last == [kind |-> "done"]
    <2>1. /\ server.at = "drain" /\ frames' = Append(sent, last)
          /\ server' = [server EXCEPT !.at = "ended", !.cursor = recorded]
      BY <1>8, <1>5 DEF Drain
    <2>2. server' \in Server /\ server'.at = "ended" /\ server'.cursor = recorded
      BY <1>2, <2>1 DEF Server
    <2>3. PICK d \in Nat : c + d = recorded
      <3>1. recorded - c \in Nat /\ c + (recorded - c) = recorded
        BY <1>2, <1>5
      <3> QED BY <3>1
    <2>4. /\ sent \in Seq(Frame) /\ Len(sent) = l + d
          /\ \A i \in 1 .. l : sent[i] = frames[i]
          /\ \A i \in l + 1 .. l + d :
                sent[i] = [kind |-> "run-event", value |-> c + (i - l)]
          /\ \A i \in l + 1 .. l + d : sent[i].kind = "run-event"
      <3>1. SentBehind(sent, frames, c, l, d)
        BY <1>2, <1>5, <2>3, QuerySends
      <3> HIDE DEF sent
      <3> QED BY <3>1 DEF SentBehind
    <2>5. last \in Frame /\ last.kind = "done"
      BY FrameMade
    <2> HIDE DEF sent, last
    <2>6. PICK n \in Nat : n = l + d
      OBVIOUS
    <2>7. /\ frames' \in Seq(Frame) /\ Len(frames') = n + 1
          /\ \A i \in 1 .. n : frames'[i] = sent[i]
          /\ frames'[n + 1] = last
      BY <2>1, <2>4, <2>5, <2>6, AppendProperties
    <2>8. \A i \in 1 .. l : frames'[i] = frames[i]
      <3>1. \A i \in 1 .. l : i \in 1 .. n
        BY <2>6
      <3> QED BY <2>4, <2>7, <3>1
    <2>9. \A i \in l + 1 .. l + d :
             frames'[i] = [kind |-> "run-event", value |-> c + (i - l)]
      <3>1. \A i \in l + 1 .. l + d : i \in 1 .. n
        BY <2>6
      <3> QED BY <2>4, <2>7, <3>1
    <2>10. \A i \in 1 .. Len(frames') : i > n => i = n + 1 /\ frames'[i].kind = "done"
      <3>1. \A i \in 1 .. n + 1 : i > n => i = n + 1
        OBVIOUS
      <3> QED BY <2>5, <2>7, <3>1
    <2>11. FramesInv' /\ Sent(NShown, frames', recorded, n + 1)
      <3>1. server.at # "ended" /\ c + d <= recorded /\ server'.cursor = c + d
        BY <1>2, <2>1, <2>2, <2>3
      <3>2. Len(frames') >= l + d
        BY <2>6, <2>7
      <3>3. \A i \in 1 .. Len(frames') : i > l + d => frames'[i].kind # "run-event"
        BY <2>6, <2>10
      <3>4. FramesInv' /\ Sent(NShown, frames', c + d, l + d + 1)
        BY <1>1, <1>5, <2>7, <2>8, <2>9, <3>1, <3>2, <3>3, EventsAreSent
      <3> QED BY <2>3, <2>6, <3>4
    <2>12. TypeOK'
      BY <1>1, <1>2, <2>2, <2>7 DEF TypeOK
    <2>13. PageInv' /\ NShown' = NShown
      BY <1>1, <1>4, <2>1, PageStays
    <2>14. DoneInv'
      <3>1. status \in TerminalStatuses
        BY <2>1 DEF DoneInv
      <3>2. ASSUME NEW i \in 1 .. Len(frames'), i > Len(frames), frames'[i].kind = "done"
            PROVE  \E v \in Nat : v >= final /\ Sent(NShown, frames', v, i)
        <4>1. i = n + 1
          <5>1. i \notin l + 1 .. l + d
            <6>1. ASSUME i \in l + 1 .. l + d PROVE frames'[i].kind = "run-event"
              <7>1. i \in 1 .. n /\ sent[i].kind = "run-event"
                BY <2>4, <2>6, <6>1
              <7> QED BY <2>7, <7>1
            <6> QED BY <3>2, <6>1
          <5>2. i > n
            BY <1>5, <2>6, <3>2, <5>1
          <5> QED BY <2>10, <5>2
        <4>2. recorded >= final
          BY <1>2
        <4> QED BY <1>2, <2>11, <4>1, <4>2
      <3>3. Len(frames) <= Len(frames') /\ server'.at # "drain"
        BY <1>5, <2>2, <2>6, <2>7
      <3> QED BY <1>1, <1>5, <2>7, <2>8, <3>1, <3>2, <3>3, DoneStays
    <2> QED BY <2>11, <2>12, <2>13, <2>14
  <1> QED BY <1>3, <1>6, <1>7, <1>8 DEF Serve

\* The connection ends: what was sent is still delivered, or all of it is lost.
LEMMA ConnectionEnds ==
  ASSUME StreamInv, Expire \/ Break
  PROVE  StreamInv'
  <1> USE DEF StreamInv
  <1>1. /\ UNCHANGED <<status, version, recorded, final, page, source>>
        /\ server' = [server EXCEPT !.at = "ended"]
        /\ frames' = frames \/ frames' = <<>>
        /\ breaks < MaxBreaks /\ breaks' = breaks + 1
    BY DEF Expire, Break, runVars
  <1>2. server' \in Server /\ server'.at = "ended" /\ server'.cursor = server.cursor
    BY <1>1 DEF TypeOK, Server
  <1>3. TypeOK'
    <2>1. breaks' \in 0 .. MaxBreaks
      <3>1. breaks \in 0 .. MaxBreaks /\ MaxBreaks \in Nat
        BY DEF TypeOK
      <3> QED BY <1>1, <3>1
    <2>2. frames' \in Seq(Frame)
      BY <1>1, EmptySeq DEF TypeOK
    <2> QED BY <1>1, <1>2, <2>1, <2>2 DEF TypeOK
  <1>4. PageInv' /\ NShown' = NShown
    <2>1. page.phase \in {"blank", "loading"} => frames = <<>>
      BY DEF PageInv
    <2> QED BY <1>1, <1>2, <2>1, PageStays
  <1>5. FramesInv'
    BY <1>1, <1>2, <1>4, EmptySeq DEF FramesInv
  <1>6. DoneInv'
    BY <1>1, <1>2, <1>4, EmptySeq DEF DoneInv
  <1> QED BY <1>3, <1>4, <1>5, <1>6

\* The source is given up: the page keeps what it shows.
LEMMA ConnectionIsRefused ==
  ASSUME StreamInv, Refuse
  PROVE  StreamInv'
  <1> USE DEF StreamInv
  <1>1. /\ UNCHANGED <<status, version, recorded, final, page, server, frames, breaks>>
        /\ source.open
        /\ source' = [source EXCEPT !.open = FALSE, !.refused = TRUE]
    BY DEF Refuse, runVars
  <1>2. /\ source' \in Source /\ source'.after = source.after
        /\ source'.lastId = source.lastId /\ source'.done = source.done
    BY <1>1 DEF TypeOK, Source
  <1>3. TypeOK'
    BY <1>1, <1>2 DEF TypeOK
  <1>4. NShown' = NShown
    BY <1>1 DEF NShown
  <1>5. PageInv'
    BY <1>1, <1>2, <1>4 DEF PageInv, ShownInOrder
  <1>6. FramesInv' /\ DoneInv'
    BY <1>1, <1>2, <1>4 DEF FramesInv, DoneInv
  <1> QED BY <1>3, <1>5, <1>6

LEMMA TimelineSteps == StreamInv /\ [Next]_vars => StreamInv'
  <1>1. ASSUME StreamInv, UNCHANGED vars PROVE StreamInv'
    BY <1>1 DEF StreamInv, vars, runVars, TypeOK, PageInv, ShownInOrder, FramesInv, DoneInv, NShown
  <1>2. ASSUME StreamInv, Next PROVE StreamInv'
    BY <1>2, RunGoesOn, PageGoesOn, EventArrives, OtherFrameArrives, HandlerGoesOn, ConnectionEnds, ConnectionIsRefused
       DEF Next, Deliver
  <1> QED BY <1>1, <1>2

\* However often the page reconnects, opens its source again or is sent what it has: it shows
\* a prefix of the run's log, without a gap, a repetition or two events swapped
\* (route.ts GET, run-timeline.tsx).
THEOREM AlwaysShownInOrder == Spec => []ShownInOrder
  <1>1. StreamInv => ShownInOrder
    BY DEF StreamInv, PageInv
  <1> QED BY <1>1, TimelineStarts, TimelineSteps, PTL DEF Spec

\* A page that has heard "done" shows every event recorded before the run finished, those
\* recorded between the handler's queries included (route.ts, the last query).
THEOREM DoneIsAlwaysComplete == Spec => []DoneIsComplete
  <1>1. StreamInv => DoneIsComplete
    <2> SUFFICES ASSUME StreamInv, source.done PROVE Len(page.shown) >= final
      BY DEF DoneIsComplete
    <2>1. final <= NShown /\ NShown \in Nat /\ final \in Nat
      BY DEF StreamInv, DoneInv, TypeOK, Page, NShown
    <2> QED BY <2>1 DEF NShown
  <1> QED BY <1>1, TimelineStarts, TimelineSteps, PTL DEF Spec

\* The page, its source, the handler's locals and the frames under way have their types.
THEOREM TimelineTypeCorrect == Spec => []TypeOK
  <1>1. StreamInv => TypeOK
    BY DEF StreamInv
  <1> QED BY <1>1, TimelineStarts, TimelineSteps, PTL DEF Spec
-----------------------------------------------------------------------------
(* The panel *)

\* What a request may have read so far: a run that exists, no more than the server said, and
\* "finished" only of a run that is.
Readings(n, st) ==
    {q \in [what : {"first", "latest", "run", "decision", "control"}, of : 0 .. NTaskRuns,
            status : States \cup {"none", Unread}, listed : 0 .. NotListed] :
       /\ q.of <= n
       /\ q.what \in {"run", "decision", "control"} => q.of # 0
       /\ q.what # "run" => q.listed = 0
       /\ q.status = "finished" => q.of # 0 /\ st[q.of] = "finished"}

Views == [run : 0 .. NTaskRuns, status : States \cup {"none"}, listed : 0 .. MaxWritten]

PanelReads ==
    /\ PanelTypeOK /\ view \in Views
    /\ requests \in Seq(Readings(created, state))
    /\ view.run <= created
    /\ view.run = 0 => view.status = "none"
    /\ view.status = "finished" => view.run # 0 /\ state[view.run] = "finished"
    /\ starting => created # 0

\* Another refetch of the run that is shown is still to come.
Owed == view.run \in signals \/ trailing

\* The last request ends with what the database holds: it read nothing yet, or the present;
\* or it asks for another run, or for an answer, which are followed by a refetch.  With none
\* under way the view itself is up to date, unless the interval is running.
Settled(s, vw, st, wr) ==
    IF s = <<>>
    THEN vw.status # "active" => vw.status = st[vw.run] /\ vw.listed = wr[vw.run]
    ELSE /\ s[Len(s)].what \in {"run", "decision", "control"}
         /\ s[Len(s)].what = "run" /\ s[Len(s)].of = vw.run =>
               /\ s[Len(s)].status \in {Unread, st[vw.run]}
               /\ s[Len(s)].listed \in {NotListed, wr[vw.run]}

Follows ==
    ~crossed /\ ~missed /\ realtime /\ view.run # 0 => Owed \/ Settled(requests, view, state, written)

PanelInv == PanelReads /\ Follows

USE PanelBounds

\* Only the field `run` of the view matters while a request is under way.
LEMMA SettledByLast ==
  ASSUME NEW s, NEW t, NEW vw, NEW wv, NEW st, NEW wr, s # <<>>, t # <<>>,
         t[Len(t)] = s[Len(s)], wv.run = vw.run, Settled(s, vw, st, wr)
  PROVE  Settled(t, wv, st, wr)
BY DEF Settled

LEMMA RequestMade ==
  ASSUME NEW w \in {"first", "latest", "run", "decision", "control"}, NEW r \in 0 .. NTaskRuns,
         NEW n \in 0 .. NTaskRuns, NEW st, r <= n, w \in {"run", "decision", "control"} => r # 0
  PROVE  /\ Request(w, r) \in Readings(n, st)
         /\ Request(w, r).what = w /\ Request(w, r).of = r /\ Request(w, r).status = Unread
         /\ w = "run" => Request(w, r).listed = NotListed
  <1>1. NotListed \in Nat /\ 0 \in 0 .. NotListed /\ NotListed \in 0 .. NotListed
    BY DEF NotListed
  <1> QED BY <1>1 DEF Request, Readings, Unread

\* A request that read nothing is in order.
LEMMA AskedLast ==
  ASSUME NEW n \in 0 .. NTaskRuns, NEW st, NEW s \in Seq(Readings(n, st)), NEW e \in Readings(n, st),
         e.what \in {"run", "decision", "control"},
         e.status = Unread, e.what = "run" => e.listed = NotListed
  PROVE  /\ Append(s, e) \in Seq(Readings(n, st))
         /\ \A vw, wr : Settled(Append(s, e), vw, st, wr)
  <1>1. /\ Append(s, e) \in Seq(Readings(n, st)) /\ Append(s, e) # <<>>
        /\ Append(s, e)[Len(Append(s, e))] = e
    BY AppendProperties, LenProperties
  <1> QED BY <1>1 DEF Settled

\* What is left when one answer has come.
LEMMA Removed ==
  ASSUME NEW S, NEW s \in Seq(S), NEW i \in 1 .. Len(s)
  PROVE  /\ RemoveAt(s, i) \in Seq(S)
         /\ i = 1 /\ Len(s) = 1 => RemoveAt(s, i) = <<>>
         /\ i = 1 /\ Len(s) > 1 =>
               RemoveAt(s, i) # <<>> /\ RemoveAt(s, i)[Len(RemoveAt(s, i))] = s[Len(s)]
  <1> DEFINE front == SubSeq(s, 1, i - 1)
             back == SubSeq(s, i + 1, Len(s))
  <1>1. PICK n \in Nat : n = Len(s)
    BY LenProperties
  <1>2. \A j \in 1 .. n : s[j] \in S
    BY <1>1, ElementOfSeq
  <1>3. front \in Seq(S) /\ (i = 1 => Len(front) = 0)
    <2>1. /\ \A j \in 1 .. i - 1 : s[j] \in S
          /\ 1 \in Int /\ i - 1 \in Int
      BY <1>1, <1>2
    <2>2. front \in Seq(S) /\ Len(front) = IF 1 <= i - 1 THEN (i - 1) - 1 + 1 ELSE 0
      BY <2>1, SubSeqProperties
    <2> QED BY <1>1, <2>2
  <1>4. /\ back \in Seq(S) /\ Len(back) = n - i
        /\ \A j \in 1 .. n - i : back[j] = s[i + j]
    <2>1. PICK m \in Int : m = i + 1
      BY <1>1
    <2>2. \A j \in m .. n : s[j] \in S
      BY <1>1, <1>2, <2>1
    <2>3. /\ SubSeq(s, m, n) \in Seq(S)
          /\ Len(SubSeq(s, m, n)) = IF m <= n THEN n - m + 1 ELSE 0
      BY <2>2, SubSeqProperties
    <2>5. \A j \in 1 .. n - m + 1 : SubSeq(s, m, n)[j] = s[m + j - 1]
      BY SMTT(30), <2>2, SubSeqProperties
    <2>4. /\ n - m + 1 = n - i
          /\ (IF m <= n THEN n - m + 1 ELSE 0) = n - i
          /\ \A j \in 1 .. n - i : m + j - 1 = i + j
      BY <1>1, <2>1
    <2> QED BY <1>1, <2>1, <2>3, <2>4, <2>5
  <1> HIDE DEF front, back
  <1>5. /\ front \o back \in Seq(S)
        /\ Len(front \o back) = Len(front) + Len(back)
        /\ \A j \in 1 .. Len(front) + Len(back) :
              (front \o back)[j] = IF j <= Len(front) THEN front[j] ELSE back[j - Len(front)]
    BY <1>3, <1>4, ConcatProperties
  <1>6. RemoveAt(s, i) = front \o back
    BY DEF RemoveAt, front, back
  <1>7. ASSUME i = 1, n = 1 PROVE front \o back = <<>>
    BY <1>3, <1>4, <1>5, <1>7, EmptySeq
  <1>8. ASSUME i = 1, n > 1
        PROVE  front \o back # <<>> /\ (front \o back)[Len(front \o back)] = s[n]
    <2>1. Len(front) = 0 /\ Len(back) = n - 1 /\ Len(front \o back) = n - 1
      BY <1>3, <1>4, <1>5, <1>8
    <2>2. n - 1 \in 1 .. n - 1 /\ ~(n - 1 <= 0) /\ (n - 1) - 0 = n - 1 /\ 1 + (n - 1) = n
      BY <1>8
    <2>3. (front \o back)[n - 1] = back[n - 1]
      BY <1>5, <2>1, <2>2
    <2>4. back[n - 1] = s[n]
      BY <1>4, <1>8, <2>2
    <2> QED BY <2>1, <2>2, <2>3, <2>4, EmptySeq
  <1> QED BY <1>1, <1>5, <1>6, <1>7, <1>8

LEMMA BlankView ==
  ASSUME NEW v \in Views
  PROVE  /\ [v EXCEPT !.run = 0, !.status = "none"] \in Views
         /\ [v EXCEPT !.run = 0, !.status = "none"].run = 0
         /\ [v EXCEPT !.run = 0, !.status = "none"].status = "none"
  <1>1. 0 \in 0 .. NTaskRuns
    OBVIOUS
  <1> QED BY <1>1 DEF Views

LEMMA PanelStarts == PanelInit => PanelInv
  <1> SUFFICES ASSUME PanelInit PROVE PanelInv
    OBVIOUS
  <1>1. Request("first", 0) \in Readings(0, state)
    BY RequestMade, 0 \in 0 .. NTaskRuns
  <1>2. requests \in Seq(Readings(created, state))
    BY <1>1 DEF PanelInit
  <1>3. view \in Views /\ view.run = 0 /\ view.status = "none"
    BY DEF PanelInit, NoView, Views
  <1>4. PanelTypeOK
    BY DEF PanelInit, PanelTypeOK, NoView, TaskRuns, States
  <1> QED BY <1>2, <1>3, <1>4 DEF PanelInit, PanelInv, PanelReads, Follows

\* The runs go on: the one that changes is announced, and the panel hears of it.
LEMMA TaskRunsGoOn ==
  ASSUME PanelInv, NEW r \in TaskRuns, PanelTypeOK',
         UNCHANGED <<realtime, view, requests, trailing, crossed, missed>>,
         signals' = IF realtime THEN signals \cup {r} ELSE {},
         created <= created', starting' => created' # 0,
         \A x \in TaskRuns \ {r} : state'[x] = state[x] /\ written'[x] = written[x],
         state[r] = "finished" => state'[r] = "finished"
  PROVE  PanelInv'
  <1> USE DEF PanelInv, PanelReads
  <1>1. \A x \in TaskRuns : state[x] = "finished" => state'[x] = "finished"
    OBVIOUS
  <1>2. created \in 0 .. NTaskRuns /\ created' \in 0 .. NTaskRuns
    BY DEF PanelTypeOK
  <1>3. Readings(created, state) \subseteq Readings(created', state')
    BY <1>1, <1>2 DEF Readings, TaskRuns
  <1>4. requests' \in Seq(Readings(created', state'))
    BY <1>3
  <1>5. PanelReads'
    <2>1. view.run \in 0 .. NTaskRuns /\ view' = view
      BY DEF Views
    <2> QED BY <1>1, <1>2, <1>4, <2>1 DEF TaskRuns
  <1>6. Follows'
    <2> SUFFICES ASSUME ~crossed, ~missed, realtime, view.run # 0, view.run # r
                 PROVE  Owed \/ Settled(requests, view, state', written')
      BY DEF Follows, Owed
    <2>1. view.run \in TaskRuns \ {r}
      BY DEF Views, TaskRuns
    <2>2. state'[view.run] = state[view.run] /\ written'[view.run] = written[view.run]
      BY <2>1
    <2> QED BY <2>2 DEF Follows, Settled
  <1> QED BY <1>5, <1>6

\* What makes the panel ask: a request that read nothing is the last, or what is owed stays so.
LEMMA PanelAsks ==
  ASSUME PanelInv,
         UNCHANGED <<realtime, created, state, written, view, starting, crossed, missed>>,
         signals' \subseteq signals,
         \/ \E w \in {"decision", "control"} :
               view.run # 0 /\ requests' = Append(requests, Request(w, view.run))
         \/ requests' = RefetchRun
         \/ requests' = requests /\ (view.run # 0 /\ Owed => Owed')
  PROVE  PanelInv'
  <1> USE DEF PanelInv, PanelReads
  <1>1. PanelTypeOK'
    BY DEF PanelTypeOK
  <1>2. /\ created \in 0 .. NTaskRuns /\ view.run \in 0 .. NTaskRuns /\ view.run <= created
        /\ requests \in Seq(Readings(created, state))
    BY DEF PanelTypeOK
  <1>3. requests' \in Seq(Readings(created, state)) /\ Follows'
    <2>1. ASSUME NEW w \in {"run", "decision", "control"}, view.run # 0,
                 requests' = Append(requests, Request(w, view.run))
          PROVE  requests' \in Seq(Readings(created, state)) /\ Follows'
      <3>1. /\ Request(w, view.run) \in Readings(created, state)
            /\ Request(w, view.run).what = w /\ Request(w, view.run).status = Unread
            /\ w = "run" => Request(w, view.run).listed = NotListed
        BY <1>2, <2>1, RequestMade
      <3>2. requests' \in Seq(Readings(created, state))
        BY <1>2, <2>1, <3>1, AskedLast
      <3>3. Settled(requests', view, state, written)
        BY <1>2, <2>1, <3>1, AskedLast
      <3> QED BY <3>2, <3>3 DEF Follows
    <2>2. ASSUME view.run = 0, requests' = Append(requests, Request("latest", 0))
          PROVE  requests' \in Seq(Readings(created, state)) /\ Follows'
      <3>1. Request("latest", 0) \in Readings(created, state)
        BY <1>2, RequestMade, 0 \in 0 .. NTaskRuns
      <3> QED BY <1>2, <2>2, <3>1, AppendProperties DEF Follows
    <2>3. ASSUME requests' = requests, view.run # 0 /\ Owed => Owed'
          PROVE  requests' \in Seq(Readings(created, state)) /\ Follows'
      BY <1>2, <2>3 DEF Follows
    <2>4. CASE requests' = RefetchRun
      BY <2>1, <2>2, <2>4 DEF RefetchRun
    <2> QED BY <2>1, <2>3, <2>4
  <1> QED BY <1>1, <1>3

\* The server reads one half of a request: what it reads is true at that moment.
LEMMA ServerReads ==
  ASSUME PanelInv, NEW i \in 1 .. Len(requests), NEW q \in Readings(created, state),
         UNCHANGED <<realtime, created, state, written, signals, view, starting, trailing,
                     crossed, missed>>,
         requests' = [requests EXCEPT ![i] = q],
         q.what = requests[i].what,
         q.what = "run" =>
            /\ q.of = requests[i].of
            /\ q.status \in {requests[i].status, state[q.of]}
            /\ q.listed \in {requests[i].listed, written[q.of]}
  PROVE  PanelInv'
  <1> USE DEF PanelInv, PanelReads
  <1>1. PanelTypeOK'
    BY DEF PanelTypeOK
  <1>2. PICK n \in Nat : n = Len(requests)
    BY LenProperties
  <1>3. /\ requests' \in Seq(Readings(created, state)) /\ Len(requests') = n
        /\ \A j \in 1 .. n : requests'[j] = IF j = i THEN q ELSE requests[j]
    BY <1>2, ExceptSeq
  <1>4. requests # <<>> /\ requests' # <<>> /\ n \in 1 .. n
    <2>1. n # 0
      BY <1>2
    <2> QED BY <1>2, <1>3, <2>1, EmptySeq
  <1>5. ASSUME Settled(requests, view, state, written)
        PROVE  Settled(requests', view, state, written)
    <2>1. /\ requests[n].what \in {"run", "decision", "control"}
          /\ requests[n].what = "run" /\ requests[n].of = view.run =>
                /\ requests[n].status \in {Unread, state[view.run]}
                /\ requests[n].listed \in {NotListed, written[view.run]}
      BY <1>2, <1>4, <1>5 DEF Settled
    <2>2. CASE i = n
      <3>1. requests'[n] = q
        BY <1>3, <1>4, <2>2
      <3> QED BY <1>3, <1>4, <2>1, <2>2, <3>1 DEF Settled
    <2>3. CASE i # n
      <3>1. requests'[n] = requests[n]
        BY <1>3, <1>4, <2>3
      <3> QED BY <1>3, <1>4, <2>1, <3>1 DEF Settled
    <2> QED BY <2>2, <2>3
  <1>6. Follows'
    BY <1>5 DEF Follows, Owed
  <1> QED BY <1>1, <1>3, <1>6

LEMMA RowIsRead ==
  ASSUME PanelInv, NEW i \in DOMAIN requests, ReadRow(i)
  PROVE  PanelInv'
  <1> USE DEF PanelInv, PanelReads
  <1>1. i \in 1 .. Len(requests) /\ requests[i] \in Readings(created, state)
    BY LenProperties, ElementOfSeq
  <1> DEFINE a == requests[i]
             of == IF a.of = 0 THEN created ELSE a.of
             q == [a EXCEPT !.of = of, !.status = IF of = 0 THEN "none" ELSE state[of]]
  <1>2. requests' = [requests EXCEPT ![i] = q]
    BY DEF ReadRow
  <1>3. created \in 0 .. NTaskRuns /\ a.of \in 0 .. NTaskRuns /\ a.of <= created
    BY <1>1 DEF PanelTypeOK, Readings
  <1>4. PICK m \in 0 .. NTaskRuns : m = of /\ m <= created
    BY <1>3
  <1>5. PICK st \in States \cup {"none"} :
           /\ st = IF m = 0 THEN "none" ELSE state[m]
           /\ st = "finished" => m # 0 /\ state[m] = "finished"
    <2>1. m # 0 => state[m] \in States
      BY <1>4 DEF PanelTypeOK, TaskRuns
    <2> QED BY <2>1
  <1>6. q = [a EXCEPT !.of = m, !.status = st]
    BY <1>4, <1>5
  <1> HIDE DEF of, q
  <1>7. q \in Readings(created, state) /\ q.what = a.what /\ q.of = m /\ q.status = st /\ q.listed = a.listed
    <2>1. a.what \in {"run", "decision", "control"} => m # 0
      BY <1>1, <1>3, <1>4 DEF Readings, of
    <2> QED BY <1>1, <1>4, <1>5, <1>6, <2>1 DEF Readings
  <1>8. q.what = "run" =>
           q.of = a.of /\ q.status \in {a.status, state[q.of]} /\ q.listed \in {a.listed, written[q.of]}
    <2>1. q.what = "run" => a.of # 0
      BY <1>1, <1>7 DEF Readings
    <2> QED BY <1>4, <1>5, <1>7, <2>1 DEF of
  <1> QED BY <1>1, <1>2, <1>7, <1>8, ServerReads DEF ReadRow

LEMMA RecordedIsRead ==
  ASSUME PanelInv, NEW i \in DOMAIN requests, ReadRecorded(i)
  PROVE  PanelInv'
  <1> USE DEF PanelInv, PanelReads
  <1>1. i \in 1 .. Len(requests) /\ requests[i] \in Readings(created, state)
    BY LenProperties, ElementOfSeq
  <1> DEFINE a == requests[i]
             q == [a EXCEPT !.listed = written[a.of]]
  <1>2. requests' = [requests EXCEPT ![i] = q] /\ a.listed = NotListed
    BY DEF ReadRecorded
  <1>3. a.what = "run" /\ a.of \in TaskRuns
    BY <1>1, <1>2 DEF Readings, NotListed, TaskRuns
  <1>4. written[a.of] \in 0 .. NotListed
    BY <1>3 DEF PanelTypeOK, NotListed
  <1>5. /\ q \in Readings(created, state) /\ q.what = a.what /\ q.of = a.of
        /\ q.status = a.status /\ q.listed = written[a.of]
    BY <1>1, <1>3, <1>4 DEF Readings
  <1> HIDE DEF q
  <1> QED BY <1>1, <1>2, <1>5, ServerReads DEF ReadRecorded

\* What is answered: the answers come in order, so the last request stays the last, and the
\* view that the only one leaves behind is what it read.
LEMMA AnswerComes ==
  ASSUME PanelInv, NEW i \in DOMAIN requests, Answer(i)
  PROVE  PanelInv'
  <1> USE DEF PanelInv, PanelReads
  <1> DEFINE a == requests[i]
             left == RemoveAt(requests, i)
             S == Readings(created, state)
  <1>1. i \in 1 .. Len(requests) /\ a \in S
    BY LenProperties, ElementOfSeq
  <1>2. /\ UNCHANGED <<realtime, created, state, written, signals, starting, trailing, missed>>
        /\ crossed' = (crossed \/ i > 1)
        /\ a.status # Unread /\ a.listed # NotListed
    BY DEF Answer
  <1>3. /\ left \in Seq(S)
        /\ i = 1 /\ Len(requests) = 1 => left = <<>>
        /\ i = 1 /\ Len(requests) > 1 => left # <<>> /\ left[Len(left)] = requests[Len(requests)]
    BY <1>1, Removed
  <1>4. /\ created \in 0 .. NTaskRuns /\ a.of \in 0 .. NTaskRuns /\ a.of <= created
        /\ a.status \in States \cup {"none"} /\ a.listed \in 0 .. MaxWritten
        /\ a.what \in {"first", "latest", "run", "decision", "control"}
        /\ a.what \in {"run", "decision", "control"} => a.of # 0
        /\ a.status = "finished" => a.of # 0 /\ state[a.of] = "finished"
    BY <1>1, <1>2 DEF PanelTypeOK, Readings, NotListed
  <1> DEFINE asked(s, r) == Append(s, Request("run", r))
  <1>5. ASSUME NEW s \in Seq(S), a.of # 0
        PROVE  /\ asked(s, a.of) \in Seq(S)
               /\ \A vw, wr : Settled(asked(s, a.of), vw, state, wr)
    <2>1. /\ Request("run", a.of) \in S
          /\ Request("run", a.of).what = "run" /\ Request("run", a.of).status = Unread
          /\ Request("run", a.of).listed = NotListed
      BY <1>4, <1>5, RequestMade
    <2> QED BY <1>4, <1>5, <2>1, AskedLast
  <1> HIDE DEF left, asked, S
  <1> DEFINE listed == IF a.what = "run" THEN a.listed ELSE view.listed
             shown == [run |-> a.of, status |-> a.status, listed |-> listed]
  <1>6. \/ /\ a.what \in {"decision", "control"} /\ view' \in {view, shown}
           /\ requests' = asked(left, a.of) \/ requests' = asked(asked(left, a.of), a.of)
        \/ /\ a.what \in {"first", "latest"} /\ a.of = 0 /\ requests' = left
           /\ view' = IF a.what = "first" THEN [view EXCEPT !.run = 0, !.status = "none"] ELSE view
        \/ /\ a.what \in {"first", "latest", "run"} /\ a.of # 0 /\ view' = shown
           /\ requests' = IF a.of # view.run THEN asked(left, a.of) ELSE left
    <2>1. CASE a.what = "control"
      BY <2>1 DEF Answer, left, asked
    <2>2. CASE a.what # "control" /\ a.of = 0
      BY <1>4, <2>2 DEF Answer, Blank, left
    <2>3. CASE a.what # "control" /\ a.of # 0
      BY <1>4, <2>3 DEF Answer, Show, left, asked
    <2> QED BY <2>1, <2>2, <2>3
  <1>7. view' \in Views /\ view'.run \in {view.run, 0, a.of}
        /\ (view'.run = 0 => view'.status = "none")
        /\ (view'.status = "finished" => view'.run # 0 /\ state[view'.run] = "finished")
    <2>1. listed \in 0 .. MaxWritten
      BY <1>4 DEF Views
    <2> HIDE DEF listed
    <2>2. shown \in Views /\ shown.run = a.of /\ shown.status = a.status
      BY <1>4, <2>1 DEF Views
    <2> HIDE DEF shown
    <2>3. /\ [view EXCEPT !.run = 0, !.status = "none"] \in Views
          /\ [view EXCEPT !.run = 0, !.status = "none"].run = 0
          /\ [view EXCEPT !.run = 0, !.status = "none"].status = "none"
      BY BlankView
    <2>4. \/ view' \in {view, [view EXCEPT !.run = 0, !.status = "none"]}
          \/ view' = shown /\ a.of # 0
      BY <1>4, <1>6
    <2> QED BY <1>4, <2>2, <2>3, <2>4
  <1>8. requests' \in Seq(S)
    BY <1>3, <1>4, <1>5, <1>6
  <1>9. PanelReads'
    <2>1. S' = S
      BY <1>2 DEF S
    <2>2. PanelTypeOK'
      BY <1>2, <1>7 DEF PanelTypeOK, Views
    <2>3. requests' \in Seq(Readings(created, state)')
      BY <1>2, <1>8 DEF S
    <2> QED BY <1>2, <1>4, <1>7, <2>2, <2>3
  <1>10. ASSUME ~crossed', ~missed', realtime', view'.run # 0
         PROVE  Owed' \/ Settled(requests', view', state, written)
    <2>1. i = 1 /\ ~crossed /\ ~missed /\ realtime
      <3>1. ~(crossed \/ i > 1)
        BY <1>2, <1>10, Zenon
      <3>2. i = 1
        <4>1. PICK n \in Nat : n = Len(requests)
          BY LenProperties
        <4>2. i \in 1 .. n /\ ~(i > 1)
          BY <1>1, <3>1, <4>1
        <4> QED BY <4>2
      <3>3. ~missed /\ realtime
        BY <1>2, <1>10, Zenon
      <3> QED BY <3>1, <3>2, <3>3
    <2>2. ASSUME NEW s \in Seq(S), requests' = asked(s, a.of), a.of # 0
          PROVE  Settled(requests', view', state, written)
      BY <1>5, <2>2
    <2>3. asked(left, a.of) \in Seq(S) \/ a.of = 0
      BY <1>3, <1>5
    <2>4. ASSUME requests' = left, view'.run = view.run, a.what \in {"first", "latest", "run"},
                 a.what = "run" => view' = shown
          PROVE  Owed' \/ Settled(requests', view', state, written)
      <3>1. CASE Owed
        BY <1>2, <2>4, <3>1 DEF Owed
      <3>2. CASE Settled(requests, view, state, written)
        <4>1. requests # <<>> /\ Len(requests) \in Nat
          <5>1. Len(requests) # 0 /\ Len(requests) \in Nat
            BY <1>1, LenProperties
          <5> QED BY <5>1, EmptySeq
        <4>2. CASE Len(requests) > 1
          <5>1. left # <<>> /\ left[Len(left)] = requests[Len(requests)]
            BY <1>3, <2>1, <4>2
          <5> QED BY <2>4, <3>2, <4>1, <5>1, SettledByLast
        <4>3. CASE Len(requests) = 1
          <5>1. left = <<>>
            BY <1>3, <2>1, <4>3
          <5>2. a = requests[Len(requests)]
            BY <2>1, <4>3
          <5>3. /\ a.what = "run" /\ view' = shown
                /\ a.of = view.run =>
                      a.status \in {Unread, state[view.run]} /\ a.listed \in {NotListed, written[view.run]}
            BY <2>4, <3>2, <4>1, <5>2 DEF Settled
          <5>4. a.of = view.run /\ shown.status = a.status /\ shown.listed = a.listed /\ shown.run = a.of
            BY <2>4, <5>3
          <5>5. shown.status = state[shown.run] /\ shown.listed = written[shown.run]
            BY <1>2, <5>3, <5>4
          <5> HIDE DEF shown
          <5> QED BY <2>4, <5>1, <5>3, <5>5 DEF Settled
        <4>4. Len(requests) = 1 \/ Len(requests) > 1
          <5>1. Len(requests) # 0 /\ Len(requests) \in Nat
            BY <1>1, LenProperties
          <5> QED BY SMTT(30), <5>1
        <4> QED BY <4>2, <4>3, <4>4
      <3> QED BY <1>10, <2>1, <2>4, <3>1, <3>2 DEF Follows
    <2>5. CASE a.what \in {"decision", "control"}
      BY <1>3, <1>4, <1>6, <2>2, <2>3, <2>5
    <2>6. CASE a.what \in {"first", "latest"} /\ a.of = 0
      <3>1. requests' = left /\ view' = view
        BY <1>6, <1>10, <2>6 DEF Views
      <3> QED BY <2>4, <2>6, <3>1
    <2>7. CASE a.what \in {"first", "latest", "run"} /\ a.of # 0
      <3>1. CASE a.of # view.run
        BY <1>3, <1>6, <2>2, <2>7, <3>1
      <3>2. CASE a.of = view.run
        <4>1. requests' = left /\ view' = shown
          BY <1>6, <2>7, <3>2
        <4> QED BY <2>4, <2>7, <3>2, <4>1
      <3> QED BY <3>1, <3>2
    <2> QED BY <1>4, <2>5, <2>6, <2>7
  <1>11. Follows'
    BY <1>2, <1>10 DEF Follows
  <1> QED BY <1>9, <1>11

LEMMA AnswerIsLost ==
  ASSUME PanelInv, NEW i \in DOMAIN requests, LoseAnswer(i)
  PROVE  PanelInv'
  <1> USE DEF PanelInv, PanelReads
  <1>1. i \in 1 .. Len(requests)
    BY LenProperties
  <1>2. requests' \in Seq(Readings(created, state))
    BY <1>1, Removed DEF LoseAnswer
  <1>3. PanelTypeOK'
    BY DEF LoseAnswer, PanelTypeOK
  <1> QED BY <1>2, <1>3 DEF LoseAnswer, Follows

\* The run that was started is shown; when it is shown already its list is empty until the
\* interval, which runs, has refetched it.
LEMMA StartIsAnswered ==
  ASSUME PanelInv, RunStarted
  PROVE  PanelInv'
  <1> USE DEF PanelInv, PanelReads
  <1>1. /\ UNCHANGED <<realtime, created, state, written, signals, trailing, crossed, missed>>
        /\ starting' = FALSE /\ created \in 0 .. NTaskRuns /\ created # 0
    BY DEF RunStarted, PanelTypeOK
  <1> DEFINE shown == [run |-> created, status |-> "active", listed |-> 0]
  <1>2. CASE UNCHANGED <<view, requests>>
    BY <1>1, <1>2 DEF PanelTypeOK, Follows, Owed
  <1>3. CASE Show(created, "active", 0, requests)
    <2>1. /\ view' = shown
          /\ requests' = IF created # view.run THEN Append(requests, Request("run", created)) ELSE requests
      BY <1>3 DEF Show
    <2>2. shown \in Views /\ shown.run = created /\ shown.status = "active"
      BY <1>1 DEF Views, States
    <2>3. PanelTypeOK'
      BY <1>1, <2>1, <2>2 DEF PanelTypeOK, Views
    <2> HIDE DEF shown
    <2>4. CASE created # view.run
      <3>1. /\ Request("run", created) \in Readings(created, state)
            /\ Request("run", created).what = "run" /\ Request("run", created).status = Unread
            /\ Request("run", created).listed = NotListed
        BY <1>1, RequestMade
      <3>2. /\ requests' \in Seq(Readings(created, state))
            /\ Settled(requests', shown, state, written)
        BY <1>1, <2>1, <2>4, <3>1, AskedLast
      <3> QED BY <1>1, <2>1, <2>2, <2>3, <3>2 DEF Follows
    <2>5. CASE created = view.run
      <3>1. Settled(requests, view, state, written) => Settled(requests, shown, state, written)
        BY <2>2, <2>5 DEF Settled
      <3> QED BY <1>1, <2>1, <2>2, <2>3, <2>5, <3>1 DEF Follows, Owed
    <2> QED BY <2>4, <2>5
  <1> QED BY <1>2, <1>3 DEF RunStarted

LEMMA PanelGoes == PanelInv /\ [PanelNext]_panelVars => PanelInv'
  <1> SUFFICES ASSUME PanelInv, [PanelNext]_panelVars PROVE PanelInv'
    OBVIOUS
  <1>1. PanelTypeOK /\ view \in Views
    BY DEF PanelInv, PanelReads
  <1>2. ASSUME NEW r \in TaskRuns, RecordMore(r) PROVE PanelInv'
    <2>1. written[r] + 1 \in 0 .. MaxWritten
      BY <1>1, <1>2 DEF RecordMore, PanelTypeOK
    <2>2. PanelTypeOK' /\ \A x \in TaskRuns \ {r} : written'[x] = written[x]
      BY <1>1, <1>2, <2>1 DEF RecordMore, Announce, PanelTypeOK
    <2>3. /\ UNCHANGED <<realtime, view, requests, trailing, crossed, missed, created, starting, state>>
          /\ signals' = IF realtime THEN signals \cup {r} ELSE {}
      BY <1>2 DEF RecordMore, Announce
    <2>4. created <= created' /\ (starting' => created' # 0)
      BY <1>1, <2>3 DEF PanelInv, PanelReads, PanelTypeOK
    <2> QED BY <2>2, <2>3, <2>4, TaskRunsGoOn
  <1>3. ASSUME NEW r \in TaskRuns, ChangeState(r) PROVE PanelInv'
    <2>1. PanelTypeOK' /\ \A x \in TaskRuns \ {r} : state'[x] = state[x]
      BY <1>1, <1>3 DEF ChangeState, Announce, PanelTypeOK
    <2>2. /\ UNCHANGED <<realtime, view, requests, trailing, crossed, missed, created, starting, written>>
          /\ signals' = IF realtime THEN signals \cup {r} ELSE {}
          /\ state[r] # "finished"
      BY <1>3 DEF ChangeState, Announce
    <2>3. created <= created' /\ (starting' => created' # 0)
      BY <1>1, <2>2 DEF PanelInv, PanelReads, PanelTypeOK
    <2> QED BY <2>1, <2>2, <2>3, TaskRunsGoOn
  <1>4. CASE TeammateStarts \/ CreateTaskRun
    <2>1. created + 1 \in TaskRuns /\ created' = created + 1 /\ created \in Nat /\ created' # 0
      BY <1>1, <1>4 DEF TeammateStarts, CreateTaskRun, MayCreate, PanelTypeOK, TaskRuns
    <2>2. PanelTypeOK'
      <3>1. /\ UNCHANGED <<state, written, view>>
            /\ signals' = IF realtime THEN signals \cup {created + 1} ELSE {}
        BY <1>4 DEF TeammateStarts, CreateTaskRun, Announce
      <3>2. signals' \subseteq TaskRuns
        BY <1>1, <2>1, <3>1 DEF PanelTypeOK
      <3>3. created' \in 0 .. NTaskRuns
        BY <2>1 DEF TaskRuns
      <3> QED BY <1>1, <3>1, <3>2, <3>3 DEF PanelTypeOK
    <2>3. created <= created'
      BY <2>1
    <2> QED BY <1>4, <2>1, <2>2, <2>3, TaskRunsGoOn DEF TeammateStarts, CreateTaskRun, Announce
  <1>5. ASSUME NEW r \in TaskRuns, HearRunUpdated(r) PROVE PanelInv'
    BY <1>5, PanelAsks DEF HearRunUpdated, Owed
  <1>6. CASE PollRun \/ WindowEnds
    BY <1>6, PanelAsks DEF PollRun, WindowEnds, Owed
  <1>7. CASE Decide \/ Control
    <2>1. view.run # 0
      <3>1. view.status = "active"
        BY <1>7 DEF Decide, Control
      <3> QED BY <3>1 DEF PanelInv, PanelReads
    <2> QED BY <1>7, <2>1, PanelAsks DEF Decide, Control
  <1>8. ASSUME NEW i \in DOMAIN requests, ReadRow(i) \/ ReadRecorded(i) \/ Answer(i) \/ LoseAnswer(i)
        PROVE  PanelInv'
    BY <1>8, RowIsRead, RecordedIsRead, AnswerComes, AnswerIsLost
  <1>9. CASE RunStarted
    BY <1>9, StartIsAnswered
  <1>10. CASE UNCHANGED panelVars
    BY <1>10 DEF panelVars, PanelInv, PanelReads, PanelTypeOK, Follows, Owed
  <1> QED BY <1>2, <1>3, <1>4, <1>5, <1>6, <1>7, <1>8, <1>9, <1>10 DEF PanelNext

\* A panel at rest shows the run as the database holds it, for any number of broadcasts,
\* windows, polls and starts, if its answers came and came in order; without broadcasts that
\* holds of a finished run (agent-run-panel.tsx, RunRealtime and the polling effect).
THEOREM PanelAlwaysConverges == PanelSpec => []PanelConverges
  <1>1. PanelInv => PanelConverges
    <2> SUFFICES ASSUME PanelInv, PanelAtRest, ~crossed, ~missed
                 PROVE  /\ realtime \/ view.status = "finished" => view.status = state[view.run]
                        /\ realtime => view.listed = written[view.run]
      BY DEF PanelConverges
    <2>1. /\ requests = <<>> /\ signals = {} /\ ~trailing
          /\ view.run # 0 /\ view.status # "active"
      BY DEF PanelAtRest
    <2>2. view.status = "finished" => view.status = state[view.run]
      BY DEF PanelInv, PanelReads
    <2>3. ASSUME realtime PROVE view.status = state[view.run] /\ view.listed = written[view.run]
      <3>1. Owed \/ Settled(requests, view, state, written)
        BY <2>1, <2>3 DEF PanelInv, Follows
      <3>2. Settled(requests, view, state, written)
        BY <2>1, <3>1 DEF Owed
      <3> QED BY <2>1, <3>2 DEF Settled
    <2> QED BY <2>2, <2>3
  <1> QED BY <1>1, PanelStarts, PanelGoes, PTL DEF PanelSpec

\* The panel's state has its types, what the requests under way have read included.
THEOREM PanelTypeCorrect == PanelSpec => []PanelTypeOK
  <1>1. PanelInv => PanelTypeOK
    BY DEF PanelInv, PanelReads
  <1> QED BY <1>1, PanelStarts, PanelGoes, PTL DEF PanelSpec
=============================================================================
