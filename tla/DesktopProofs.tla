---------------------------- MODULE DesktopProofs ----------------------------
(***************************************************************************)
(* Proofs about what records and binds keys in the desktop shell, for any  *)
(* recordings, presses, keys, faults and bounds.  Dump mode: what is       *)
(* imported was closed and is imported once, and every recording can end.  *)
(* Dictation: what is typed is final and typed once, the session and the   *)
(* microphone follow the phase, and what records is to be seen.  The key   *)
(* bindings: the keys the user chose are the keys that work.  The lemmas   *)
(* about the client of a helper come first.                                *)
(***************************************************************************)
EXTENDS MCDesktop, TLAPS

(***************************************************************************)
(* The client of a helper: what each of its operations does to the way of  *)
(* a request.                                                              *)
(***************************************************************************)
LinesOf(R) == {Reply(r, o) : r \in R, o \in {"ok", "error"}} \cup {HotkeyEvent(k) : k \in {"press", "release"}}

LEMMA ClientFields ==
    ASSUME NEW R, NEW c
    PROVE  c \in ClientType(R) <=>
             /\ c = [process |-> c.process, pipe |-> c.pipe, pending |-> c.pending, lines |-> c.lines]
             /\ c.process \in BOOLEAN /\ c.pipe \in Seq(R) /\ c.pending \in SUBSET R
             /\ c.lines \in Seq(LinesOf(R))
BY DEF ClientType, LinesOf

\* The fields of a client are replaced by others of their types.
LEMMA ClientReplaced ==
    ASSUME NEW P, NEW Q, NEW S, NEW L, NEW c \in [process: P, pipe: Q, pending: S, lines: L],
           NEW p \in P, NEW q \in Q, NEW s \in S, NEW l \in L
    PROVE  /\ [c EXCEPT !.pipe = q, !.pending = s] \in [process: P, pipe: Q, pending: S, lines: L]
           /\ [c EXCEPT !.pipe = q, !.lines = l] \in [process: P, pipe: Q, pending: S, lines: L]
           /\ [c EXCEPT !.lines = l, !.pending = s] \in [process: P, pipe: Q, pending: S, lines: L]
           /\ [c EXCEPT !.lines = l] \in [process: P, pipe: Q, pending: S, lines: L]
           /\ [c EXCEPT !.process = p] \in [process: P, pipe: Q, pending: S, lines: L]
           /\ [c EXCEPT !.process = p, !.pipe = q, !.pending = s] \in [process: P, pipe: Q, pending: S, lines: L]
OBVIOUS

LEMMA ClientChanged ==
    ASSUME NEW R, NEW c \in ClientType(R),
           NEW p \in BOOLEAN, NEW q \in Seq(R), NEW s \in SUBSET R, NEW l \in Seq(LinesOf(R))
    PROVE  /\ [c EXCEPT !.pipe = q, !.pending = s] \in ClientType(R)
           /\ [c EXCEPT !.pipe = q, !.lines = l] \in ClientType(R)
           /\ [c EXCEPT !.lines = l, !.pending = s] \in ClientType(R)
           /\ [c EXCEPT !.lines = l] \in ClientType(R)
           /\ [c EXCEPT !.process = p] \in ClientType(R)
           /\ [c EXCEPT !.process = p, !.pipe = q, !.pending = s] \in ClientType(R)
<1>1. ClientType(R) = [process: BOOLEAN, pipe: Seq(R), pending: SUBSET R, lines: Seq(LinesOf(R))]
  BY DEF ClientType, LinesOf
<1> DEFINE T == [process: BOOLEAN, pipe: Seq(R), pending: SUBSET R, lines: Seq(LinesOf(R))]
<1>2. /\ [c EXCEPT !.pipe = q, !.pending = s] \in T /\ [c EXCEPT !.pipe = q, !.lines = l] \in T
      /\ [c EXCEPT !.lines = l, !.pending = s] \in T /\ [c EXCEPT !.lines = l] \in T
      /\ [c EXCEPT !.process = p] \in T /\ [c EXCEPT !.process = p, !.pipe = q, !.pending = s] \in T
  <2> HIDE DEF LinesOf
  <2>1. c \in T
    BY <1>1
  <2> QED BY <2>1, ClientReplaced, Zenon
<1> QED BY <1>1, <1>2

LEMMA SendEffect ==
    ASSUME NEW R, NEW c \in ClientType(R), NEW r \in R
    PROVE  /\ Send(c, r) \in ClientType(R)
           /\ Send(c, r).process = c.process /\ Send(c, r).pending = c.pending \cup {r}
           /\ \A q : Piped(Send(c, r), q) <=> Piped(c, q) \/ q = r
           /\ \A l : Told(Send(c, r), l) <=> Told(c, l)
           /\ \A q : OnItsWay(Send(c, r), q) <=> OnItsWay(c, q) \/ q = r
           /\ \A a, b : Ahead(Send(c, r), a, b) <=> Ahead(c, a, b) \/ (b = r /\ OnItsWay(c, a))
<1> DEFINE d == Send(c, r)
<1>0. c.pipe \in Seq(R) /\ c.lines \in Seq(LinesOf(R)) /\ c.pending \in SUBSET R /\ c.process \in BOOLEAN
  BY ClientFields
<1>1. /\ d.process = c.process /\ d.pending = c.pending \cup {r}
      /\ d.pipe = Append(c.pipe, r) /\ d.lines = c.lines
  BY DEF Send, ClientType
<1>2. d \in ClientType(R)
  <2>1. Append(c.pipe, r) \in Seq(R) /\ c.pending \cup {r} \in SUBSET R
    BY <1>0
  <2> QED BY <1>0, <2>1, ClientChanged DEF Send
<1>3. /\ Len(d.pipe) = Len(c.pipe) + 1 /\ Len(c.pipe) \in Nat
      /\ \A i \in 1..Len(c.pipe) : d.pipe[i] = c.pipe[i]
      /\ d.pipe[Len(c.pipe) + 1] = r
  BY <1>0, <1>1
<1> HIDE DEF d
<1>4. \A q : Piped(d, q) <=> Piped(c, q) \/ q = r
  <2> TAKE q
  <2>1. \A i : i \in 1..Len(d.pipe) <=> i \in 1..Len(c.pipe) \/ i = Len(c.pipe) + 1
    BY <1>3
  <2> QED BY <1>3, <2>1 DEF Piped
<1>5. \A l : Told(d, l) <=> Told(c, l)
  BY <1>1 DEF Told
<1>6. \A q : Answered(d, q) <=> Answered(c, q)
  BY <1>5 DEF Answered
<1>7. ASSUME NEW a, NEW b
      PROVE  Ahead(d, a, b) <=> Ahead(c, a, b) \/ (b = r /\ OnItsWay(c, a))
  <2>1. (\E i, j \in 1..Len(d.pipe) : i < j /\ d.pipe[i] = a /\ d.pipe[j] = b)
          <=> \/ \E i, j \in 1..Len(c.pipe) : i < j /\ c.pipe[i] = a /\ c.pipe[j] = b
              \/ b = r /\ Piped(c, a)
    <3>1. ASSUME NEW i \in 1..Len(d.pipe), NEW j \in 1..Len(d.pipe), i < j, d.pipe[i] = a, d.pipe[j] = b
          PROVE  \/ \E k, m \in 1..Len(c.pipe) : k < m /\ c.pipe[k] = a /\ c.pipe[m] = b
                 \/ b = r /\ Piped(c, a)
      <4>1. i \in 1..Len(c.pipe) /\ (j \in 1..Len(c.pipe) \/ j = Len(c.pipe) + 1)
        BY <1>3, <3>1
      <4> QED BY <1>3, <3>1, <4>1 DEF Piped
    <3>2. ASSUME NEW i \in 1..Len(c.pipe), NEW j \in 1..Len(c.pipe), i < j, c.pipe[i] = a, c.pipe[j] = b
          PROVE  \E k, m \in 1..Len(d.pipe) : k < m /\ d.pipe[k] = a /\ d.pipe[m] = b
      <4>1. i \in 1..Len(d.pipe) /\ j \in 1..Len(d.pipe)
        BY <1>3
      <4> QED BY <1>3, <3>2, <4>1
    <3>3. ASSUME b = r, NEW i \in 1..Len(c.pipe), c.pipe[i] = a
          PROVE  \E k, m \in 1..Len(d.pipe) : k < m /\ d.pipe[k] = a /\ d.pipe[m] = b
      <4>1. i \in 1..Len(d.pipe) /\ Len(c.pipe) + 1 \in 1..Len(d.pipe) /\ i < Len(c.pipe) + 1
        BY <1>3
      <4> QED BY <1>3, <3>3, <4>1
    <3> QED BY <3>1, <3>2, <3>3 DEF Piped
  <2>2. (\E i, j \in 1..Len(d.lines) : \E o, p \in {"ok", "error"} :
            i < j /\ d.lines[i] = Reply(a, o) /\ d.lines[j] = Reply(b, p))
          <=> (\E i, j \in 1..Len(c.lines) : \E o, p \in {"ok", "error"} :
                  i < j /\ c.lines[i] = Reply(a, o) /\ c.lines[j] = Reply(b, p))
    BY <1>1
  <2>3. Answered(d, a) /\ Piped(d, b) <=> Answered(c, a) /\ (Piped(c, b) \/ b = r)
    BY <1>4, <1>6
  <2> QED BY <2>1, <2>2, <2>3 DEF Ahead, OnItsWay
<1>8. \A q : OnItsWay(d, q) <=> OnItsWay(c, q) \/ q = r
  BY <1>4, <1>6 DEF OnItsWay
<1> QED BY <1>1, <1>2, <1>4, <1>5, <1>7, <1>8 DEF d

LEMMA HandledEffect ==
    ASSUME NEW R, NEW c \in ClientType(R), c.pipe # <<>>, NEW o \in {"ok", "error"}
    PROVE  /\ Handled(c, o) \in ClientType(R)
           /\ Handled(c, o).process = c.process /\ Handled(c, o).pending = c.pending
           /\ Piped(c, Head(c.pipe)) /\ Told(Handled(c, o), Reply(Head(c.pipe), o))
           /\ \A q : Piped(Handled(c, o), q) => Piped(c, q)
           /\ \A l : Told(Handled(c, o), l) <=> Told(c, l) \/ l = Reply(Head(c.pipe), o)
           /\ \A q : OnItsWay(Handled(c, o), q) <=> OnItsWay(c, q)
           /\ \A a, b : Ahead(Handled(c, o), a, b) => Ahead(c, a, b)
           /\ \A b : Piped(Handled(c, o), b) => Ahead(c, Head(c.pipe), b)
<1> DEFINE d == Handled(c, o)
           h == Head(c.pipe)
           n == Len(c.pipe)
           m == Len(c.lines)
<1>0. c.pipe \in Seq(R) /\ c.lines \in Seq(LinesOf(R)) /\ c.pending \in SUBSET R /\ c.process \in BOOLEAN
  BY ClientFields
<1>1. /\ d.process = c.process /\ d.pending = c.pending
      /\ d.pipe = Tail(c.pipe) /\ d.lines = Append(c.lines, Reply(h, o))
  BY DEF Handled, ClientType
<1>2. h \in R /\ h = c.pipe[1] /\ n \in Nat /\ n >= 1 /\ m \in Nat
  BY <1>0
<1>3. d \in ClientType(R)
  <2>1. Reply(h, o) \in LinesOf(R)
    BY <1>2 DEF LinesOf
  <2>2. Tail(c.pipe) \in Seq(R) /\ Append(c.lines, Reply(h, o)) \in Seq(LinesOf(R))
    BY <1>0, <2>1
  <2> QED BY <1>0, <2>2, ClientChanged DEF Handled
<1>4. /\ Len(d.pipe) = n - 1 /\ Len(d.lines) = m + 1
      /\ \A i \in 1..n - 1 : d.pipe[i] = c.pipe[i + 1]
      /\ \A i \in 1..m : d.lines[i] = c.lines[i]
      /\ d.lines[m + 1] = Reply(h, o)
  BY <1>0, <1>1, <1>2
<1> HIDE DEF d, h, n, m
<1>5. /\ \A i \in 1..Len(d.pipe) : i + 1 \in 1..n /\ 1 < i + 1 /\ d.pipe[i] = c.pipe[i + 1]
      /\ \A i \in 1..n : i = 1 \/ (i - 1 \in 1..Len(d.pipe) /\ d.pipe[i - 1] = c.pipe[i])
      /\ 1 \in 1..n
  BY <1>2, <1>4
<1>6. \A i : i \in 1..Len(d.lines) <=> i \in 1..m \/ i = m + 1
  BY <1>2, <1>4
<1>7. /\ Piped(c, h) /\ \A q : Piped(d, q) => Piped(c, q)
      /\ \A q : Piped(c, q) => Piped(d, q) \/ q = h
  <2>1. ASSUME NEW q, NEW i \in 1..n, c.pipe[i] = q PROVE Piped(d, q) \/ q = h
    BY <1>2, <1>5, <2>1 DEF Piped
  <2> QED BY <1>2, <1>5, <2>1 DEF Piped, n
<1>8. \A l : Told(d, l) <=> Told(c, l) \/ l = Reply(h, o)
  BY <1>4, <1>6 DEF Told, m
<1>9. \A a, p : Reply(a, p) = Reply(h, o) => a = h
  BY DEF Reply
<1>10. \A q : Answered(d, q) <=> Answered(c, q) \/ q = h
  BY <1>8, <1>9 DEF Answered
<1>11. \A b : Piped(d, b) => Ahead(c, h, b)
  <2> SUFFICES ASSUME NEW b, NEW i \in 1..Len(d.pipe), d.pipe[i] = b PROVE Ahead(c, h, b)
    BY DEF Piped
  <2>1. \E j, k \in 1..Len(c.pipe) : j < k /\ c.pipe[j] = h /\ c.pipe[k] = b
    BY <1>2, <1>5 DEF n
  <2> QED BY <2>1 DEF Ahead
<1>12. ASSUME NEW a, NEW b, Ahead(d, a, b) PROVE Ahead(c, a, b)
  <2>1. CASE \E i, j \in 1..Len(d.pipe) : i < j /\ d.pipe[i] = a /\ d.pipe[j] = b
    <3>1. PICK i, j \in 1..Len(d.pipe) : i < j /\ d.pipe[i] = a /\ d.pipe[j] = b
      BY <2>1
    <3>2. i + 1 \in 1..n /\ j + 1 \in 1..n /\ i + 1 < j + 1
      BY <1>2, <1>4, <3>1
    <3>3. \E k, l \in 1..Len(c.pipe) : k < l /\ c.pipe[k] = a /\ c.pipe[l] = b
      BY <1>5, <3>1, <3>2 DEF n
    <3> QED BY <3>3 DEF Ahead
  <2>2. CASE \E i, j \in 1..Len(d.lines) : \E p, q \in {"ok", "error"} :
                i < j /\ d.lines[i] = Reply(a, p) /\ d.lines[j] = Reply(b, q)
    <3>1. PICK i, j \in 1..Len(d.lines), p, q \in {"ok", "error"} :
                i < j /\ d.lines[i] = Reply(a, p) /\ d.lines[j] = Reply(b, q)
      BY <2>2
    <3>2. i \in 1..m /\ d.lines[i] = c.lines[i]
      BY <1>2, <1>4, <3>1
    <3>3. CASE j \in 1..m
      BY <1>4, <3>1, <3>2, <3>3 DEF Ahead, m
    <3>4. CASE j = m + 1
      <4>1. b = h
        BY <1>4, <1>9, <3>1, <3>4
      <4>2. Answered(c, a)
        BY <3>1, <3>2 DEF Answered, Told, m
      <4> QED BY <1>7, <4>1, <4>2 DEF Ahead
    <3> QED BY <1>6, <3>3, <3>4
  <2>3. CASE Answered(d, a) /\ Piped(d, b)
    <3>1. CASE a = h
      BY <1>11, <2>3, <3>1
    <3>2. CASE a # h
      BY <1>7, <1>10, <2>3, <3>2 DEF Ahead
    <3> QED BY <3>1, <3>2
  <2> QED BY <1>12, <2>1, <2>2, <2>3 DEF Ahead
<1>13. \A q : OnItsWay(d, q) <=> OnItsWay(c, q)
  BY <1>7, <1>10 DEF OnItsWay
<1> QED BY <1>1, <1>3, <1>7, <1>8, <1>11, <1>12, <1>13 DEF d, h

LEMMA PrintedEffect ==
    ASSUME NEW R, NEW c \in ClientType(R), NEW k \in {"press", "release"}
    PROVE  /\ Printed(c, HotkeyEvent(k)) \in ClientType(R)
           /\ Printed(c, HotkeyEvent(k)).process = c.process /\ Printed(c, HotkeyEvent(k)).pending = c.pending
           /\ Printed(c, HotkeyEvent(k)).pipe = c.pipe
           /\ \A q : Piped(Printed(c, HotkeyEvent(k)), q) <=> Piped(c, q)
           /\ \A r, o : Told(Printed(c, HotkeyEvent(k)), Reply(r, o)) <=> Told(c, Reply(r, o))
           /\ \A q : OnItsWay(Printed(c, HotkeyEvent(k)), q) <=> OnItsWay(c, q)
           /\ \A a, b : Ahead(Printed(c, HotkeyEvent(k)), a, b) => Ahead(c, a, b)
<1> DEFINE e == HotkeyEvent(k)
           d == Printed(c, e)
           m == Len(c.lines)
<1>0. c.pipe \in Seq(R) /\ c.lines \in Seq(LinesOf(R)) /\ c.pending \in SUBSET R /\ c.process \in BOOLEAN
  BY ClientFields
<1>1. /\ d.process = c.process /\ d.pending = c.pending
      /\ d.pipe = c.pipe /\ d.lines = Append(c.lines, e)
  BY DEF Printed, ClientType
<1>2. d \in ClientType(R)
  <2>1. e \in LinesOf(R)
    BY DEF LinesOf
  <2>2. Append(c.lines, e) \in Seq(LinesOf(R))
    BY <1>0, <2>1
  <2> HIDE DEF e
  <2> QED BY <1>0, <2>2, ClientChanged DEF Printed
<1>3. \A r, o : Reply(r, o) # e
  BY DEF Reply, HotkeyEvent
<1> HIDE DEF e
<1>4. /\ Len(d.lines) = m + 1 /\ m \in Nat
      /\ \A i \in 1..m : d.lines[i] = c.lines[i]
      /\ d.lines[m + 1] = e
  BY <1>0, <1>1
<1> HIDE DEF d, m
<1>5. \A i : i \in 1..Len(d.lines) <=> i \in 1..m \/ i = m + 1
  BY <1>4
<1>6. \A r, o : Told(d, Reply(r, o)) <=> Told(c, Reply(r, o))
  BY <1>3, <1>4, <1>5 DEF Told, m
<1>7. \A q : Piped(d, q) <=> Piped(c, q)
  BY <1>1 DEF Piped
<1>8. \A q : Answered(d, q) <=> Answered(c, q)
  BY <1>6 DEF Answered
<1>9. ASSUME NEW a, NEW b, Ahead(d, a, b) PROVE Ahead(c, a, b)
  <2>1. CASE \E i, j \in 1..Len(d.lines) : \E p, q \in {"ok", "error"} :
                i < j /\ d.lines[i] = Reply(a, p) /\ d.lines[j] = Reply(b, q)
    <3>1. PICK i, j \in 1..Len(d.lines), p, q \in {"ok", "error"} :
                i < j /\ d.lines[i] = Reply(a, p) /\ d.lines[j] = Reply(b, q)
      BY <2>1
    <3>2. i \in 1..m /\ j \in 1..m
      BY <1>3, <1>4, <1>5, <3>1
    <3> QED BY <1>4, <3>1, <3>2 DEF Ahead, m
  <2> QED BY <1>1, <1>7, <1>8, <1>9, <2>1 DEF Ahead
<1> QED BY <1>1, <1>2, <1>6, <1>7, <1>8, <1>9 DEF d, e, OnItsWay

\* What the line that is read says.
LEMMA LineSays ==
    ASSUME NEW R, NEW c \in ClientType(R), c.lines # <<>>
    PROVE  /\ NextLine(c).kind = "reply" => \E r \in R, o \in {"ok", "error"} : NextLine(c) = Reply(r, o)
           /\ NextLine(c).kind # "reply" => \A r, o : NextLine(c) # Reply(r, o)
           /\ \A r, o : NextLine(c) = Reply(r, o) =>
                /\ IsAnswer(c) <=> r \in c.pending
                /\ NextLine(c).request = r /\ NextLine(c).kind = "reply"
                /\ \A q, p : Reply(q, p) = Reply(r, o) => q = r /\ p = o
<1>1. NextLine(c) \in LinesOf(R)
  <2>1. c.lines \in Seq(LinesOf(R))
    BY ClientFields
  <2> QED BY <2>1 DEF NextLine
<1> QED BY <1>1 DEF LinesOf, Reply, HotkeyEvent, IsAnswer

LEMMA LineReadEffect ==
    ASSUME NEW R, NEW c \in ClientType(R), c.lines # <<>>
    PROVE  /\ LineRead(c) \in ClientType(R)
           /\ LineRead(c).process = c.process
           /\ LineRead(c).pending = IF IsAnswer(c) THEN c.pending \ {NextLine(c).request} ELSE c.pending
           /\ Told(c, NextLine(c)) /\ \A r, o : NextLine(c) = Reply(r, o) => Told(c, Reply(r, o))
           /\ \A q : Piped(LineRead(c), q) <=> Piped(c, q)
           /\ \A l : Told(LineRead(c), l) => Told(c, l)
           /\ \A l : Told(c, l) => Told(LineRead(c), l) \/ l = NextLine(c)
           /\ \A q : OnItsWay(LineRead(c), q) => OnItsWay(c, q)
           /\ \A q : NextLine(c) \notin {Reply(q, "ok"), Reply(q, "error")} =>
                        (OnItsWay(c, q) => OnItsWay(LineRead(c), q))
           /\ \A a, b : Ahead(LineRead(c), a, b) => Ahead(c, a, b)
           /\ \A a, b, o : NextLine(c) = Reply(a, o) /\ OnItsWay(LineRead(c), b) => Ahead(c, a, b)
<1> DEFINE d == LineRead(c)
           h == NextLine(c)
           m == Len(c.lines)
<1>0. c.pipe \in Seq(R) /\ c.lines \in Seq(LinesOf(R)) /\ c.pending \in SUBSET R /\ c.process \in BOOLEAN
  BY ClientFields
<1> DEFINE s == IF IsAnswer(c) THEN c.pending \ {NextLine(c).request} ELSE c.pending
<1>1. /\ d.process = c.process /\ d.pending = s /\ d.pipe = c.pipe /\ d.lines = Tail(c.lines)
  BY DEF LineRead, ClientType
<1>2. h \in LinesOf(R) /\ h = c.lines[1] /\ m \in Nat /\ m >= 1
  BY <1>0 DEF NextLine
<1>3. d \in ClientType(R)
  <2>1. Tail(c.lines) \in Seq(LinesOf(R)) /\ s \in SUBSET R
    BY <1>0
  <2>2. d = [c EXCEPT !.lines = Tail(c.lines), !.pending = s]
    BY DEF LineRead
  <2> HIDE DEF d, s
  <2> QED BY <1>0, <2>1, <2>2, ClientChanged
<1>4. /\ Len(d.lines) = m - 1 /\ \A i \in 1..m - 1 : d.lines[i] = c.lines[i + 1]
  BY <1>0, <1>1, <1>2
<1> HIDE DEF d, h, m, s
<1>5. /\ \A i \in 1..Len(d.lines) : i + 1 \in 1..m /\ 1 < i + 1 /\ d.lines[i] = c.lines[i + 1]
      /\ \A i \in 1..m : i = 1 \/ (i - 1 \in 1..Len(d.lines) /\ d.lines[i - 1] = c.lines[i])
      /\ 1 \in 1..m
  BY <1>2, <1>4
<1>6. Told(c, h) /\ \A r, o : h = Reply(r, o) => Told(c, Reply(r, o))
  BY <1>2, <1>5 DEF Told, m
<1>7. \A q : Piped(d, q) <=> Piped(c, q)
  BY <1>1 DEF Piped
<1>8. \A l : Told(d, l) => Told(c, l)
  BY <1>5 DEF Told, m
<1>9. \A l : Told(c, l) => Told(d, l) \/ l = h
  BY <1>2, <1>5 DEF Told, m
<1>10. \A q : OnItsWay(d, q) => OnItsWay(c, q)
  BY <1>7, <1>8 DEF OnItsWay, Answered
<1>11. \A q : h \notin {Reply(q, "ok"), Reply(q, "error")} => (OnItsWay(c, q) => OnItsWay(d, q))
  BY <1>7, <1>9 DEF OnItsWay, Answered
<1>12. ASSUME NEW a, NEW b, Ahead(d, a, b) PROVE Ahead(c, a, b)
  <2>1. CASE \E i, j \in 1..Len(d.lines) : \E p, q \in {"ok", "error"} :
                i < j /\ d.lines[i] = Reply(a, p) /\ d.lines[j] = Reply(b, q)
    <3>1. PICK i, j \in 1..Len(d.lines), p, q \in {"ok", "error"} :
                i < j /\ d.lines[i] = Reply(a, p) /\ d.lines[j] = Reply(b, q)
      BY <2>1
    <3>2. i + 1 \in 1..m /\ j + 1 \in 1..m /\ i + 1 < j + 1 /\ c.lines[i + 1] = Reply(a, p) /\ c.lines[j + 1] = Reply(b, q)
      BY <1>2, <1>4, <3>1
    <3>3. \E k, l \in 1..Len(c.lines) : \E o, u \in {"ok", "error"} :
                k < l /\ c.lines[k] = Reply(a, o) /\ c.lines[l] = Reply(b, u)
      BY <3>2 DEF m
    <3> QED BY <3>3 DEF Ahead
  <2> QED BY <1>1, <1>7, <1>8, <1>12, <2>1 DEF Ahead, Answered
<1>13. ASSUME NEW a, NEW b, NEW o, h = Reply(a, o), OnItsWay(d, b) PROVE Ahead(c, a, b)
  <2>0. o \in {"ok", "error"}
    BY <1>13, LineSays DEF h
  <2>1. CASE Piped(d, b)
    BY <1>6, <1>7, <1>13, <2>0, <2>1 DEF Ahead, Answered
  <2>2. CASE Answered(d, b)
    <3>1. PICK i \in 1..Len(d.lines), p \in {"ok", "error"} : d.lines[i] = Reply(b, p)
      BY <2>2 DEF Answered, Told
    <3>2. /\ 1 \in 1..Len(c.lines) /\ i + 1 \in 1..Len(c.lines) /\ 1 < i + 1
          /\ c.lines[1] = Reply(a, o) /\ c.lines[i + 1] = Reply(b, p)
      BY <1>2, <1>5, <1>13, <3>1 DEF m
    <3>3. \E k, l \in 1..Len(c.lines) : \E t, u \in {"ok", "error"} :
                k < l /\ c.lines[k] = Reply(a, t) /\ c.lines[l] = Reply(b, u)
      BY <2>0, <3>1, <3>2
    <3> QED BY <3>3 DEF Ahead
  <2> QED BY <1>13, <2>1, <2>2 DEF OnItsWay
<1> QED BY <1>1, <1>3, <1>6, <1>7, <1>8, <1>9, <1>10, <1>11, <1>12, <1>13 DEF d, h, s

LEMMA ExitedEffect ==
    ASSUME NEW R, NEW c \in ClientType(R)
    PROVE  /\ Exited(c) \in ClientType(R)
           /\ ~Exited(c).process /\ Exited(c).pending = {} /\ Exited(c).pipe = <<>>
           /\ \A q : ~Piped(Exited(c), q)
           /\ \A l : Told(Exited(c), l) <=> Told(c, l)
           /\ \A q : OnItsWay(Exited(c), q) => OnItsWay(c, q)
           /\ \A a, b : Ahead(Exited(c), a, b) => Ahead(c, a, b)
<1> DEFINE d == Exited(c)
<1>0. c.pipe \in Seq(R) /\ c.lines \in Seq(LinesOf(R)) /\ c.pending \in SUBSET R /\ c.process \in BOOLEAN
  BY ClientFields
<1>1. /\ d.process = FALSE /\ d.pending = {} /\ d.pipe = <<>> /\ d.lines = c.lines
  BY DEF Exited, ClientType
<1>2. d \in ClientType(R)
  <2>1. <<>> \in Seq(R) /\ {} \in SUBSET R /\ FALSE \in BOOLEAN
    OBVIOUS
  <2> QED BY <1>0, <2>1, ClientChanged DEF Exited
<1> HIDE DEF d
<1>3. \A i : i \notin 1..Len(d.pipe)
  BY <1>1
<1>4. \A q : ~Piped(d, q)
  BY <1>3 DEF Piped
<1>5. \A l : Told(d, l) <=> Told(c, l)
  BY <1>1 DEF Told
<1>6. \A a, b : Ahead(d, a, b) => Ahead(c, a, b)
  BY <1>1, <1>3, <1>4 DEF Ahead
<1> QED BY <1>1, <1>2, <1>4, <1>5, <1>6 DEF d, OnItsWay, Answered

LEMMA StoppedEffect ==
    ASSUME NEW R, NEW c \in ClientType(R)
    PROVE  /\ Stopped(c) \in ClientType(R)
           /\ ~Stopped(c).process /\ Stopped(c).pending = c.pending /\ Stopped(c).pipe = c.pipe
           /\ \A q : Piped(Stopped(c), q) <=> Piped(c, q)
           /\ \A l : Told(Stopped(c), l) <=> Told(c, l)
           /\ \A q : OnItsWay(Stopped(c), q) <=> OnItsWay(c, q)
           /\ \A a, b : Ahead(Stopped(c), a, b) <=> Ahead(c, a, b)
<1> DEFINE d == Stopped(c)
<1>1. /\ d.process = FALSE /\ d.pending = c.pending /\ d.pipe = c.pipe /\ d.lines = c.lines
  BY DEF Stopped, ClientType
<1>2. d \in ClientType(R)
  <2>1. c.pipe \in Seq(R) /\ c.lines \in Seq(LinesOf(R)) /\ c.pending \in SUBSET R /\ FALSE \in BOOLEAN
    BY ClientFields
  <2> QED BY <2>1, ClientChanged DEF Stopped
<1> HIDE DEF d
<1>3. /\ \A q : Piped(d, q) <=> Piped(c, q)
      /\ \A l : Told(d, l) <=> Told(c, l)
  BY <1>1 DEF Piped, Told
<1>4. \A a, b : Ahead(d, a, b) <=> Ahead(c, a, b)
  BY <1>1, <1>3 DEF Ahead, Answered
<1> QED BY <1>1, <1>2, <1>3, <1>4 DEF d, OnItsWay, Answered

\* Two clients with the same requests on the same way.
SameWay(c, d) ==
    /\ d.process = c.process /\ d.pending = c.pending
    /\ \A q : Piped(d, q) <=> Piped(c, q)
    /\ \A r, o : Told(d, Reply(r, o)) <=> Told(c, Reply(r, o))
    /\ \A a, b : Ahead(d, a, b) => Ahead(c, a, b)

\* An event of a key is read, or printed, beside the way of the requests.
LEMMA EventRead ==
    ASSUME NEW R, NEW c \in ClientType(R), c.lines # <<>>, NextLine(c).kind # "reply"
    PROVE  LineRead(c) \in ClientType(R) /\ SameWay(c, LineRead(c))
<1>1. \A r, o : NextLine(c) # Reply(r, o)
  BY LineSays
<1>2. ~IsAnswer(c)
  BY DEF IsAnswer
<1>3. LineRead(c) \in ClientType(R) /\ LineRead(c).process = c.process /\ LineRead(c).pending = c.pending
  BY <1>2, LineReadEffect
<1>4. \A q : Piped(LineRead(c), q) <=> Piped(c, q)
  BY LineReadEffect
<1>5. \A r, o : Told(LineRead(c), Reply(r, o)) <=> Told(c, Reply(r, o))
  <2>1. /\ \A l : Told(LineRead(c), l) => Told(c, l)
        /\ \A l : Told(c, l) => Told(LineRead(c), l) \/ l = NextLine(c)
    BY LineReadEffect
  <2> QED BY <1>1, <2>1
<1>6. \A a, b : Ahead(LineRead(c), a, b) => Ahead(c, a, b)
  BY LineReadEffect
<1> QED BY <1>3, <1>4, <1>5, <1>6 DEF SameWay

LEMMA EventPrinted ==
    ASSUME NEW R, NEW c \in ClientType(R), NEW k \in {"press", "release"}
    PROVE  Printed(c, HotkeyEvent(k)) \in ClientType(R) /\ SameWay(c, Printed(c, HotkeyEvent(k)))
BY PrintedEffect DEF SameWay

\* An answer is read: who it is for is behind nobody that is left on the way.
LEMMA AnswerRead ==
    ASSUME NEW R, NEW c \in ClientType(R), c.lines # <<>>,
           NEW q, NEW o \in {"ok", "error"}, NextLine(c) = Reply(q, o)
    PROVE  /\ LineRead(c) \in ClientType(R) /\ LineRead(c).process = c.process
           /\ LineRead(c).pending = c.pending \ {q} /\ (IsAnswer(c) <=> q \in c.pending)
           /\ Told(c, Reply(q, o)) /\ Answered(c, q)
           /\ \A r : Piped(LineRead(c), r) <=> Piped(c, r)
           /\ \A r, p : Told(LineRead(c), Reply(r, p)) => Told(c, Reply(r, p))
           /\ \A r : Answered(LineRead(c), r) => Answered(c, r)
           /\ \A r : OnItsWay(LineRead(c), r) => OnItsWay(c, r)
           /\ \A r : r # q => (OnItsWay(c, r) => OnItsWay(LineRead(c), r))
           /\ \A a, b : Ahead(LineRead(c), a, b) => Ahead(c, a, b)
           /\ \A b : OnItsWay(LineRead(c), b) => Ahead(c, q, b)
<1>1. /\ IsAnswer(c) <=> q \in c.pending
      /\ NextLine(c).request = q /\ \A r, p : Reply(r, p) = Reply(q, o) => r = q
  BY LineSays
<1>2. LineRead(c).pending = c.pending \ {q}
  <2>1. LineRead(c).pending = IF IsAnswer(c) THEN c.pending \ {q} ELSE c.pending
    BY <1>1, LineReadEffect
  <2> QED BY <1>1, <2>1
<1>3. LineRead(c) \in ClientType(R) /\ LineRead(c).process = c.process
  BY LineReadEffect
<1>4. Told(c, Reply(q, o)) /\ Answered(c, q)
  <2>1. Told(c, Reply(q, o))
    BY LineReadEffect
  <2> QED BY <2>1 DEF Answered
<1>5. /\ \A r : Piped(LineRead(c), r) <=> Piped(c, r)
      /\ \A l : Told(LineRead(c), l) => Told(c, l)
      /\ \A r : OnItsWay(LineRead(c), r) => OnItsWay(c, r)
  BY LineReadEffect
<1>6. \A r : r # q => (OnItsWay(c, r) => OnItsWay(LineRead(c), r))
  <2>1. \A r : r # q => NextLine(c) \notin {Reply(r, "ok"), Reply(r, "error")}
    BY <1>1
  <2>2. \A r : NextLine(c) \notin {Reply(r, "ok"), Reply(r, "error")} =>
                    (OnItsWay(c, r) => OnItsWay(LineRead(c), r))
    BY LineReadEffect
  <2> QED BY <2>1, <2>2
<1>7. \A a, b : Ahead(LineRead(c), a, b) => Ahead(c, a, b)
  BY LineReadEffect
<1>8. \A b : OnItsWay(LineRead(c), b) => Ahead(c, q, b)
  <2>1. \A a, b, p : NextLine(c) = Reply(a, p) /\ OnItsWay(LineRead(c), b) => Ahead(c, a, b)
    BY LineReadEffect
  <2> QED BY <2>1
<1> QED BY <1>1, <1>2, <1>3, <1>4, <1>5, <1>6, <1>7, <1>8 DEF Answered

LEMMA SameWayKeeps ==
    ASSUME NEW c, NEW d, SameWay(c, d)
    PROVE  /\ \A q : Answered(d, q) <=> Answered(c, q)
           /\ \A q : OnItsWay(d, q) <=> OnItsWay(c, q)
BY DEF SameWay, Answered, OnItsWay

(***************************************************************************)
(* Dump mode and the bridge.                                               *)
(***************************************************************************)
DumpFields == [phase: {"idle", "recording", "processing"}, current: DumpSessions \cup {NoSession},
               holding: BOOLEAN, sse: DumpSessions \cup {NoSession}, drawn: SUBSET DumpSessions,
               byHold: SUBSET DumpSessions]
BridgeFields == [table: SUBSET BridgeSessions, known: SUBSET BridgeSessions, drawn: SUBSET BridgeSessions]
HelperFields == [alive: BOOLEAN, captures: SUBSET RecordingSessions, key: {"up", "down"}]
ImportFields == [inFlight: SUBSET DumpSessions, sent: [DumpSessions -> Nat]]

LEMMA DumpFiles ==
    /\ \A s \in RecordingSessions : StartFile(s) \in DumpRequests /\ StopFile(s) \in DumpRequests
    /\ \A s, t : StartFile(s) # StopFile(t)
    /\ \A s, t : StartFile(s) = StartFile(t) => s = t
    /\ \A s, t : StopFile(s) = StopFile(t) => s = t
BY DEF DumpRequests, StartFile, StopFile, Request

LEMMA DumpChanged ==
    ASSUME NEW d \in DumpFields
    PROVE  /\ DumpForgotten(d) \in DumpFields
           /\ DumpForgotten(d).phase = "idle" /\ DumpForgotten(d).current = NoSession
           /\ DumpForgotten(d).sse = NoSession
           /\ DumpForgotten(d).drawn = d.drawn /\ DumpForgotten(d).byHold = d.byHold
BY DEF DumpFields, DumpForgotten

LEMMA DumpBegins ==
    ASSUME NEW d \in DumpFields, NEW s \in DumpSessions, NEW held \in BOOLEAN
    PROVE  /\ DumpBegun(d, s, held) \in DumpFields
           /\ DumpBegun(d, s, held).phase = "recording" /\ DumpBegun(d, s, held).current = s
           /\ DumpBegun(d, s, held).holding = held /\ DumpBegun(d, s, held).sse = d.sse
           /\ DumpBegun(d, s, held).drawn = d.drawn \cup {s}
           /\ DumpBegun(d, s, held).byHold = IF held THEN d.byHold \cup {s} ELSE d.byHold
BY DEF DumpFields, DumpBegun

LEMMA DumpFieldChanged ==
    ASSUME NEW d \in DumpFields, NEW h \in BOOLEAN, NEW x \in DumpSessions \cup {NoSession}
    PROVE  /\ [d EXCEPT !.phase = "processing", !.holding = h] \in DumpFields
           /\ [d EXCEPT !.holding = h] \in DumpFields
           /\ [d EXCEPT !.sse = x] \in DumpFields
BY DEF DumpFields

LEMMA DumpTyped ==
    DumpTypeOK <=> /\ dump \in DumpFields /\ dumpOverlay \in OverlayType /\ dumpStreams \subseteq DumpSessions
                   /\ bridge \in BridgeFields /\ recorder \in ClientType(DumpRequests)
                   /\ recorderHelper \in HelperFields /\ imports \in ImportFields /\ dumpQuit \in BOOLEAN
BY DEF DumpTypeOK, DumpFields, BridgeFields, HelperFields, ImportFields

LEMMA OverlayChanged ==
    ASSUME NEW o \in OverlayType
    PROVE  /\ Shown(o) \in OverlayType /\ Shown(o).window = "visible" /\ ~Shown(o).hideTimer
           /\ HideScheduled(o) \in OverlayType /\ HideFired(o) \in OverlayType /\ NoOverlay \in OverlayType
           /\ \A phase : StateSent(o, phase) \in OverlayType
BY DEF OverlayType, Shown, EnsureWindow, HideScheduled, HideFired, NoOverlay, StateSent

\* A key begins a recording; before the helper is asked, and whether it can be.
LEMMA BeginStep ==
    ASSUME DumpTypeOK, DumpInv, dump.phase = "idle", ~dumpQuit,
           NEW c \in ClientType(DumpRequests), SameWay(recorder, c),
           NEW s \in DumpSessions, NEW held \in BOOLEAN, StartCapture(c, s, held),
           UNCHANGED <<bridge, recorderHelper, imports, dumpQuit>>
    PROVE  DumpTypeOK' /\ DumpInv'
<1>0. /\ dump \in DumpFields /\ dumpOverlay \in OverlayType /\ dumpStreams \subseteq DumpSessions
      /\ s \notin dump.drawn /\ s \in RecordingSessions
      /\ DumpSessions \cap BridgeSessions = {} /\ NoSession \notin DumpSessions
      /\ bridge.drawn \subseteq BridgeSessions
  BY DumpTyped, DumpAssumption DEF StartCapture, NextDumpSession, RecordingSessions, BridgeFields
<1>c. /\ c.process = recorder.process /\ c.pending = recorder.pending
      /\ \A q : Piped(c, q) <=> Piped(recorder, q)
      /\ \A r, o : Told(c, Reply(r, o)) <=> Told(recorder, Reply(r, o))
      /\ \A q : Answered(c, q) <=> Answered(recorder, q)
      /\ \A q : OnItsWay(c, q) <=> OnItsWay(recorder, q)
      /\ \A a, b : Ahead(c, a, b) => Ahead(recorder, a, b)
  BY SameWayKeeps DEF SameWay
<1>s. /\ ~OnItsWay(recorder, StopFile(s)) /\ imports.sent[s] = 0
      /\ dump.current = NoSession => s \notin dump.byHold
      /\ s \notin dump.byHold /\ s \notin bridge.table
  BY <1>0 DEF DumpInv, NothingBeforeDrawn
<1>1. CASE CanSend(c)
  <2>1. /\ dump' = DumpBegun(dump, s, held) /\ recorder' = Send(c, StartFile(s))
        /\ dumpOverlay' = Shown(dumpOverlay) /\ UNCHANGED dumpStreams
    BY <1>1 DEF StartCapture
  <2>2. /\ recorder' \in ClientType(DumpRequests)
        /\ recorder'.process = recorder.process /\ recorder'.pending = recorder.pending \cup {StartFile(s)}
        /\ \A q : Piped(recorder', q) <=> Piped(recorder, q) \/ q = StartFile(s)
        /\ \A r, o : Told(recorder', Reply(r, o)) <=> Told(recorder, Reply(r, o))
        /\ \A q : OnItsWay(recorder', q) <=> OnItsWay(recorder, q) \/ q = StartFile(s)
        /\ \A a, b : Ahead(recorder', a, b) =>
                Ahead(recorder, a, b) \/ (b = StartFile(s) /\ OnItsWay(recorder, a))
    BY <1>0, <1>c, <2>1, SendEffect, DumpFiles
  <2>3. \A q : Answered(recorder', q) <=> Answered(recorder, q)
    BY <2>2 DEF Answered
  <2>4. /\ dump' \in DumpFields /\ dump'.phase = "recording" /\ dump'.current = s /\ dump'.holding = held
        /\ dump'.sse = dump.sse /\ dump'.drawn = dump.drawn \cup {s}
        /\ dump'.byHold = IF held THEN dump.byHold \cup {s} ELSE dump.byHold
    BY <1>0, <2>1, DumpBegins
  <2>5. DumpTypeOK'
    BY <1>0, <2>1, <2>2, <2>4, DumpTyped, OverlayChanged
    DEF DumpTypeOK, DumpFields, ClientType
  <2>6. NothingBeforeDrawn'
    BY <1>0, <1>s, <2>2, <2>4, DumpFiles DEF DumpInv, NothingBeforeDrawn
  <2>7. StoppedOnce'
    BY <1>0, <1>s, <2>2, <2>4, DumpFiles DEF DumpInv, NothingBeforeDrawn, StoppedOnce, Stoppable
  <2>8. StartBeforeStop'
    BY <1>s, <2>2, <2>3, DumpFiles DEF DumpInv, StartBeforeStop
  <2>9. ImportsOnce'
    BY <1>s, <2>2, DumpFiles DEF DumpInv, ImportsOnce
  <2>10. DeadIsSilent' /\ BridgeKeeps'
    BY <1>0, <1>1, <1>c, <2>2, DumpFiles DEF DumpInv, DeadIsSilent, BridgeKeeps, CanSend
  <2>11. HeldRecordingEnds' /\ DumpRecordingIsShown'
    BY <1>0, <1>s, <2>1, <2>4, OverlayChanged DEF HeldRecordingEnds, DumpRecordingIsShown
  <2>12. ~StartsFail => AllIsCurrent'
    BY <1>0, <2>1, <2>2, <2>4, DumpFiles DEF DumpInv, AllIsCurrent
  <2> QED BY <2>5, <2>6, <2>7, <2>8, <2>9, <2>10, <2>11, <2>12 DEF DumpInv
<1>2. CASE ~CanSend(c)
  <2>1. /\ dump' = DumpForgotten(DumpBegun(dump, s, held)) /\ recorder' = c
        /\ dumpOverlay' = HideScheduled(Shown(dumpOverlay)) /\ dumpStreams' = dumpStreams \ {dump.sse}
    BY <1>2 DEF StartCapture
  <2>2. /\ dump' \in DumpFields /\ dump'.phase = "idle" /\ dump'.current = NoSession /\ dump'.sse = NoSession
        /\ dump'.drawn = dump.drawn \cup {s} /\ dump'.byHold \subseteq dump.byHold \cup {s}
    <3>1. dump \in DumpFields /\ s \in DumpSessions /\ held \in BOOLEAN
      BY <1>0
    <3>2. PICK e : e = DumpBegun(dump, s, held)
      OBVIOUS
    <3>3. e \in DumpFields /\ e.drawn = dump.drawn \cup {s}
      BY <3>1, <3>2 DEF DumpBegun, DumpFields
    <3>4. e.byHold = IF held THEN dump.byHold \cup {s} ELSE dump.byHold
      BY <3>1, <3>2 DEF DumpBegun, DumpFields
    <3>5. e.byHold \subseteq dump.byHold \cup {s}
      BY <3>4
    <3>6. dump' = DumpForgotten(e)
      BY <2>1, <3>2
    <3> QED BY <3>3, <3>5, <3>6, DumpChanged
  <2>3. DumpTypeOK'
    BY <1>0, <2>1, <2>2, DumpTyped, OverlayChanged DEF DumpTypeOK, DumpFields
  <2>4. NothingBeforeDrawn' /\ StoppedOnce'
    BY <1>c, <1>s, <2>1, <2>2 DEF DumpInv, NothingBeforeDrawn, StoppedOnce, Stoppable
  <2>5. StartBeforeStop' /\ ImportsOnce'
    BY <1>c, <2>1 DEF DumpInv, StartBeforeStop, ImportsOnce
  <2>6. DeadIsSilent' /\ BridgeKeeps'
    BY <1>c, <2>1 DEF DumpInv, DeadIsSilent, BridgeKeeps
  <2>7. HeldRecordingEnds' /\ DumpRecordingIsShown'
    BY <2>2 DEF HeldRecordingEnds, DumpRecordingIsShown
  <2>8. ~StartsFail => AllIsCurrent'
    BY <1>0, <1>c, <2>1, <2>2 DEF DumpInv, AllIsCurrent
  <2> QED BY <2>3, <2>4, <2>5, <2>6, <2>7, <2>8 DEF DumpInv
<1> QED BY <1>1, <1>2

\* The key ends the recording; before the helper is asked, and whether it can be.
LEMMA EndStep ==
    ASSUME DumpTypeOK, DumpInv, dump.phase = "recording", ~dumpQuit,
           NEW c \in ClientType(DumpRequests), SameWay(recorder, c),
           NEW holding \in BOOLEAN, StopCapture(c, holding),
           UNCHANGED <<bridge, recorderHelper, imports, dumpQuit>>
    PROVE  DumpTypeOK' /\ DumpInv'
<1> DEFINE n == dump.current
<1>0. /\ dump \in DumpFields /\ dumpOverlay \in OverlayType /\ dumpStreams \subseteq DumpSessions
      /\ n \in DumpSessions /\ n \in RecordingSessions /\ n \in dump.drawn /\ n \notin bridge.table
      /\ DumpSessions \cap BridgeSessions = {} /\ NoSession \notin DumpSessions
  BY DumpTyped, DumpAssumption
  DEF RecordingSessions, BridgeFields, DumpFields, DumpInv, NothingBeforeDrawn
<1>c. /\ c.process = recorder.process /\ c.pending = recorder.pending
      /\ \A q : Piped(c, q) <=> Piped(recorder, q)
      /\ \A r, o : Told(c, Reply(r, o)) <=> Told(recorder, Reply(r, o))
      /\ \A q : Answered(c, q) <=> Answered(recorder, q)
      /\ \A q : OnItsWay(c, q) <=> OnItsWay(recorder, q)
      /\ \A a, b : Ahead(c, a, b) => Ahead(recorder, a, b)
  BY SameWayKeeps DEF SameWay
<1>1. CASE CanSend(c)
  <2>1. /\ dump' = [dump EXCEPT !.phase = "processing", !.holding = holding]
        /\ recorder' = Send(c, StopFile(n)) /\ UNCHANGED <<dumpOverlay, dumpStreams>>
    BY <1>1 DEF StopCapture
  <2>2. /\ recorder' \in ClientType(DumpRequests)
        /\ recorder'.process = recorder.process /\ recorder'.pending = recorder.pending \cup {StopFile(n)}
        /\ \A q : Piped(recorder', q) <=> Piped(recorder, q) \/ q = StopFile(n)
        /\ \A r, o : Told(recorder', Reply(r, o)) <=> Told(recorder, Reply(r, o))
        /\ \A q : OnItsWay(recorder', q) <=> OnItsWay(recorder, q) \/ q = StopFile(n)
        /\ \A a, b : Ahead(recorder', a, b) => Ahead(recorder, a, b) \/ b = StopFile(n)
    BY <1>0, <1>c, <2>1, SendEffect, DumpFiles
  <2>3. \A q : Answered(recorder', q) <=> Answered(recorder, q)
    BY <2>2 DEF Answered
  <2>4. /\ dump' \in DumpFields /\ dump'.phase = "processing" /\ dump'.current = n
        /\ dump'.sse = dump.sse /\ dump'.drawn = dump.drawn /\ dump'.byHold = dump.byHold
    BY <1>0, <2>1, DumpFieldChanged DEF DumpFields
  <2>5. DumpTypeOK'
    BY <1>0, <2>1, <2>2, <2>4, DumpTyped DEF DumpTypeOK, DumpFields, ClientType
  <2>6. NothingBeforeDrawn'
    BY <1>0, <2>2, <2>4, DumpFiles DEF DumpInv, NothingBeforeDrawn
  <2>7. StoppedOnce'
    BY <1>0, <2>2, <2>4, DumpFiles DEF DumpInv, StoppedOnce, Stoppable
  <2>8. StartBeforeStop'
    BY <2>2, <2>3, DumpFiles DEF DumpInv, StartBeforeStop
  <2>9. ImportsOnce'
    BY <1>0, <2>2, DumpFiles DEF DumpInv, ImportsOnce, StoppedOnce, Stoppable
  <2>10. DeadIsSilent' /\ BridgeKeeps'
    BY <1>0, <1>1, <1>c, <2>2, DumpFiles DEF DumpInv, DeadIsSilent, BridgeKeeps, CanSend
  <2>11. HeldRecordingEnds' /\ DumpRecordingIsShown'
    BY <2>4 DEF HeldRecordingEnds, DumpRecordingIsShown
  <2>12. ~StartsFail => AllIsCurrent'
    BY <1>0, <2>1, <2>2, <2>4, DumpFiles DEF DumpInv, AllIsCurrent
  <2> QED BY <2>5, <2>6, <2>7, <2>8, <2>9, <2>10, <2>11, <2>12 DEF DumpInv
<1>2. CASE ~CanSend(c)
  <2>1. DumpCleanup /\ recorder' = c
    BY <1>2 DEF StopCapture
  <2>2. /\ dump' \in DumpFields /\ dump'.phase = "idle" /\ dump'.current = NoSession /\ dump'.sse = NoSession
        /\ dump'.drawn = dump.drawn /\ dump'.byHold = dump.byHold
    BY <1>0, <2>1, DumpChanged DEF DumpCleanup
  <2>3. DumpTypeOK'
    BY <1>0, <2>1, <2>2, DumpTyped, OverlayChanged DEF DumpTypeOK, DumpFields, DumpCleanup
  <2>4. NothingBeforeDrawn' /\ StoppedOnce'
    BY <1>c, <2>1, <2>2 DEF DumpInv, NothingBeforeDrawn, StoppedOnce, Stoppable
  <2>5. StartBeforeStop' /\ ImportsOnce'
    BY <1>c, <2>1 DEF DumpInv, StartBeforeStop, ImportsOnce
  <2>6. DeadIsSilent' /\ BridgeKeeps'
    BY <1>c, <2>1 DEF DumpInv, DeadIsSilent, BridgeKeeps
  <2>7. HeldRecordingEnds' /\ DumpRecordingIsShown'
    BY <2>2 DEF HeldRecordingEnds, DumpRecordingIsShown
  <2>8. ~StartsFail => AllIsCurrent'
    BY <1>0, <1>2, <1>c, <2>1, <2>2 DEF DumpInv, AllIsCurrent, DeadIsSilent, DumpCleanup, CanSend
  <2> QED BY <2>3, <2>4, <2>5, <2>6, <2>7, <2>8 DEF DumpInv
<1> QED BY <1>1, <1>2

\* Nothing but an event of the key is read or printed, and a recording that goes on
\* keeps what it knows: the other steps of the key.
LEMMA QuietStep ==
    ASSUME DumpTypeOK, DumpInv, recorder' \in ClientType(DumpRequests), SameWay(recorder, recorder'),
           \/ UNCHANGED dump
           \/ ~(dump.holding /\ dump.phase = "recording") /\ dump' = [dump EXCEPT !.holding = FALSE],
           recorderHelper' \in HelperFields, recorderHelper'.alive = recorderHelper.alive,
           recorderHelper'.captures = recorderHelper.captures,
           UNCHANGED <<dumpOverlay, dumpStreams, bridge, imports, dumpQuit>>
    PROVE  DumpTypeOK' /\ DumpInv'
<1>1. /\ recorder'.process = recorder.process /\ recorder'.pending = recorder.pending
      /\ \A q : Piped(recorder', q) <=> Piped(recorder, q)
      /\ \A r, o : Told(recorder', Reply(r, o)) <=> Told(recorder, Reply(r, o))
      /\ \A q : Answered(recorder', q) <=> Answered(recorder, q)
      /\ \A q : OnItsWay(recorder', q) <=> OnItsWay(recorder, q)
      /\ \A a, b : Ahead(recorder', a, b) => Ahead(recorder, a, b)
  BY SameWayKeeps DEF SameWay
<1>2. /\ dump' \in DumpFields /\ dump'.phase = dump.phase /\ dump'.current = dump.current
      /\ dump'.sse = dump.sse /\ dump'.drawn = dump.drawn /\ dump'.byHold = dump.byHold
      /\ \/ dump'.holding = dump.holding
         \/ ~(dump.holding /\ dump.phase = "recording")
  <2>1. dump \in DumpFields
    BY DumpTyped
  <2>2. CASE UNCHANGED dump
    BY <2>1, <2>2
  <2>3. CASE ~(dump.holding /\ dump.phase = "recording") /\ dump' = [dump EXCEPT !.holding = FALSE]
    BY <2>1, <2>3, DumpFieldChanged DEF DumpFields
  <2> QED BY <2>2, <2>3
<1>3. DumpTypeOK'
  BY <1>2, DumpTyped DEF DumpTypeOK, DumpFields, HelperFields
<1>4. NothingBeforeDrawn' /\ StoppedOnce'
  BY <1>1, <1>2 DEF DumpInv, NothingBeforeDrawn, StoppedOnce, Stoppable
<1>5. StartBeforeStop' /\ ImportsOnce'
  BY <1>1 DEF DumpInv, StartBeforeStop, ImportsOnce
<1>6. DeadIsSilent' /\ BridgeKeeps'
  BY <1>1 DEF DumpInv, DeadIsSilent, BridgeKeeps
<1>7. HeldRecordingEnds' /\ DumpRecordingIsShown'
  BY <1>2 DEF DumpInv, HeldRecordingEnds, DumpRecordingIsShown
<1>8. ~StartsFail => AllIsCurrent'
  BY <1>1, <1>2 DEF DumpInv, AllIsCurrent
<1> QED BY <1>3, <1>4, <1>5, <1>6, <1>7, <1>8 DEF DumpInv

\* The keys: what Toggle, HoldPress and HoldRelease do.
LEMMA KeyStep ==
    ASSUME DumpTypeOK, DumpInv, Toggle \/ HoldPress \/ HoldRelease \/ RecorderKey
    PROVE  DumpTypeOK' /\ DumpInv'
<1>0. dump \in DumpFields /\ dump.holding \in BOOLEAN /\ recorder \in ClientType(DumpRequests)
      /\ recorderHelper \in HelperFields
  BY DumpTyped DEF DumpFields
<1>1. CASE Toggle
  <2>1. SameWay(recorder, recorder) /\ ~dumpQuit /\ UNCHANGED <<bridge, recorderHelper, imports, dumpQuit>>
    BY <1>1 DEF SameWay, Toggle
  <2>2. PICK c : c = recorder
    OBVIOUS
  <2>3. PICK h : h = dump.holding
    OBVIOUS
  <2>4. \/ dump.phase = "idle" /\ \E s \in DumpSessions : StartCapture(c, s, FALSE)
        \/ dump.phase = "recording" /\ StopCapture(c, h)
    BY <1>1, <2>2, <2>3 DEF Toggle
  <2> QED BY <1>0, <2>1, <2>2, <2>3, <2>4, BeginStep, EndStep
<1>2. ASSUME NEW kind \in {"press", "release"}, DumpReadsHotkey(kind)
      PROVE  /\ LineRead(recorder) \in ClientType(DumpRequests) /\ SameWay(recorder, LineRead(recorder))
             /\ ~dumpQuit
  BY <1>0, <1>2, EventRead DEF DumpReadsHotkey
<1>3. CASE HoldPress
  <2>1. /\ LineRead(recorder) \in ClientType(DumpRequests) /\ SameWay(recorder, LineRead(recorder))
        /\ ~dumpQuit /\ UNCHANGED <<bridge, recorderHelper, imports, dumpQuit>>
    BY <1>2, <1>3 DEF HoldPress
  <2>2. CASE dump.phase # "idle" \/ dump.holding
    <3>1. recorder' = LineRead(recorder) /\ UNCHANGED <<dump, dumpOverlay, dumpStreams>>
      BY <1>3, <2>2 DEF HoldPress, orchestrator
    <3> QED BY <1>0, <2>1, <3>1, QuietStep
  <2>3. CASE ~(dump.phase # "idle" \/ dump.holding)
    <3>1. PICK c : c = LineRead(recorder)
      OBVIOUS
    <3>2. PICK s \in DumpSessions : StartCapture(c, s, TRUE)
      BY <1>3, <2>3, <3>1 DEF HoldPress
    <3> QED BY <2>1, <2>3, <3>1, <3>2, BeginStep
  <2> QED BY <2>2, <2>3
<1>4. CASE HoldRelease
  <2>1. /\ LineRead(recorder) \in ClientType(DumpRequests) /\ SameWay(recorder, LineRead(recorder))
        /\ ~dumpQuit /\ UNCHANGED <<bridge, recorderHelper, imports, dumpQuit>>
    BY <1>2, <1>4 DEF HoldRelease
  <2>2. CASE ~(dump.holding /\ dump.phase = "recording")
    <3>1. /\ recorder' = LineRead(recorder) /\ UNCHANGED <<dumpOverlay, dumpStreams>>
          /\ dump' = [dump EXCEPT !.holding = FALSE]
      BY <1>4, <2>2 DEF HoldRelease
    <3> QED BY <1>0, <2>1, <2>2, <3>1, QuietStep
  <2>3. CASE dump.holding /\ dump.phase = "recording"
    <3>1. PICK c : c = LineRead(recorder)
      OBVIOUS
    <3>2. StopCapture(c, FALSE)
      BY <1>4, <2>3, <3>1 DEF HoldRelease
    <3> QED BY <2>1, <2>3, <3>1, <3>2, EndStep
  <2> QED BY <2>2, <2>3
<1>5. CASE RecorderKey
  <2>1. PICK k \in {"press", "release"} : recorder' = Printed(recorder, HotkeyEvent(k))
    BY <1>5 DEF RecorderKey
  <2>2. recorder' \in ClientType(DumpRequests) /\ SameWay(recorder, recorder')
    BY <1>0, <2>1, EventPrinted
  <2>3. /\ recorderHelper' \in HelperFields /\ recorderHelper'.alive = recorderHelper.alive
        /\ recorderHelper'.captures = recorderHelper.captures
    BY <1>0, <1>5 DEF RecorderKey, HelperFields
  <2>4. UNCHANGED <<dump, dumpOverlay, dumpStreams, bridge, imports, dumpQuit>>
    BY <1>5 DEF RecorderKey, orchestrator
  <2> QED BY <2>2, <2>3, <2>4, QuietStep
<1> QED BY <1>1, <1>3, <1>4, <1>5

\* What cleanup() leaves of the orchestrator.
LEMMA Cleaned ==
    ASSUME DumpTypeOK, DumpCleanup
    PROVE  /\ dump' \in DumpFields /\ dump'.phase = "idle" /\ dump'.current = NoSession /\ dump'.sse = NoSession
           /\ dump'.drawn = dump.drawn /\ dump'.byHold = dump.byHold
           /\ dumpOverlay' \in OverlayType /\ dumpStreams' = dumpStreams \ {dump.sse}
           /\ HeldRecordingEnds' /\ DumpRecordingIsShown'
BY DumpTyped, DumpChanged, OverlayChanged DEF DumpCleanup, HeldRecordingEnds, DumpRecordingIsShown

\* What reading an answer leaves of the way of the requests.
LEMMA RecorderReads ==
    ASSUME DumpTypeOK, DumpInv, NEW q, NEW o \in {"ok", "error"}, DumpReads(q, o)
    PROVE  /\ recorder' \in ClientType(DumpRequests) /\ recorder'.process = recorder.process
           /\ recorder'.pending = recorder.pending \ {q} /\ (IsAnswer(recorder) <=> q \in recorder.pending)
           /\ Told(recorder, Reply(q, o)) /\ Answered(recorder, q)
           /\ \A r : Piped(recorder', r) <=> Piped(recorder, r)
           /\ \A r, p : Told(recorder', Reply(r, p)) => Told(recorder, Reply(r, p))
           /\ \A r : Answered(recorder', r) => Answered(recorder, r)
           /\ \A r : OnItsWay(recorder', r) => OnItsWay(recorder, r)
           /\ \A r : r # q => (OnItsWay(recorder, r) => OnItsWay(recorder', r))
           /\ \A a, b : Ahead(recorder', a, b) => Ahead(recorder, a, b)
           /\ \A b : OnItsWay(recorder', b) => Ahead(recorder, q, b)
           /\ ~dumpQuit
<1>1. recorder \in ClientType(DumpRequests)
  BY DumpTyped
<1>2. recorder.lines # <<>> /\ NextLine(recorder) = Reply(q, o) /\ recorder' = LineRead(recorder) /\ ~dumpQuit
  BY DEF DumpReads
<1> QED BY <1>1, <1>2, AnswerRead

\* An answer to a start of the orchestrator.
LEMMA StartAnswered ==
    ASSUME DumpTypeOK, DumpInv, NEW s \in DumpSessions, StartResolved(s) \/ StartRejected(s)
    PROVE  DumpTypeOK' /\ DumpInv'
<1>1. PICK o \in {"ok", "error"} :
        DumpReads(StartFile(s), o) /\ IsAnswer(recorder) /\ (o = "ok" => StartResolved(s))
                                   /\ (o = "error" => StartRejected(s))
  BY DEF StartResolved, StartRejected
<1>2. /\ recorder' \in ClientType(DumpRequests) /\ recorder'.process = recorder.process
      /\ recorder'.pending = recorder.pending \ {StartFile(s)} /\ StartFile(s) \in recorder.pending
      /\ Told(recorder, Reply(StartFile(s), o))
      /\ \A r : Piped(recorder', r) <=> Piped(recorder, r)
      /\ \A r, p : Told(recorder', Reply(r, p)) => Told(recorder, Reply(r, p))
      /\ \A r : Answered(recorder', r) => Answered(recorder, r)
      /\ \A r : OnItsWay(recorder', r) => OnItsWay(recorder, r)
      /\ \A a, b : Ahead(recorder', a, b) => Ahead(recorder, a, b)
      /\ ~dumpQuit
  BY <1>1, RecorderReads
<1>3. /\ UNCHANGED <<bridge, recorderHelper, imports, dumpQuit>>
      /\ dump \in DumpFields /\ dumpStreams \subseteq DumpSessions
      /\ s \in RecordingSessions /\ NoSession \notin DumpSessions
  BY DumpTyped, DumpAssumption DEF StartResolved, StartRejected, RecordingSessions
<1>4. /\ dump' \in DumpFields /\ dump'.drawn = dump.drawn /\ dump'.byHold = dump.byHold
      /\ dumpOverlay' \in OverlayType /\ dumpStreams' \subseteq DumpSessions
      /\ HeldRecordingEnds' /\ DumpRecordingIsShown'
      /\ \/ o = "ok" /\ dump'.phase = dump.phase /\ dump'.current = dump.current
                     /\ dump'.sse = s /\ dumpStreams' = dumpStreams \cup {s}
         \/ o = "error" /\ dump'.phase = "idle" /\ dump'.current = NoSession
  <2>1. CASE o = "ok"
    <3>1. /\ dump' = [dump EXCEPT !.sse = s] /\ dumpStreams' = dumpStreams \cup {s}
          /\ UNCHANGED dumpOverlay
      BY <1>1, <2>1 DEF StartResolved
    <3>2. dump' \in DumpFields /\ dump'.sse = s /\ dump'.phase = dump.phase /\ dump'.current = dump.current
          /\ dump'.holding = dump.holding /\ dump'.drawn = dump.drawn /\ dump'.byHold = dump.byHold
      BY <1>3, <3>1, DumpFieldChanged DEF DumpFields
    <3> QED
      BY <1>3, <2>1, <3>1, <3>2, DumpTyped DEF DumpInv, HeldRecordingEnds, DumpRecordingIsShown
  <2>2. CASE o = "error"
    <3>1. DumpCleanup
      BY <1>1, <2>2 DEF StartRejected
    <3> QED BY <1>3, <2>2, <3>1, Cleaned
  <2> QED BY <2>1, <2>2
<1>5. DumpTypeOK'
  BY <1>2, <1>3, <1>4, DumpTyped DEF DumpTypeOK, DumpFields, ClientType
<1>6. NothingBeforeDrawn' /\ StoppedOnce'
  <2>1. NothingBeforeDrawn'
    BY <1>2, <1>3, <1>4 DEF DumpInv, NothingBeforeDrawn
  <2> QED BY <1>2, <1>3, <1>4, <2>1 DEF DumpInv, StoppedOnce, Stoppable
<1>7. StartBeforeStop' /\ ImportsOnce'
  BY <1>2, <1>3 DEF DumpInv, StartBeforeStop, ImportsOnce
<1>8. DeadIsSilent' /\ BridgeKeeps'
  BY <1>2, <1>3, DumpFiles DEF DumpInv, DeadIsSilent, BridgeKeeps
<1>9. ~StartsFail => AllIsCurrent'
  <2> SUFFICES ASSUME ~StartsFail PROVE AllIsCurrent'
    OBVIOUS
  <2>1. AllIsCurrent /\ o = "ok" /\ dump.current = s /\ dump.phase # "idle"
    BY <1>2 DEF DumpInv, AllIsCurrent
  <2> QED BY <1>2, <1>3, <1>4, <2>1, DumpFiles DEF AllIsCurrent
<1> QED BY <1>4, <1>5, <1>6, <1>7, <1>8, <1>9 DEF DumpInv

\* An answer to a stop of the orchestrator: the file is closed, and no start of it is left on the way.
LEMMA StopAnswered ==
    ASSUME DumpTypeOK, DumpInv, NEW s \in DumpSessions, StopResolved(s) \/ StopRejected(s)
    PROVE  DumpTypeOK' /\ DumpInv'
<1>1. PICK o \in {"ok", "error"} :
        DumpReads(StopFile(s), o) /\ IsAnswer(recorder) /\ (o = "ok" => StopResolved(s))
                                  /\ (o = "error" => StopRejected(s))
  BY DEF StopResolved, StopRejected
<1>2. /\ recorder' \in ClientType(DumpRequests) /\ recorder'.process = recorder.process
      /\ recorder'.pending = recorder.pending \ {StopFile(s)} /\ StopFile(s) \in recorder.pending
      /\ Answered(recorder, StopFile(s))
      /\ \A r : Piped(recorder', r) <=> Piped(recorder, r)
      /\ \A r, p : Told(recorder', Reply(r, p)) => Told(recorder, Reply(r, p))
      /\ \A r : Answered(recorder', r) => Answered(recorder, r)
      /\ \A r : OnItsWay(recorder', r) => OnItsWay(recorder, r)
      /\ \A r : r # StopFile(s) => (OnItsWay(recorder, r) => OnItsWay(recorder', r))
      /\ \A a, b : Ahead(recorder', a, b) => Ahead(recorder, a, b)
      /\ \A b : OnItsWay(recorder', b) => Ahead(recorder, StopFile(s), b)
      /\ ~dumpQuit
  BY <1>1, RecorderReads
<1>3. /\ UNCHANGED <<bridge, recorderHelper, dumpQuit>>
      /\ dump \in DumpFields /\ dumpStreams \subseteq DumpSessions /\ imports \in ImportFields
      /\ s \in RecordingSessions /\ NoSession \notin DumpSessions
  BY DumpTyped, DumpAssumption DEF StopResolved, StopRejected, RecordingSessions
<1>4. ~OnItsWay(recorder, StartFile(s)) /\ s \notin recorderHelper.captures
  <2>1. ~OnItsWay(recorder', StartFile(s))
    BY <1>2, <1>3 DEF DumpInv, StartBeforeStop
  <2> QED BY <1>2, <1>3, <2>1, DumpFiles DEF DumpInv, StartBeforeStop
<1>5. ~Piped(recorder, StartFile(s)) /\ imports.sent[s] = 0 /\ s \in dump.drawn
  BY <1>2, <1>3, <1>4, DumpAssumption
  DEF OnItsWay, DumpInv, ImportsOnce, NothingBeforeDrawn, BridgeFields, DumpTypeOK
<1>6. CASE o = "ok"
  <2>1. imports' = Submitted(imports, s) /\ UNCHANGED <<dump, dumpOverlay, dumpStreams>>
    BY <1>1, <1>6 DEF StopResolved, orchestrator
  <2>2. /\ imports' \in ImportFields /\ imports'.inFlight = imports.inFlight \cup {s}
        /\ imports'.sent[s] = 1 /\ \A r \in DumpSessions \ {s} : imports'.sent[r] = imports.sent[r]
    <3>1. /\ imports.sent \in [DumpSessions -> Nat] /\ imports.inFlight \subseteq DumpSessions
          /\ imports'.inFlight = imports.inFlight \cup {s}
          /\ imports'.sent = [imports.sent EXCEPT ![s] = imports.sent[s] + 1]
      BY <1>3, <2>1 DEF Submitted, ImportFields
    <3>2. imports'.sent \in [DumpSessions -> Nat]
      BY <1>5, <3>1
    <3>3. imports' \in ImportFields
      BY <1>3, <2>1, <3>1, <3>2 DEF Submitted, ImportFields
    <3> QED BY <1>5, <3>1, <3>3
  <2>3. DumpTypeOK'
    BY <1>2, <1>3, <2>1, <2>2 DEF DumpTypeOK, ImportFields
  <2>4. NothingBeforeDrawn' /\ StoppedOnce'
    <3>1. NothingBeforeDrawn'
      BY <1>2, <1>3, <1>5, <2>1, <2>2 DEF DumpInv, NothingBeforeDrawn
    <3> QED BY <1>2, <1>3, <2>1, <2>2, <3>1 DEF DumpInv, StoppedOnce, Stoppable
  <2>5. StartBeforeStop' /\ ImportsOnce'
    BY <1>2, <1>3, <1>4, <1>5, <2>2, DumpFiles DEF DumpInv, StartBeforeStop, ImportsOnce
  <2>6. DeadIsSilent' /\ BridgeKeeps'
    BY <1>2, <1>3, DumpFiles, DumpAssumption DEF DumpInv, DeadIsSilent, BridgeKeeps
  <2>7. HeldRecordingEnds' /\ DumpRecordingIsShown'
    BY <1>3, <2>1 DEF DumpInv, HeldRecordingEnds, DumpRecordingIsShown
  <2>8. ~StartsFail => AllIsCurrent'
    <3> SUFFICES ASSUME ~StartsFail PROVE AllIsCurrent'
      OBVIOUS
    <3>1. AllIsCurrent /\ dump.current = s /\ dump.phase = "processing"
      BY <1>2 DEF DumpInv, AllIsCurrent
    <3>2. StartFile(s) \notin recorder.pending
      BY <1>4, <3>1 DEF AllIsCurrent
    <3> QED BY <1>2, <1>3, <2>1, <2>2, <3>1, <3>2, DumpFiles DEF AllIsCurrent
  <2> QED BY <2>3, <2>4, <2>5, <2>6, <2>7, <2>8 DEF DumpInv
<1>7. CASE o = "error"
  <2>1. DumpCleanup /\ UNCHANGED imports
    BY <1>1, <1>7 DEF StopRejected
  <2>2. /\ dump' \in DumpFields /\ dump'.phase = "idle" /\ dump'.current = NoSession /\ dump'.sse = NoSession
        /\ dump'.drawn = dump.drawn /\ dump'.byHold = dump.byHold
        /\ dumpOverlay' \in OverlayType /\ dumpStreams' = dumpStreams \ {dump.sse}
        /\ HeldRecordingEnds' /\ DumpRecordingIsShown'
    BY <2>1, Cleaned
  <2>3. DumpTypeOK'
    BY <1>2, <1>3, <2>1, <2>2 DEF DumpTypeOK, DumpFields
  <2>4. NothingBeforeDrawn' /\ StoppedOnce'
    <3>1. NothingBeforeDrawn'
      BY <1>2, <1>3, <2>1, <2>2 DEF DumpInv, NothingBeforeDrawn
    <3> QED BY <1>2, <1>3, <2>1, <2>2, <3>1 DEF DumpInv, StoppedOnce, Stoppable
  <2>5. StartBeforeStop' /\ ImportsOnce'
    BY <1>2, <1>3, <2>1 DEF DumpInv, StartBeforeStop, ImportsOnce
  <2>6. DeadIsSilent' /\ BridgeKeeps'
    BY <1>2, <1>3, DumpFiles, DumpAssumption DEF DumpInv, DeadIsSilent, BridgeKeeps
  <2>7. ~StartsFail => AllIsCurrent'
    <3> SUFFICES ASSUME ~StartsFail PROVE AllIsCurrent'
      OBVIOUS
    <3>1. AllIsCurrent /\ dump.current = s /\ dump.phase = "processing"
      BY <1>2 DEF DumpInv, AllIsCurrent
    <3>2. StartFile(s) \notin recorder.pending /\ imports.inFlight = {}
      <4>1. imports.inFlight \subseteq DumpSessions
        BY <1>3 DEF ImportFields
      <4>2. StartFile(s) \notin recorder.pending
        BY <1>4, <3>1 DEF AllIsCurrent
      <4> QED BY <1>5, <3>1, <4>1, <4>2 DEF AllIsCurrent
    <3> QED BY <1>2, <1>3, <1>4, <1>5, <2>1, <2>2, <3>1, <3>2, DumpFiles DEF AllIsCurrent
  <2> QED BY <2>2, <2>3, <2>4, <2>5, <2>6, <2>7 DEF DumpInv
<1> QED BY <1>6, <1>7

\* The backend asks the bridge for a capture, or for its end.
LEMMA BridgeAsks ==
    ASSUME DumpTypeOK, DumpInv, NEW b \in BridgeSessions, BridgeStart(b) \/ BridgeStop(b)
    PROVE  DumpTypeOK' /\ DumpInv'
<1>0. /\ recorder \in ClientType(DumpRequests) /\ bridge \in BridgeFields /\ b \in RecordingSessions
      /\ b \notin DumpSessions /\ dump \in DumpFields /\ ~dumpQuit
      /\ UNCHANGED <<dump, dumpOverlay, dumpStreams, recorderHelper, imports, dumpQuit>>
  BY DumpTyped, DumpAssumption DEF RecordingSessions, BridgeStart, BridgeStop, orchestrator
<1>1. HeldRecordingEnds' /\ DumpRecordingIsShown'
  BY <1>0 DEF DumpInv, HeldRecordingEnds, DumpRecordingIsShown
<1>2. CASE BridgeStart(b)
  <2>1. /\ b \notin bridge.drawn /\ bridge' \in BridgeFields
        /\ bridge'.table = bridge.table \cup {b} /\ bridge'.drawn = bridge.drawn \cup {b}
        /\ recorder' = IF CanSend(recorder) THEN Send(recorder, StartFile(b)) ELSE recorder
    BY <1>0, <1>2 DEF BridgeStart, BridgeFields
  <2>2. /\ recorder' \in ClientType(DumpRequests) /\ recorder'.process = recorder.process
        /\ \A q : q \in recorder'.pending => q \in recorder.pending \/ q = StartFile(b)
        /\ \A q : q \in recorder.pending => q \in recorder'.pending
        /\ ~recorder.process => recorder'.pending = recorder.pending
        /\ \A q : Piped(recorder', q) => Piped(recorder, q) \/ q = StartFile(b)
        /\ \A l : Told(recorder', l) <=> Told(recorder, l)
        /\ \A q : OnItsWay(recorder', q) => OnItsWay(recorder, q) \/ q = StartFile(b)
        /\ \A q : OnItsWay(recorder, q) => OnItsWay(recorder', q)
        /\ \A x, y : Ahead(recorder', x, y) =>
                Ahead(recorder, x, y) \/ (y = StartFile(b) /\ OnItsWay(recorder, x))
    <3>1. CASE CanSend(recorder)
      <4>1. recorder' = Send(recorder, StartFile(b)) /\ StartFile(b) \in DumpRequests
        BY <1>0, <2>1, <3>1, DumpFiles
      <4>2. /\ recorder' \in ClientType(DumpRequests) /\ recorder'.process = recorder.process
            /\ recorder'.pending = recorder.pending \cup {StartFile(b)}
            /\ \A q : Piped(recorder', q) <=> Piped(recorder, q) \/ q = StartFile(b)
            /\ \A l : Told(recorder', l) <=> Told(recorder, l)
            /\ \A q : OnItsWay(recorder', q) <=> OnItsWay(recorder, q) \/ q = StartFile(b)
            /\ \A x, y : Ahead(recorder', x, y) <=>
                    Ahead(recorder, x, y) \/ (y = StartFile(b) /\ OnItsWay(recorder, x))
        BY <1>0, <4>1, SendEffect
      <4> QED BY <3>1, <4>2 DEF CanSend
    <3>2. CASE ~CanSend(recorder)
      BY <1>0, <2>1, <3>2
    <3> QED BY <3>1, <3>2
  <2>3. \A q : Answered(recorder', q) <=> Answered(recorder, q)
    BY <2>2 DEF Answered
  <2>4. ~OnItsWay(recorder, StopFile(b)) /\ StopFile(b) \notin recorder.pending
    BY <1>0, <2>1 DEF DumpInv, NothingBeforeDrawn, DumpFields
  <2>5. DumpTypeOK'
    BY <1>0, <2>1, <2>2 DEF DumpTypeOK, BridgeFields
  <2>6. NothingBeforeDrawn' /\ StoppedOnce'
    <3>1. NothingBeforeDrawn'
      BY <1>0, <2>1, <2>2, DumpFiles DEF DumpInv, NothingBeforeDrawn
    <3> QED BY <1>0, <2>1, <2>2, <2>4, <3>1, DumpFiles DEF DumpInv, StoppedOnce, Stoppable
  <2>7. StartBeforeStop' /\ ImportsOnce'
    <3>1. StartBeforeStop'
      BY <1>0, <2>2, <2>3, <2>4, DumpFiles DEF DumpInv, StartBeforeStop
    <3> QED BY <1>0, <2>2, <3>1, DumpFiles DEF DumpInv, ImportsOnce
  <2>8. DeadIsSilent' /\ BridgeKeeps'
    BY <1>0, <2>1, <2>2, DumpFiles DEF DumpInv, DeadIsSilent, BridgeKeeps
  <2>9. ~StartsFail => AllIsCurrent'
    BY <1>0, <2>2, DumpFiles DEF DumpInv, AllIsCurrent
  <2> QED BY <1>1, <2>5, <2>6, <2>7, <2>8, <2>9 DEF DumpInv
<1>3. CASE BridgeStop(b)
  <2>1. /\ b \in bridge.table /\ bridge' \in BridgeFields
        /\ bridge'.table = bridge.table \ {b} /\ bridge'.drawn = bridge.drawn
        /\ recorder' = IF CanSend(recorder) THEN Send(recorder, StopFile(b)) ELSE recorder
    BY <1>0, <1>3 DEF BridgeStop, BridgeFields
  <2>2. /\ recorder' \in ClientType(DumpRequests) /\ recorder'.process = recorder.process
        /\ \A q : q \in recorder'.pending => q \in recorder.pending \/ q = StopFile(b)
        /\ \A q : q \in recorder.pending => q \in recorder'.pending
        /\ recorder.process => StopFile(b) \in recorder'.pending
        /\ ~recorder.process => recorder'.pending = recorder.pending
        /\ \A q : Piped(recorder', q) => Piped(recorder, q) \/ q = StopFile(b)
        /\ \A l : Told(recorder', l) <=> Told(recorder, l)
        /\ \A q : OnItsWay(recorder', q) => OnItsWay(recorder, q) \/ q = StopFile(b)
        /\ \A q : OnItsWay(recorder, q) => OnItsWay(recorder', q)
        /\ \A x, y : Ahead(recorder', x, y) => Ahead(recorder, x, y) \/ y = StopFile(b)
    <3>1. CASE CanSend(recorder)
      <4>1. recorder' = Send(recorder, StopFile(b)) /\ StopFile(b) \in DumpRequests
        BY <1>0, <2>1, <3>1, DumpFiles
      <4>2. /\ recorder' \in ClientType(DumpRequests) /\ recorder'.process = recorder.process
            /\ recorder'.pending = recorder.pending \cup {StopFile(b)}
            /\ \A q : Piped(recorder', q) <=> Piped(recorder, q) \/ q = StopFile(b)
            /\ \A l : Told(recorder', l) <=> Told(recorder, l)
            /\ \A q : OnItsWay(recorder', q) <=> OnItsWay(recorder, q) \/ q = StopFile(b)
            /\ \A x, y : Ahead(recorder', x, y) <=>
                    Ahead(recorder, x, y) \/ (y = StopFile(b) /\ OnItsWay(recorder, x))
        BY <1>0, <4>1, SendEffect
      <4> QED BY <3>1, <4>2 DEF CanSend
    <3>2. CASE ~CanSend(recorder)
      BY <1>0, <2>1, <3>2 DEF CanSend
    <3> QED BY <3>1, <3>2
  <2>3. \A q : Answered(recorder', q) <=> Answered(recorder, q)
    BY <2>2 DEF Answered
  <2>4. DumpTypeOK'
    BY <1>0, <2>1, <2>2 DEF DumpTypeOK, BridgeFields
  <2>5. NothingBeforeDrawn' /\ StoppedOnce'
    <3>1. NothingBeforeDrawn'
      BY <1>0, <2>1, <2>2, DumpFiles DEF DumpInv, NothingBeforeDrawn
    <3>2. ~Stoppable(b)'
      BY <1>0, <2>1 DEF Stoppable, DumpFields, NothingBeforeDrawn, DumpInv
    <3> QED BY <1>0, <2>1, <2>2, <3>1, <3>2, DumpFiles DEF DumpInv, StoppedOnce, Stoppable
  <2>6. StartBeforeStop' /\ ImportsOnce'
    BY <1>0, <2>2, <2>3, DumpFiles DEF DumpInv, StartBeforeStop, ImportsOnce
  <2>7. DeadIsSilent' /\ BridgeKeeps'
    BY <1>0, <2>1, <2>2, DumpFiles DEF DumpInv, DeadIsSilent, BridgeKeeps
  <2>8. ~StartsFail => AllIsCurrent'
    BY <1>0, <2>2, DumpFiles DEF DumpInv, AllIsCurrent
  <2> QED BY <1>1, <2>4, <2>5, <2>6, <2>7, <2>8 DEF DumpInv
<1> QED BY <1>2, <1>3

\* The helper's answer to the backend.
LEMMA BridgeAnswered ==
    ASSUME DumpTypeOK, DumpInv, NEW b \in BridgeSessions, BridgeStarted(b) \/ BridgeStopped(b)
    PROVE  DumpTypeOK' /\ DumpInv'
<1>1. PICK o \in {"ok", "error"}, q \in {StartFile(b), StopFile(b)} : DumpReads(q, o)
  BY DEF BridgeStarted, BridgeStopped
<1>2. /\ recorder' \in ClientType(DumpRequests) /\ recorder'.process = recorder.process
      /\ recorder'.pending = recorder.pending \ {q} /\ Answered(recorder, q)
      /\ \A r : Piped(recorder', r) <=> Piped(recorder, r)
      /\ \A r, p : Told(recorder', Reply(r, p)) => Told(recorder, Reply(r, p))
      /\ \A r : Answered(recorder', r) => Answered(recorder, r)
      /\ \A r : OnItsWay(recorder', r) => OnItsWay(recorder, r)
      /\ \A r : r # q => (OnItsWay(recorder, r) => OnItsWay(recorder', r))
      /\ \A x, y : Ahead(recorder', x, y) => Ahead(recorder, x, y)
      /\ \A y : OnItsWay(recorder', y) => Ahead(recorder, q, y)
  BY <1>1, RecorderReads
<1>3. /\ UNCHANGED <<dump, dumpOverlay, dumpStreams, recorderHelper, imports, dumpQuit>>
      /\ bridge' \in BridgeFields /\ bridge'.table = bridge.table /\ bridge'.drawn = bridge.drawn
      /\ b \in RecordingSessions /\ b \notin DumpSessions
  <2>1. bridge \in BridgeFields
    BY DumpTyped
  <2> QED BY <2>1, DumpAssumption DEF BridgeStarted, BridgeStopped, orchestrator, BridgeFields, RecordingSessions
<1>4. DumpTypeOK'
  BY <1>2, <1>3 DEF DumpTypeOK, BridgeFields
<1>5. NothingBeforeDrawn' /\ StoppedOnce'
  <2>1. NothingBeforeDrawn'
    BY <1>2, <1>3 DEF DumpInv, NothingBeforeDrawn
  <2> QED BY <1>2, <1>3, <2>1 DEF DumpInv, StoppedOnce, Stoppable
<1>6. StartBeforeStop' /\ ImportsOnce'
  BY <1>2, <1>3 DEF DumpInv, StartBeforeStop, ImportsOnce
<1>7. DeadIsSilent'
  BY <1>2, <1>3 DEF DumpInv, DeadIsSilent
<1>8. BridgeKeeps'
  <2>1. CASE q = StartFile(b)
    BY <1>2, <1>3, <2>1, DumpFiles DEF DumpInv, BridgeKeeps
  <2>2. CASE q = StopFile(b)
    <3>1. b \notin recorderHelper.captures
      BY <1>2, <1>3, <2>2 DEF DumpInv, StartBeforeStop
    <3>2. ~Piped(recorder, StartFile(b))
      BY <1>2, <1>3, <2>2 DEF DumpInv, StartBeforeStop, OnItsWay
    <3> QED BY <1>2, <1>3, <2>2, <3>1, <3>2, DumpFiles DEF DumpInv, BridgeKeeps
  <2> QED BY <1>1, <2>1, <2>2
<1>9. HeldRecordingEnds' /\ DumpRecordingIsShown'
  BY <1>3 DEF DumpInv, HeldRecordingEnds, DumpRecordingIsShown
<1>10. ~StartsFail => AllIsCurrent'
  <2>1. \A s \in DumpSessions : q # StartFile(s) /\ q # StopFile(s)
    BY <1>1, <1>3, DumpFiles
  <2> QED BY <1>2, <1>3, <2>1 DEF DumpInv, AllIsCurrent
<1> QED BY <1>4, <1>5, <1>6, <1>7, <1>8, <1>9, <1>10 DEF DumpInv

\* The helper takes a request from the pipe.
LEMMA RecorderStep ==
    ASSUME DumpTypeOK, DumpInv, NEW s \in RecordingSessions, RecorderStarts(s) \/ RecorderStops(s)
    PROVE  DumpTypeOK' /\ DumpInv'
<1>1. PICK o \in {"ok", "error"}, q \in {StartFile(s), StopFile(s)} :
        /\ recorder.pipe # <<>> /\ Head(recorder.pipe) = q /\ recorder' = Handled(recorder, o)
        /\ recorderHelper.alive /\ (q = StartFile(s) /\ o = "error" => StartsFail)
        /\ recorderHelper' = [recorderHelper EXCEPT !.captures =
              IF q = StopFile(s) THEN @ \ {s} ELSE IF o = "ok" THEN @ \cup {s} ELSE @]
  <2>1. recorderHelper \in HelperFields
    BY DumpTyped
  <2>2. recorderHelper = [recorderHelper EXCEPT !.captures = recorderHelper.captures]
    BY <2>1 DEF HelperFields
  <2>3. CASE RecorderStarts(s)
    BY <2>2, <2>3, DumpFiles DEF RecorderStarts
  <2>4. CASE RecorderStops(s)
    BY <2>4, DumpFiles DEF RecorderStops
  <2> QED BY <2>3, <2>4
<1>2. /\ UNCHANGED <<dump, dumpOverlay, dumpStreams, bridge, imports, dumpQuit>>
      /\ recorder \in ClientType(DumpRequests) /\ recorderHelper \in HelperFields
  BY DumpTyped DEF RecorderStarts, RecorderStops, orchestrator
<1>3. /\ recorderHelper' \in HelperFields /\ recorderHelper'.alive
      /\ recorderHelper'.captures \subseteq recorderHelper.captures \cup {s}
      /\ q = StartFile(s) => recorderHelper.captures \subseteq recorderHelper'.captures
      /\ q = StopFile(s) => recorderHelper'.captures = recorderHelper.captures \ {s}
  BY <1>1, <1>2, DumpFiles DEF HelperFields
<1>4. /\ recorder' \in ClientType(DumpRequests)
      /\ recorder'.process = recorder.process /\ recorder'.pending = recorder.pending
      /\ Piped(recorder, q)
      /\ \A r : Piped(recorder', r) => Piped(recorder, r)
      /\ \A l : Told(recorder', l) <=> Told(recorder, l) \/ l = Reply(q, o)
      /\ \A r : OnItsWay(recorder', r) <=> OnItsWay(recorder, r)
      /\ \A a, b : Ahead(recorder', a, b) => Ahead(recorder, a, b)
      /\ \A b : Piped(recorder', b) => Ahead(recorder, q, b)
  BY <1>1, <1>2, HandledEffect
<1>5. /\ \A r, p : Reply(r, p) = Reply(q, o) => r = q /\ p = o
      /\ \A r : Answered(recorder', r) <=> Answered(recorder, r) \/ r = q
  <2>1. \A r, p : Reply(r, p) = Reply(q, o) => r = q /\ p = o
    BY DEF Reply
  <2> QED BY <1>4, <2>1 DEF Answered
<1>6. OnItsWay(recorder, q) /\ s \in dump.drawn \cup bridge.drawn
  <2>1. OnItsWay(recorder, q)
    BY <1>4 DEF OnItsWay
  <2> QED BY <1>1, <2>1 DEF DumpInv, NothingBeforeDrawn
<1>7. DumpTypeOK'
  BY <1>2, <1>3, <1>4 DEF DumpTypeOK, HelperFields
<1>8. NothingBeforeDrawn' /\ StoppedOnce'
  BY <1>2, <1>3, <1>4, <1>6 DEF DumpInv, NothingBeforeDrawn, StoppedOnce, Stoppable
<1>9. StartBeforeStop'
  <2> SUFFICES ASSUME NEW r \in RecordingSessions
               PROVE  /\ ~Ahead(recorder', StopFile(r), StartFile(r))
                      /\ Answered(recorder', StopFile(r)) => r \notin recorderHelper'.captures
    BY DEF StartBeforeStop
  <2>1. ~Ahead(recorder', StopFile(r), StartFile(r))
    BY <1>4 DEF DumpInv, StartBeforeStop
  <2>2. ASSUME Answered(recorder', StopFile(r)) PROVE r \notin recorderHelper'.captures
    <3>1. CASE q = StopFile(s)
      BY <1>3, <1>5, <2>2, <3>1, DumpFiles DEF DumpInv, StartBeforeStop
    <3>2. CASE q = StartFile(s)
      <4>1. Answered(recorder, StopFile(r)) /\ r \notin recorderHelper.captures
        BY <1>5, <2>2, <3>2, DumpFiles DEF DumpInv, StartBeforeStop
      <4>2. r # s
        BY <1>4, <3>2, <4>1 DEF DumpInv, StartBeforeStop, Ahead
      <4> QED BY <1>3, <4>1, <4>2
    <3> QED BY <1>1, <3>1, <3>2
  <2> QED BY <2>1, <2>2
<1>10. ImportsOnce'
  <2>1. ASSUME NEW r \in DumpSessions, imports.sent[r] = 1 PROVE r \notin recorderHelper'.captures
    <3>1. r \notin recorderHelper.captures /\ ~Piped(recorder, StartFile(r))
      BY <2>1 DEF DumpInv, ImportsOnce
    <3>2. CASE q = StopFile(s)
      BY <1>3, <3>1, <3>2
    <3>3. CASE q = StartFile(s)
      BY <1>3, <1>4, <3>1, <3>3
    <3> QED BY <1>1, <3>2, <3>3
  <2> QED BY <1>2, <1>4, <2>1 DEF DumpInv, ImportsOnce
<1>11. DeadIsSilent'
  BY <1>1, <1>2, <1>3, <1>4 DEF DumpInv, DeadIsSilent
<1>12. BridgeKeeps'
  <2> SUFFICES ASSUME NEW b \in BridgeSessions, b \in recorderHelper'.captures \/ Piped(recorder', StartFile(b))
               PROVE  b \in bridge.table \/ StopFile(b) \in recorder.pending
    BY <1>2, <1>4 DEF BridgeKeeps
  <2>1. b \in recorderHelper.captures \/ Piped(recorder, StartFile(b))
    <3>1. CASE q = StopFile(s)
      BY <1>3, <1>4, <3>1
    <3>2. CASE q = StartFile(s)
      BY <1>3, <1>4, <3>2
    <3> QED BY <1>1, <3>1, <3>2
  <2> QED BY <1>1, <2>1 DEF DumpInv, BridgeKeeps
<1>13. HeldRecordingEnds' /\ DumpRecordingIsShown'
  BY <1>2 DEF DumpInv, HeldRecordingEnds, DumpRecordingIsShown
<1>14. ~StartsFail => AllIsCurrent'
  <2> SUFFICES ASSUME ~StartsFail PROVE AllIsCurrent'
    OBVIOUS
  <2>1. AllIsCurrent
    BY DEF DumpInv
  <2>2. \A r \in DumpSessions : ~Told(recorder', Reply(StartFile(r), "error"))
    BY <1>1, <1>4, <1>5, <2>1, DumpFiles DEF AllIsCurrent
  <2>3. \A r \in DumpSessions :
          r \in recorderHelper'.captures \/ Piped(recorder', StartFile(r)) =>
             r \in recorderHelper.captures \/ Piped(recorder, StartFile(r))
    <3>1. CASE q = StopFile(s)
      BY <1>3, <1>4, <3>1
    <3>2. CASE q = StartFile(s)
      BY <1>3, <1>4, <3>2
    <3> QED BY <1>1, <3>1, <3>2
  <2> QED BY <1>1, <1>2, <1>4, <2>1, <2>2, <2>3 DEF AllIsCurrent
<1> QED BY <1>7, <1>8, <1>9, <1>10, <1>11, <1>12, <1>13, <1>14 DEF DumpInv

\* The import of a recording is answered, and whatever is current is forgotten: it is that recording.
LEMMA ImportStep ==
    ASSUME DumpTypeOK, DumpInv, NEW s \in DumpSessions, ImportAnswered(s)
    PROVE  DumpTypeOK' /\ DumpInv'
<1>1. /\ s \in imports.inFlight /\ DumpCleanup /\ UNCHANGED <<bridge, recorder, recorderHelper, dumpQuit>>
      /\ imports \in ImportFields /\ dumpStreams \subseteq DumpSessions /\ NoSession \notin DumpSessions
      /\ s \in RecordingSessions
  BY DumpTyped, DumpAssumption DEF ImportAnswered, RecordingSessions
<1>2. /\ dump' \in DumpFields /\ dump'.phase = "idle" /\ dump'.current = NoSession /\ dump'.sse = NoSession
      /\ dump'.drawn = dump.drawn /\ dump'.byHold = dump.byHold
      /\ dumpOverlay' \in OverlayType /\ dumpStreams' = dumpStreams \ {dump.sse}
      /\ HeldRecordingEnds' /\ DumpRecordingIsShown'
  BY <1>1, Cleaned
<1>3. /\ imports' \in ImportFields /\ imports'.inFlight = imports.inFlight \ {s} /\ imports'.sent = imports.sent
  BY <1>1 DEF ImportAnswered, ImportFields
<1>4. DumpTypeOK'
  BY <1>1, <1>2, <1>3 DEF DumpTypeOK, DumpFields, ImportFields
<1>5. NothingBeforeDrawn' /\ StoppedOnce'
  BY <1>1, <1>2, <1>3 DEF DumpInv, NothingBeforeDrawn, StoppedOnce, Stoppable
<1>6. StartBeforeStop' /\ ImportsOnce'
  BY <1>1, <1>3 DEF DumpInv, StartBeforeStop, ImportsOnce
<1>7. DeadIsSilent' /\ BridgeKeeps'
  BY <1>1 DEF DumpInv, DeadIsSilent, BridgeKeeps
<1>8. ~StartsFail => AllIsCurrent'
  <2> SUFFICES ASSUME ~StartsFail PROVE AllIsCurrent'
    OBVIOUS
  <2>1. AllIsCurrent /\ dump.current = s /\ imports.sent[s] = 1 /\ StartFile(s) \notin recorder.pending
    BY <1>1 DEF DumpInv, AllIsCurrent
  <2>2. StopFile(s) \notin recorder.pending /\ s \notin recorderHelper.captures /\ ~Piped(recorder, StartFile(s))
    BY <1>1, <2>1 DEF DumpInv, ImportsOnce
  <2>3. imports'.inFlight = {}
    BY <1>1, <1>3, <2>1 DEF AllIsCurrent, ImportFields
  <2> QED BY <1>1, <1>2, <2>1, <2>2, <2>3 DEF AllIsCurrent
<1> QED BY <1>2, <1>4, <1>5, <1>6, <1>7, <1>8 DEF DumpInv

\* The helper dies, and its end is seen: what is rejected is about the current session.
LEMMA RecorderEnds ==
    ASSUME DumpTypeOK, DumpInv, RecorderDies \/ RecorderExit
    PROVE  DumpTypeOK' /\ DumpInv'
<1>0. /\ recorder \in ClientType(DumpRequests) /\ recorderHelper \in HelperFields /\ imports \in ImportFields
      /\ dumpStreams \subseteq DumpSessions /\ NoSession \notin DumpSessions
  BY DumpTyped, DumpAssumption DEF RecordingSessions
<1>1. CASE RecorderDies
  <2>1. /\ recorderHelper' \in HelperFields /\ ~recorderHelper'.alive /\ recorderHelper'.captures = {}
        /\ UNCHANGED <<dump, dumpOverlay, dumpStreams, bridge, recorder, imports, dumpQuit>>
    BY <1>0, <1>1 DEF RecorderDies, HelperFields, orchestrator
  <2>2. DumpTypeOK'
    BY <2>1 DEF DumpTypeOK, HelperFields
  <2>3. NothingBeforeDrawn' /\ StoppedOnce' /\ StartBeforeStop' /\ ImportsOnce'
    BY <2>1 DEF DumpInv, NothingBeforeDrawn, StoppedOnce, Stoppable, StartBeforeStop, ImportsOnce
  <2>4. DeadIsSilent' /\ BridgeKeeps' /\ HeldRecordingEnds' /\ DumpRecordingIsShown'
    BY <2>1 DEF DumpInv, DeadIsSilent, BridgeKeeps, HeldRecordingEnds, DumpRecordingIsShown
  <2>5. ~StartsFail => AllIsCurrent'
    BY <2>1 DEF DumpInv, AllIsCurrent
  <2> QED BY <2>2, <2>3, <2>4, <2>5 DEF DumpInv
<1>2. CASE RecorderExit
  <2>1. /\ recorder' = Exited(recorder) /\ ~recorderHelper.alive
        /\ UNCHANGED <<bridge, recorderHelper, imports, dumpQuit>>
    BY <1>2 DEF RecorderExit
  <2>2. /\ recorder' \in ClientType(DumpRequests) /\ ~recorder'.process /\ recorder'.pending = {}
        /\ \A q : ~Piped(recorder', q)
        /\ \A l : Told(recorder', l) <=> Told(recorder, l)
        /\ \A q : OnItsWay(recorder', q) => OnItsWay(recorder, q)
        /\ \A a, b : Ahead(recorder', a, b) => Ahead(recorder, a, b)
    BY <1>0, <2>1, ExitedEffect
  <2>3. \A q : Answered(recorder', q) <=> Answered(recorder, q)
    BY <2>2 DEF Answered
  <2>4. recorderHelper.captures = {}
    BY <2>1 DEF DumpInv, DeadIsSilent
  <2>5. /\ dump' \in DumpFields /\ dump'.drawn = dump.drawn /\ dump'.byHold = dump.byHold
        /\ dumpOverlay' \in OverlayType /\ dumpStreams' \subseteq DumpSessions
        /\ HeldRecordingEnds' /\ DumpRecordingIsShown'
        /\ \/ /\ UNCHANGED <<dump, dumpOverlay, dumpStreams>>
           \/ /\ dump'.phase = "idle" /\ dump'.current = NoSession /\ dump'.sse = NoSession
              /\ dumpStreams' = dumpStreams \ {dump.sse}
              /\ \E r \in DumpSessions : StartFile(r) \in recorder.pending \/ StopFile(r) \in recorder.pending
    <3>1. CASE \E r \in DumpSessions : {StartFile(r), StopFile(r)} \cap recorder.pending # {}
      <4>1. DumpCleanup
        BY <1>2, <3>1 DEF RecorderExit
      <4>2. \E r \in DumpSessions : StartFile(r) \in recorder.pending \/ StopFile(r) \in recorder.pending
        BY <3>1
      <4> QED BY <1>0, <4>1, <4>2, Cleaned
    <3>2. CASE ~ \E r \in DumpSessions : {StartFile(r), StopFile(r)} \cap recorder.pending # {}
      <4>1. UNCHANGED <<dump, dumpOverlay, dumpStreams, dumpQuit>>
        BY <1>2, <3>2 DEF RecorderExit, orchestrator
      <4> QED BY <1>0, <4>1, DumpTyped DEF DumpInv, HeldRecordingEnds, DumpRecordingIsShown
    <3> QED BY <3>1, <3>2
  <2>6. DumpTypeOK'
    BY <2>1, <2>2, <2>5 DEF DumpTypeOK, DumpFields
  <2>7. NothingBeforeDrawn' /\ StoppedOnce'
    BY <2>1, <2>2, <2>5 DEF DumpInv, NothingBeforeDrawn, StoppedOnce, Stoppable
  <2>8. StartBeforeStop' /\ ImportsOnce'
    BY <2>1, <2>2, <2>3 DEF DumpInv, StartBeforeStop, ImportsOnce
  <2>9. DeadIsSilent' /\ BridgeKeeps'
    BY <2>1, <2>2, <2>4 DEF DumpInv, DeadIsSilent, BridgeKeeps
  <2>10. ~StartsFail => AllIsCurrent'
    <3> SUFFICES ASSUME ~StartsFail PROVE AllIsCurrent'
      OBVIOUS
    <3>0. AllIsCurrent
      BY DEF DumpInv
    <3>1. CASE UNCHANGED <<dump, dumpOverlay, dumpStreams>>
      BY <2>1, <2>2, <2>4, <3>0, <3>1 DEF AllIsCurrent
    <3>2. CASE /\ dump'.phase = "idle" /\ dump'.current = NoSession /\ dump'.sse = NoSession
               /\ dumpStreams' = dumpStreams \ {dump.sse}
               /\ \E r \in DumpSessions : StartFile(r) \in recorder.pending \/ StopFile(r) \in recorder.pending
      <4>1. PICK r \in DumpSessions : StartFile(r) \in recorder.pending \/ StopFile(r) \in recorder.pending
        BY <3>2
      <4>2. dump.current = r
        BY <3>0, <4>1 DEF AllIsCurrent
      <4>3. r \notin imports.inFlight
        BY <4>1, <3>0 DEF AllIsCurrent, DumpInv, ImportsOnce
      <4>4. imports.inFlight = {}
        BY <1>0, <3>0, <4>2, <4>3 DEF AllIsCurrent, ImportFields
      <4> QED BY <2>1, <2>2, <2>4, <3>0, <3>2, <4>4 DEF AllIsCurrent
    <3> QED BY <2>5, <3>1, <3>2
  <2> QED BY <2>5, <2>6, <2>7, <2>8, <2>9, <2>10 DEF DumpInv
<1> QED BY <1>1, <1>2

\* An answer nobody waits for, the end of a stream, the timer of the overlay, the end of the shell.
LEMMA OtherDumpStep ==
    ASSUME DumpTypeOK, DumpInv,
           DumpStaleAnswer \/ DumpHideTimer \/ DumpQuit \/ (\E s \in DumpSessions : DumpStreamEnds(s))
    PROVE  DumpTypeOK' /\ DumpInv'
<1>0. /\ recorder \in ClientType(DumpRequests) /\ recorderHelper \in HelperFields /\ dump \in DumpFields
      /\ bridge \in BridgeFields /\ dumpStreams \subseteq DumpSessions /\ NoSession \notin DumpSessions
      /\ dumpOverlay \in OverlayType
  BY DumpTyped, DumpAssumption DEF RecordingSessions
<1>1. CASE DumpStaleAnswer
  <2>1. /\ recorder.lines # <<>> /\ NextLine(recorder).kind = "reply" /\ ~IsAnswer(recorder) /\ ~dumpQuit
        /\ recorder' = LineRead(recorder)
        /\ UNCHANGED <<dump, dumpOverlay, dumpStreams, bridge, recorderHelper, imports, dumpQuit>>
    BY <1>1 DEF DumpStaleAnswer, orchestrator
  <2>2. PICK q \in DumpRequests, o \in {"ok", "error"} : NextLine(recorder) = Reply(q, o)
    BY <1>0, <2>1, LineSays
  <2>3. DumpReads(q, o)
    BY <2>1, <2>2 DEF DumpReads
  <2>4. /\ recorder' \in ClientType(DumpRequests) /\ recorder'.process = recorder.process
        /\ recorder'.pending = recorder.pending \ {q} /\ q \notin recorder.pending
        /\ \A r : Piped(recorder', r) <=> Piped(recorder, r)
        /\ \A r, p : Told(recorder', Reply(r, p)) => Told(recorder, Reply(r, p))
        /\ \A r : Answered(recorder', r) => Answered(recorder, r)
        /\ \A r : OnItsWay(recorder', r) => OnItsWay(recorder, r)
        /\ \A r : r # q => (OnItsWay(recorder, r) => OnItsWay(recorder', r))
        /\ \A a, b : Ahead(recorder', a, b) => Ahead(recorder, a, b)
    BY <2>1, <2>3, RecorderReads
  <2>5. recorder'.pending = recorder.pending
    BY <2>4
  <2>6. DumpTypeOK'
    BY <2>1, <2>4 DEF DumpTypeOK
  <2>7. NothingBeforeDrawn' /\ StoppedOnce' /\ StartBeforeStop' /\ ImportsOnce'
    <3>1. NothingBeforeDrawn' /\ StoppedOnce'
      BY <2>1, <2>4, <2>5 DEF DumpInv, NothingBeforeDrawn, StoppedOnce, Stoppable
    <3> QED BY <2>1, <2>4, <2>5, <3>1 DEF DumpInv, StartBeforeStop, ImportsOnce
  <2>8. DeadIsSilent' /\ BridgeKeeps' /\ HeldRecordingEnds' /\ DumpRecordingIsShown'
    BY <2>1, <2>4, <2>5 DEF DumpInv, DeadIsSilent, BridgeKeeps, HeldRecordingEnds, DumpRecordingIsShown
  <2>9. ~StartsFail => AllIsCurrent'
    BY <2>1, <2>4, <2>5 DEF DumpInv, AllIsCurrent
  <2> QED BY <2>6, <2>7, <2>8, <2>9 DEF DumpInv
<1>2. CASE DumpQuit
  <2>1. /\ dumpQuit' /\ dumpOverlay' = NoOverlay /\ recorder' = Stopped(recorder)
        /\ recorderHelper' \in HelperFields /\ ~recorderHelper'.alive /\ recorderHelper'.captures = {}
        /\ bridge' \in BridgeFields /\ bridge'.table = {} /\ bridge'.drawn = bridge.drawn
        /\ UNCHANGED <<dump, dumpStreams, imports>>
    BY <1>0, <1>2 DEF DumpQuit, HelperFields, BridgeFields
  <2>2. /\ recorder' \in ClientType(DumpRequests) /\ ~recorder'.process /\ recorder'.pending = recorder.pending
        /\ \A q : Piped(recorder', q) <=> Piped(recorder, q)
        /\ \A l : Told(recorder', l) <=> Told(recorder, l)
        /\ \A q : OnItsWay(recorder', q) <=> OnItsWay(recorder, q)
        /\ \A a, b : Ahead(recorder', a, b) <=> Ahead(recorder, a, b)
    BY <1>0, <2>1, StoppedEffect
  <2>3. DumpTypeOK'
    BY <1>0, <1>2, <2>1, <2>2, OverlayChanged DEF DumpTypeOK, HelperFields, BridgeFields, DumpQuit
  <2>4. NothingBeforeDrawn' /\ StoppedOnce' /\ StartBeforeStop' /\ ImportsOnce'
    BY <2>1, <2>2 DEF DumpInv, NothingBeforeDrawn, StoppedOnce, Stoppable, StartBeforeStop, ImportsOnce
  <2>5. DeadIsSilent' /\ BridgeKeeps' /\ HeldRecordingEnds' /\ DumpRecordingIsShown'
    BY <2>1, <2>2 DEF DumpInv, DeadIsSilent, BridgeKeeps, HeldRecordingEnds, DumpRecordingIsShown
  <2>6. ~StartsFail => AllIsCurrent'
    BY <2>1, <2>2 DEF DumpInv, AllIsCurrent
  <2> QED BY <2>3, <2>4, <2>5, <2>6 DEF DumpInv
<1>3. CASE DumpHideTimer \/ \E s \in DumpSessions : DumpStreamEnds(s)
  <2>1. /\ dump' \in DumpFields /\ dump'.phase = dump.phase /\ dump'.current = dump.current
        /\ dump'.holding = dump.holding /\ dump'.drawn = dump.drawn /\ dump'.byHold = dump.byHold
        /\ dumpOverlay' \in OverlayType /\ dumpStreams' \subseteq dumpStreams
        /\ dumpOverlay' = dumpOverlay \/ dumpOverlay.hideTimer
        /\ UNCHANGED <<bridge, recorder, recorderHelper, imports, dumpQuit>> /\ ~dumpQuit
        /\ \/ UNCHANGED <<dump, dumpStreams>>
           \/ dump'.sse = NoSession /\ \E s \in dumpStreams : dumpStreams' = dumpStreams \ {s}
    <3>1. CASE DumpHideTimer
      BY <1>0, <3>1, OverlayChanged DEF DumpHideTimer
    <3>2. ASSUME NEW s \in DumpSessions, DumpStreamEnds(s)
          PROVE  /\ dump' = [dump EXCEPT !.sse = NoSession] /\ UNCHANGED dumpOverlay
                 /\ s \in dumpStreams /\ dumpStreams' = dumpStreams \ {s} /\ ~dumpQuit
                 /\ UNCHANGED <<bridge, recorder, recorderHelper, imports, dumpQuit>>
      BY <3>2 DEF DumpStreamEnds
    <3>3. CASE \E s \in DumpSessions : DumpStreamEnds(s)
      <4>1. PICK s \in DumpSessions : DumpStreamEnds(s)
        BY <3>3
      <4>2. /\ dump' \in DumpFields /\ dump'.phase = dump.phase /\ dump'.current = dump.current
            /\ dump'.holding = dump.holding /\ dump'.drawn = dump.drawn /\ dump'.byHold = dump.byHold
            /\ dump'.sse = NoSession
        <5>1. dump' = [dump EXCEPT !.sse = NoSession]
          BY <3>2, <4>1
        <5>2. NoSession \in DumpSessions \cup {NoSession} /\ TRUE \in BOOLEAN
          OBVIOUS
        <5>3. dump' \in DumpFields
          BY <1>0, <5>1, <5>2, DumpFieldChanged
        <5> QED BY <1>0, <5>1, <5>3 DEF DumpFields
      <4> QED BY <1>0, <3>2, <4>1, <4>2
    <3> QED BY <1>3, <3>1, <3>3
  <2>2. DumpTypeOK'
    BY <1>0, <2>1 DEF DumpTypeOK, DumpFields
  <2>3. NothingBeforeDrawn' /\ StoppedOnce' /\ StartBeforeStop' /\ ImportsOnce'
    BY <2>1 DEF DumpInv, NothingBeforeDrawn, StoppedOnce, Stoppable, StartBeforeStop, ImportsOnce
  <2>4. DeadIsSilent' /\ BridgeKeeps' /\ HeldRecordingEnds' /\ DumpRecordingIsShown'
    BY <2>1 DEF DumpInv, DeadIsSilent, BridgeKeeps, HeldRecordingEnds, DumpRecordingIsShown
  <2>5. ~StartsFail => AllIsCurrent'
    BY <1>0, <2>1 DEF DumpInv, AllIsCurrent
  <2> QED BY <2>2, <2>3, <2>4, <2>5 DEF DumpInv
<1> QED BY <1>1, <1>2, <1>3

LEMMA DumpStutter ==
    ASSUME DumpTypeOK, DumpInv, UNCHANGED dumpVars
    PROVE  DumpTypeOK' /\ DumpInv'
<1>1. UNCHANGED <<dump, dumpOverlay, dumpStreams, bridge, recorder, recorderHelper, imports, dumpQuit>>
  BY DEF dumpVars, orchestrator
<1>2. DumpTypeOK'
  BY <1>1 DEF DumpTypeOK
<1>3. NothingBeforeDrawn' /\ StoppedOnce' /\ StartBeforeStop' /\ ImportsOnce'
  BY <1>1 DEF DumpInv, NothingBeforeDrawn, StoppedOnce, Stoppable, StartBeforeStop, ImportsOnce
<1>4. DeadIsSilent' /\ BridgeKeeps' /\ HeldRecordingEnds' /\ DumpRecordingIsShown'
  BY <1>1 DEF DumpInv, DeadIsSilent, BridgeKeeps, HeldRecordingEnds, DumpRecordingIsShown
<1>5. ~StartsFail => AllIsCurrent'
  BY <1>1 DEF DumpInv, AllIsCurrent
<1> QED BY <1>2, <1>3, <1>4, <1>5 DEF DumpInv

LEMMA ClientStarts ==
    ASSUME NEW R
    PROVE  /\ StartedClient \in ClientType(R) /\ StartedClient.process /\ StartedClient.pending = {}
           /\ \A q : ~OnItsWay(StartedClient, q) /\ ~Piped(StartedClient, q) /\ ~Answered(StartedClient, q)
           /\ \A l : ~Told(StartedClient, l)
           /\ \A a, b : ~Ahead(StartedClient, a, b)
<1>1. /\ StartedClient.process = TRUE /\ StartedClient.pending = {}
      /\ StartedClient.pipe = <<>> /\ StartedClient.lines = <<>>
  BY DEF StartedClient
<1>2. StartedClient \in ClientType(R)
  <2>1. <<>> \in Seq(R) /\ <<>> \in Seq(LinesOf(R))
    OBVIOUS
  <2> QED BY <2>1 DEF StartedClient, ClientType, LinesOf
<1>3. \A i : i \notin 1..Len(StartedClient.pipe) /\ i \notin 1..Len(StartedClient.lines)
  BY <1>1
<1>4. \A q : ~Piped(StartedClient, q)
  BY <1>3 DEF Piped
<1>5. \A l : ~Told(StartedClient, l)
  BY <1>3 DEF Told
<1>6. \A a, b : ~Ahead(StartedClient, a, b)
  BY <1>3, <1>4, <1>5 DEF Ahead, Answered
<1> QED BY <1>1, <1>2, <1>4, <1>5, <1>6 DEF OnItsWay, Answered

LEMMA DumpBeginsWell == DumpInit => DumpTypeOK /\ DumpInv
<1> SUFFICES ASSUME DumpInit PROVE DumpTypeOK /\ DumpInv
  OBVIOUS
<1>1. /\ recorder \in ClientType(DumpRequests) /\ recorder.process /\ recorder.pending = {}
      /\ \A q : ~OnItsWay(recorder, q) /\ ~Piped(recorder, q) /\ ~Answered(recorder, q)
      /\ \A l : ~Told(recorder, l) /\ \A a, b : ~Ahead(recorder, a, b)
  BY ClientStarts DEF DumpInit
<1>2. DumpTypeOK
  BY <1>1 DEF DumpInit, DumpTypeOK, OverlayType, NoOverlay
<1>3. NothingBeforeDrawn /\ StoppedOnce /\ StartBeforeStop /\ ImportsOnce
  BY <1>1 DEF DumpInit, NothingBeforeDrawn, StoppedOnce, StartBeforeStop, ImportsOnce
<1>4. DeadIsSilent /\ BridgeKeeps /\ HeldRecordingEnds /\ DumpRecordingIsShown
  BY <1>1 DEF DumpInit, DeadIsSilent, BridgeKeeps, HeldRecordingEnds, DumpRecordingIsShown
<1>5. AllIsCurrent
  BY <1>1 DEF DumpInit, AllIsCurrent
<1> QED BY <1>2, <1>3, <1>4, <1>5 DEF DumpInv

LEMMA DumpStep == DumpTypeOK /\ DumpInv /\ [DesktopNext]_desktopVars => DumpTypeOK' /\ DumpInv'
<1> SUFFICES ASSUME DumpTypeOK, DumpInv, [DesktopNext]_desktopVars PROVE DumpTypeOK' /\ DumpInv'
  OBVIOUS
<1>1. CASE DumpNext
  BY <1>1, KeyStep, StartAnswered, StopAnswered, BridgeAsks, BridgeAnswered, RecorderStep, ImportStep,
     RecorderEnds, OtherDumpStep
  DEF DumpNext, DumpAnswers, DumpImports, DumpHelperActs
<1>2. CASE UNCHANGED dumpVars
  BY <1>2, DumpStutter
<1> QED BY <1>1, <1>2 DEF DesktopNext, Dump, Voice, Keys, desktopVars

\* A recording is imported at most once and only when the helper has closed its file, whatever
\* the keys, the backend, a refusing or a dying helper do, for any number of recordings.
THEOREM RecordingImportedOnce == DesktopSpec => []ImportedWhenClosed
<1>1. DesktopInit => DumpTypeOK /\ DumpInv
  BY DumpBeginsWell DEF DesktopInit
<1>2. DumpTypeOK /\ DumpInv => ImportedWhenClosed
  BY DEF DumpInv, ImportsOnce, ImportedWhenClosed
<1> QED BY <1>1, <1>2, DumpStep, PTL DEF DesktopSpec

\* Where the helper refuses no start: a recording that began can end, no stream and no
\* microphone stays open, whatever answers late and whoever dies.
THEOREM EveryRecordingCanEnd == ASSUME ~StartsFail PROVE DesktopSpec => []RecordingsCanEnd
<1>1. DesktopInit => DumpTypeOK /\ DumpInv
  BY DumpBeginsWell DEF DesktopInit
<1>2. DumpTypeOK /\ DumpInv => RecordingsCanEnd
  BY DEF DumpInv, AllIsCurrent, BridgeKeeps, RecordingsCanEnd, DumpLeavesNothingOpen, BridgeCaptureIsKept
<1> QED BY <1>1, <1>2, DumpStep, PTL DEF DesktopSpec

(***************************************************************************)
(* Dictation.                                                              *)
(***************************************************************************)
VoiceFields == [phase: Phases, session: Presses \cup {NoPress}, sse: Presses \cup {NoPress}, drawn: SUBSET Presses]
MicFields == [alive: BOOLEAN, capturing: BOOLEAN, key: {"up", "down"}, injected: Seq(Presses)]
ManagerFields == [active: Presses \cup {NoPress, Renderer}, table: SUBSET (Presses \cup {Renderer}),
                  final: SUBSET Presses]
Asking == {"fetching", "opened", "refused", "failed"}
PressPlaces == Asking \cup {"none", "capturing", "done", "threw"}
ReleasePlaces == Ended \cup {"none", "stopping", "finishing", "final", "error", "failed", "injecting", "blank"}
Cue == {"none", "start", "done", "error"}

LEMMA VoiceTyped ==
    DictationTypeOK <=> /\ voice \in VoiceFields /\ pressing \in [Presses -> PressPlaces]
                        /\ releasing \in [Presses -> ReleasePlaces] /\ hud \in OverlayType
                        /\ cues \in Cue \X Cue /\ partials \subseteq Presses
                        /\ mic \in ClientType(DictationRequests) /\ micHelper \in MicFields
                        /\ manager \in ManagerFields /\ faulted \subseteq FaultKinds \cup {"overlap"}
<1>1. /\ PressPlaces = {"none", "fetching", "opened", "refused", "failed", "capturing", "done", "threw"}
      /\ ReleasePlaces = {"none", "stopping", "finishing", "final", "error", "failed", "injecting", "blank",
                          "done", "nothing", "threw"}
  BY DEF PressPlaces, ReleasePlaces, Asking, Ended
<1> QED BY <1>1 DEF DictationTypeOK, VoiceFields, MicFields, ManagerFields, Cue

\* The names of the invariant's conjuncts.
LEMMA VoiceParts ==
    VoiceInv <=> /\ DeadMicIsSilent /\ ReleasedOnce /\ WaitsForAnswer /\ TypedOnce /\ InjectedIsFinal
                 /\ DictationIsShown
                 /\ Orderly => OneAtATime /\ AnswersComeOnce /\ CuesAlternate /\ SessionKept
                 /\ MicOrderly => MicClosed /\ MicrophoneFollowsPhase
BY DEF VoiceInv, OneSessionInv, MicrophoneInv

\* What is orderly was so before.
LEMMA OrderlyBefore ==
    ASSUME faulted \subseteq faulted'
    PROVE  (Orderly' => Orderly) /\ (MicOrderly' => MicOrderly /\ Orderly /\ Orderly')
BY DEF Orderly, MicOrderly

LEMMA MicRequests ==
    /\ \A n \in Presses : RequestsOf(n) \subseteq DictationRequests
    /\ \A n : RequestsOf(n) = {CaptureStart(n), CaptureStop(n), InjectText(n), InjectNothing(n)}
    /\ \A n, m : /\ CaptureStart(n) # CaptureStop(m) /\ CaptureStart(n) # InjectText(m)
                 /\ CaptureStart(n) # InjectNothing(m) /\ CaptureStop(n) # InjectText(m)
                 /\ CaptureStop(n) # InjectNothing(m) /\ InjectText(n) # InjectNothing(m)
    /\ \A n, m : CaptureStart(n) = CaptureStart(m) => n = m
    /\ \A n, m : CaptureStop(n) = CaptureStop(m) => n = m
    /\ \A n, m : InjectText(n) = InjectText(m) => n = m
    /\ \A n, m : InjectNothing(n) = InjectNothing(m) => n = m
BY DEF DictationRequests, RequestsOf, CaptureStart, CaptureStop, InjectText, InjectNothing, Request

\* Whose press is the newest is one.
LEMMA NewestIsOne == ASSUME NEW n \in Presses, NEW m \in Presses, Newest(n), Newest(m) PROVE n = m
BY DictationAssumption DEF Newest

LEMMA CuesOfPhases ==
    /\ \A p, q \in Phases : SelectCue(p, q) \in {<<>>, <<"start">>, <<"done">>, <<"error">>}
    /\ \A p \in Phases : p # "error" => SelectCue(p, "error") = <<"error">>
    /\ SelectCue("idle", "recording") = <<"start">> /\ SelectCue("recording", "processing") = <<>>
    /\ SelectCue("processing", "injecting") = <<"done">>
BY DEF SelectCue, Phases

LEMMA CueHeard ==
    ASSUME NEW c \in Cue \X Cue
    PROVE  /\ Played(c, <<>>) = c
           /\ \A k \in {"start", "done", "error"} :
                Played(c, <<k>>) \in Cue \X Cue /\ Played(c, <<k>>)[1] = c[2] /\ Played(c, <<k>>)[2] = k
BY DEF Played, Cue

LEMMA Finished ==
    ASSUME DictationTypeOK, NEW played \in {<<>>, <<"error">>}, Finish(played)
    PROVE  /\ voice' \in VoiceFields /\ voice'.phase = "idle" /\ voice'.session = NoPress
           /\ voice'.drawn = voice.drawn /\ partials' \subseteq Presses
           /\ cues' \in Cue \X Cue
           /\ played = <<"error">> => cues'[1] = cues[2] /\ cues'[2] = "error"
           /\ played = <<>> => cues' = cues
<1>1. voice \in VoiceFields /\ partials \subseteq Presses /\ cues \in Cue \X Cue
  BY VoiceTyped
<1>2. voice' = Dropped(voice) /\ partials' = partials \ {voice.sse} /\ cues' = Played(cues, played)
  BY DEF Finish
<1>3. /\ voice' \in VoiceFields /\ voice'.phase = "idle" /\ voice'.session = NoPress
      /\ voice'.drawn = voice.drawn
  BY <1>1, <1>2 DEF Dropped, VoiceFields, Phases
<1>4. cues' \in Cue \X Cue /\ (played = <<"error">> => cues'[1] = cues[2] /\ cues'[2] = "error")
      /\ (played = <<>> => cues' = cues)
  BY <1>1, <1>2, CueHeard
<1> QED BY <1>1, <1>2, <1>3, <1>4

LEMMA VoiceChanged ==
    ASSUME NEW v \in VoiceFields, NEW p \in Phases, NEW n \in Presses, NEW x \in Presses \cup {NoPress}
    PROVE  /\ [v EXCEPT !.phase = p] \in VoiceFields
           /\ [v EXCEPT !.phase = p, !.drawn = v.drawn \cup {n}] \in VoiceFields
           /\ [v EXCEPT !.session = x] \in VoiceFields
           /\ [v EXCEPT !.sse = x] \in VoiceFields
BY DEF VoiceFields

\* What reading an answer leaves of the way of the requests.
LEMMA MicReadsEffect ==
    ASSUME DictationTypeOK, NEW q, NEW o \in {"ok", "error"}, MicReads(q, o)
    PROVE  /\ mic' \in ClientType(DictationRequests) /\ mic'.process = mic.process
           /\ mic'.pending = mic.pending \ {q} /\ q \in mic.pending
           /\ Told(mic, Reply(q, o)) /\ Answered(mic, q)
           /\ \A r : Piped(mic', r) <=> Piped(mic, r)
           /\ \A r, p : Told(mic', Reply(r, p)) => Told(mic, Reply(r, p))
           /\ \A r : Answered(mic', r) => Answered(mic, r)
           /\ \A r : OnItsWay(mic', r) => OnItsWay(mic, r)
           /\ \A r : r # q => (OnItsWay(mic, r) => OnItsWay(mic', r))
           /\ \A a, b : Ahead(mic', a, b) => Ahead(mic, a, b)
           /\ \A b : OnItsWay(mic', b) => Ahead(mic, q, b)
<1>1. mic \in ClientType(DictationRequests)
  BY VoiceTyped
<1>2. mic.lines # <<>> /\ NextLine(mic) = Reply(q, o) /\ IsAnswer(mic) /\ mic' = LineRead(mic)
  BY DEF MicReads
<1> QED BY <1>1, <1>2, AnswerRead

\* While one dictation is under way nobody else presses, stops or types.
LEMMA OnlyOne ==
    ASSUME DictationTypeOK, VoiceInv, Orderly, NEW n \in Presses, voice.session = n
    PROVE  /\ Newest(n) /\ pressing[n] \in {"capturing", "done"}
           /\ \A m \in Presses : /\ pressing[m] \notin Asking /\ (pressing[m] = "capturing" => m = n)
                                 /\ m # n => releasing[m] \in Ended \cup {"none"}
                                 /\ Newest(m) => m = n
<1>1. OneAtATime /\ NoPress \notin Presses
  BY VoiceParts, DictationAssumption
<1>2. Newest(n) /\ pressing[n] \in {"capturing", "done"}
  BY <1>1 DEF OneAtATime
<1>3. \A m \in Presses : Newest(m) => m = n
  BY <1>2, NewestIsOne
<1>4. \A m \in Presses : pressing[m] \notin Asking /\ (pressing[m] = "capturing" => m = n)
  BY <1>1, <1>3 DEF OneAtATime, Asking
<1>5. \A m \in Presses : m # n => releasing[m] \in Ended \cup {"none"}
  BY <1>1 DEF OneAtATime
<1> QED BY <1>2, <1>3, <1>4, <1>5

\* While a press asks for its session or the microphone nobody else is under way.
LEMMA OnlyAsking ==
    ASSUME DictationTypeOK, VoiceInv, Orderly, NEW n \in Presses, pressing[n] \in Asking
    PROVE  /\ voice.phase = "recording" /\ voice.session = NoPress /\ Newest(n)
           /\ \A m \in Presses : /\ releasing[m] \in Ended \cup {"none"}
                                 /\ m # n => pressing[m] \notin Asking \cup {"capturing"}
<1>1. OneAtATime /\ NoPress \notin Presses
  BY VoiceParts, DictationAssumption
<1>2. voice.phase = "recording" /\ voice.session = NoPress /\ Newest(n)
  BY <1>1 DEF OneAtATime, Asking
<1>3. \A m \in Presses : m # n => pressing[m] \notin Asking \cup {"capturing"}
  BY <1>1, <1>2, NewestIsOne DEF OneAtATime, Asking
<1>4. \A m \in Presses : releasing[m] \in Ended \cup {"none"}
  BY <1>1, <1>2 DEF OneAtATime
<1> QED BY <1>2, <1>3, <1>4

\* An idle orchestrator has nobody under way, and a closed microphone.
LEMMA NobodyWhenIdle ==
    ASSUME DictationTypeOK, VoiceInv, Orderly, voice.phase = "idle"
    PROVE  /\ voice.session = NoPress
           /\ \A m \in Presses : /\ releasing[m] \in Ended \cup {"none"}
                                 /\ pressing[m] \in {"none", "done", "threw"}
           /\ MicOrderly => ~micHelper.capturing
<1>1. /\ OneAtATime /\ NoPress \notin Presses /\ voice \in VoiceFields /\ pressing \in [Presses -> PressPlaces]
      /\ WaitsForAnswer /\ (MicOrderly => MicrophoneFollowsPhase)
  BY VoiceParts, VoiceTyped, DictationAssumption
<1>2. voice.session = NoPress
  BY <1>1 DEF OneAtATime, VoiceFields
<1>3. \A m \in Presses : releasing[m] \in Ended \cup {"none"}
  BY <1>1, <1>2 DEF OneAtATime
<1>4. \A m \in Presses : pressing[m] \in {"none", "done", "threw"}
  BY <1>1 DEF OneAtATime, PressPlaces, Asking
<1>5. MicOrderly => ~micHelper.capturing
  BY <1>1, <1>3 DEF MicrophoneFollowsPhase, WaitsForAnswer, Ended
<1> QED BY <1>2, <1>3, <1>4, <1>5

\* An event that is ignored, or a key the helper reports.
LEMMA IgnoredStep ==
    ASSUME DictationTypeOK, VoiceInv, mic' \in ClientType(DictationRequests), SameWay(mic, mic'),
           micHelper' \in MicFields, micHelper'.alive = micHelper.alive,
           micHelper'.capturing = micHelper.capturing, micHelper'.injected = micHelper.injected,
           UNCHANGED <<voice, pressing, releasing, hud, cues, partials, manager, faulted>>
    PROVE  DictationTypeOK' /\ VoiceInv'
<1>1. /\ mic'.process = mic.process /\ mic'.pending = mic.pending
      /\ \A q : Piped(mic', q) <=> Piped(mic, q)
      /\ \A r, o : Told(mic', Reply(r, o)) <=> Told(mic, Reply(r, o))
      /\ \A q : Answered(mic', q) <=> Answered(mic, q)
      /\ \A q : OnItsWay(mic', q) <=> OnItsWay(mic, q)
      /\ \A a, b : Ahead(mic', a, b) => Ahead(mic, a, b)
  BY SameWayKeeps DEF SameWay
<1>2. DictationTypeOK'
  BY DEF DictationTypeOK, MicFields
<1>3. DeadMicIsSilent' /\ ReleasedOnce' /\ WaitsForAnswer' /\ DictationIsShown'
  BY <1>1, VoiceParts DEF DeadMicIsSilent, ReleasedOnce, WaitsForAnswer, DictationIsShown
<1>4. TypedOnce' /\ InjectedIsFinal'
  BY <1>1, VoiceParts DEF TypedOnce, Typed, InjectedIsFinal, Orderly
<1>5. (Orderly' => Orderly) /\ (MicOrderly' => MicOrderly)
  BY OrderlyBefore
<1>6. Orderly' => OneAtATime' /\ CuesAlternate'
  BY <1>1, <1>5, VoiceParts DEF OneAtATime, Newest, PlaceOf, CuesAlternate
<1>7. Orderly' => AnswersComeOnce'
  BY <1>1, <1>5, VoiceParts DEF AnswersComeOnce
<1>8. Orderly' => SessionKept'
  BY <1>5, VoiceParts DEF SessionKept, CallFailed
<1>9. MicOrderly' => MicClosed' /\ MicrophoneFollowsPhase'
  BY <1>1, <1>5, VoiceParts DEF MicClosed, MicrophoneFollowsPhase
<1> QED BY <1>2, <1>3, <1>4, <1>6, <1>7, <1>8, <1>9 DEF VoiceInv, OneSessionInv, MicrophoneInv

\* The key is pressed while the orchestrator is idle: the newest press, and the only one under way.
LEMMA PressBegins ==
    ASSUME DictationTypeOK, VoiceInv, HandlePress, voice.phase = "idle"
    PROVE  DictationTypeOK' /\ VoiceInv'
<1>0. /\ voice \in VoiceFields /\ pressing \in [Presses -> PressPlaces] /\ hud \in OverlayType
      /\ cues \in Cue \X Cue /\ mic \in ClientType(DictationRequests)
      /\ NoPress \notin Presses /\ Presses \subseteq Nat
  BY VoiceTyped, DictationAssumption
<1>1. PICK n \in Presses :
        /\ NextPress(n)
        /\ voice' = [voice EXCEPT !.phase = "recording", !.drawn = @ \cup {n}]
        /\ cues' = Played(cues, SelectCue("idle", "recording"))
        /\ hud' = Shown(hud)
        /\ pressing' = [pressing EXCEPT ![n] = "fetching"]
  BY DEF HandlePress
<1>2. mic' \in ClientType(DictationRequests) /\ SameWay(mic, mic')
  BY <1>0, EventRead DEF HandlePress, ReadsEvent
<1>3. /\ mic'.process = mic.process /\ mic'.pending = mic.pending
      /\ \A q : Piped(mic', q) <=> Piped(mic, q)
      /\ \A r, o : Told(mic', Reply(r, o)) <=> Told(mic, Reply(r, o))
      /\ \A q : Answered(mic', q) <=> Answered(mic, q)
      /\ \A q : OnItsWay(mic', q) <=> OnItsWay(mic, q)
      /\ \A a, b : Ahead(mic', a, b) => Ahead(mic, a, b)
  BY <1>2, SameWayKeeps DEF SameWay
<1>4. UNCHANGED <<releasing, partials, micHelper, manager, faulted>> /\ (Orderly' <=> Orderly)
      /\ (MicOrderly' <=> MicOrderly)
  BY DEF HandlePress, Orderly, MicOrderly
<1>5. /\ voice' \in VoiceFields /\ voice'.phase = "recording" /\ voice'.session = voice.session
      /\ voice'.drawn = voice.drawn \cup {n}
  <2>1. "recording" \in Phases
    BY DEF Phases
  <2> QED BY <1>0, <1>1, <2>1, VoiceChanged DEF VoiceFields
<1>6. /\ pressing' \in [Presses -> PressPlaces] /\ pressing'[n] = "fetching"
      /\ \A m \in Presses \ {n} : pressing'[m] = pressing[m]
      /\ n \notin voice.drawn /\ pressing[n] = "none" /\ releasing[n] = "none" /\ voice.session # n
      /\ \A m \in voice.drawn : m <= n
  <2>1. n \notin voice.drawn /\ \A r \in Presses : r < n => r \in voice.drawn
    BY <1>1 DEF NextPress
  <2>2. pressing[n] = "none"
    BY <2>1, VoiceParts DEF ReleasedOnce
  <2>3. \A m \in voice.drawn : m <= n
    BY <1>0, <2>1, VoiceParts DEF ReleasedOnce, VoiceFields
  <2> QED BY <1>0, <1>1, <2>1, <2>2, <2>3, VoiceParts DEF ReleasedOnce, PressPlaces, Asking
<1>7. hud' \in OverlayType /\ hud'.window = "visible" /\ ~hud'.hideTimer
  BY <1>0, <1>1, OverlayChanged
<1>8. cues' \in Cue \X Cue /\ cues'[1] = cues[2] /\ cues'[2] = "start"
  BY <1>0, <1>1, CuesOfPhases, CueHeard
<1>9. DictationTypeOK'
  BY <1>2, <1>4, <1>5, <1>6, <1>7, <1>8
  DEF DictationTypeOK, VoiceFields, PressPlaces, Asking, Cue
<1>10. DeadMicIsSilent' /\ DictationIsShown'
  BY <1>3, <1>4, <1>7, VoiceParts DEF DeadMicIsSilent, DictationIsShown
<1>11. ReleasedOnce'
  <2>1. voice'.phase # "error" /\ \A k \in voice'.drawn, m \in Presses : m < k => m \in voice'.drawn
    BY <1>1, <1>5, VoiceParts DEF ReleasedOnce, NextPress
  <2> QED BY <1>4, <1>5, <1>6, <2>1, VoiceParts DEF ReleasedOnce
<1>12. WaitsForAnswer'
  BY <1>3, <1>4, <1>6, VoiceParts DEF WaitsForAnswer
<1>13. TypedOnce' /\ InjectedIsFinal'
  BY <1>3, <1>4, VoiceParts DEF TypedOnce, Typed, InjectedIsFinal
<1>14. ASSUME Orderly PROVE OneAtATime' /\ AnswersComeOnce' /\ CuesAlternate' /\ SessionKept'
  <2>1. OneAtATime /\ AnswersComeOnce /\ CuesAlternate /\ SessionKept
    BY <1>14, VoiceParts
  <2>2. voice.session = NoPress
    BY <1>14, NobodyWhenIdle
  <2>3. \A m \in Presses : /\ releasing[m] \in Ended \cup {"none"}
                           /\ pressing[m] \in {"none", "done", "threw"}
    BY <1>14, NobodyWhenIdle
  <2>4. Newest(n)'
    BY <1>0, <1>5, <1>6 DEF Newest
  <2>5. OneAtATime'
    BY <1>0, <1>4, <1>5, <1>6, <2>2, <2>3, <2>4 DEF OneAtATime, PlaceOf, Ended
  <2>6. AnswersComeOnce'
    BY <1>3, <1>4, <2>1 DEF AnswersComeOnce
  <2>7. CuesAlternate'
    BY <1>8, <2>1 DEF CuesAlternate, OneAtATime
  <2>8. SessionKept'
    BY <1>0, <1>4, <1>6, <2>1, <2>2, <2>3 DEF SessionKept, CallFailed
  <2> QED BY <2>5, <2>6, <2>7, <2>8
<1>15. ASSUME MicOrderly PROVE MicClosed' /\ MicrophoneFollowsPhase'
  <2>1. ~micHelper.capturing /\ MicClosed
    BY <1>15, NobodyWhenIdle, VoiceParts DEF MicOrderly
  <2> QED BY <1>3, <1>4, <2>1 DEF MicClosed, MicrophoneFollowsPhase
<1> QED BY <1>4, <1>9, <1>10, <1>11, <1>12, <1>13, <1>14, <1>15 DEF VoiceInv, OneSessionInv, MicrophoneInv

\* The session of a press is known, or was refused: the microphone is asked for.
LEMMA CaptureAsked ==
    ASSUME DictationTypeOK, VoiceInv, NEW n \in Presses, StartFetched(n), CanSend(mic)
    PROVE  DictationTypeOK' /\ VoiceInv'
<1>0. /\ voice \in VoiceFields /\ pressing \in [Presses -> PressPlaces]
      /\ mic \in ClientType(DictationRequests) /\ NoPress \notin Presses
      /\ pressing[n] \in {"opened", "refused"} /\ mic.process
  BY VoiceTyped, DictationAssumption DEF StartFetched, CanSend
<1>1. /\ voice' = [voice EXCEPT !.session = IF pressing[n] = "opened" THEN n ELSE NoPress]
      /\ mic' = Send(mic, CaptureStart(n))
      /\ pressing' = [pressing EXCEPT ![n] = "capturing"]
      /\ UNCHANGED <<releasing, hud, cues, partials, micHelper, manager, faulted>>
      /\ (Orderly' <=> Orderly) /\ (MicOrderly' <=> MicOrderly)
  BY DEF StartFetched, Orderly, MicOrderly
<1>2. /\ mic' \in ClientType(DictationRequests)
      /\ mic'.process = mic.process /\ mic'.pending = mic.pending \cup {CaptureStart(n)}
      /\ \A q : Piped(mic', q) <=> Piped(mic, q) \/ q = CaptureStart(n)
      /\ \A l : Told(mic', l) <=> Told(mic, l)
      /\ \A q : OnItsWay(mic', q) <=> OnItsWay(mic, q) \/ q = CaptureStart(n)
      /\ \A a, b : Ahead(mic', a, b) <=> Ahead(mic, a, b) \/ (b = CaptureStart(n) /\ OnItsWay(mic, a))
  <2>1. PICK r \in DictationRequests : r = CaptureStart(n)
    BY MicRequests
  <2>2. mic' = Send(mic, r) /\ mic \in ClientType(DictationRequests)
    BY <1>0, <1>1, <2>1
  <2> QED BY <2>1, <2>2, SendEffect
<1>3. \A q : Answered(mic', q) <=> Answered(mic, q)
  BY <1>2 DEF Answered
<1>4. /\ voice' \in VoiceFields /\ voice'.session \in {n, NoPress} /\ (pressing[n] = "opened" => voice'.session = n)
      /\ voice'.phase = voice.phase /\ voice'.drawn = voice.drawn
  BY <1>0, <1>1, VoiceChanged DEF VoiceFields
<1>5. /\ pressing' \in [Presses -> PressPlaces] /\ pressing'[n] = "capturing"
      /\ \A m \in Presses \ {n} : pressing'[m] = pressing[m]
      /\ releasing[n] = "none" /\ n \in voice.drawn
  <2>1. releasing[n] = "none" /\ n \in voice.drawn
    BY <1>0, VoiceParts DEF ReleasedOnce
  <2> QED BY <1>0, <1>1, <2>1 DEF PressPlaces
<1>6. DictationTypeOK'
  BY <1>1, <1>2, <1>4, <1>5 DEF DictationTypeOK, VoiceFields, PressPlaces, Asking
<1>7. DeadMicIsSilent' /\ DictationIsShown'
  BY <1>0, <1>1, <1>2, <1>4, VoiceParts DEF DeadMicIsSilent, DictationIsShown
<1>8. ReleasedOnce'
  BY <1>0, <1>1, <1>4, <1>5, VoiceParts DEF ReleasedOnce
<1>9. WaitsForAnswer'
  BY <1>1, <1>2, <1>5, MicRequests, VoiceParts DEF WaitsForAnswer
<1>10. TypedOnce' /\ InjectedIsFinal'
  <2>1. InjectedIsFinal'
    BY <1>1, VoiceParts DEF InjectedIsFinal
  <2>2. \A m \in Presses : (OnItsWay(mic', InjectText(m)) <=> OnItsWay(mic, InjectText(m)))
                          /\ (Piped(mic', InjectText(m)) <=> Piped(mic, InjectText(m)))
                          /\ (Ahead(mic', InjectText(m), InjectText(m)) <=> Ahead(mic, InjectText(m), InjectText(m)))
                          /\ (Typed(m)' <=> Typed(m))
    BY <1>1, <1>2, MicRequests DEF Typed
  <2> QED BY <1>1, <2>1, <2>2, VoiceParts DEF TypedOnce
<1>11. ASSUME Orderly PROVE OneAtATime' /\ AnswersComeOnce' /\ CuesAlternate' /\ SessionKept'
  <2>1. OneAtATime /\ AnswersComeOnce /\ CuesAlternate /\ SessionKept
    BY <1>11, VoiceParts
  <2>2. /\ voice.phase = "recording" /\ voice.session = NoPress /\ Newest(n)
        /\ \A m \in Presses : /\ releasing[m] \in Ended \cup {"none"}
                              /\ m # n => pressing[m] \notin Asking \cup {"capturing"}
    BY <1>0, <1>11, OnlyAsking DEF Asking
  <2>3. Newest(n)'
    BY <1>4, <2>2 DEF Newest
  <2>4. OneAtATime'
    BY <1>0, <1>1, <1>4, <1>5, <2>2, <2>3 DEF OneAtATime, PlaceOf, Phases, Ended, Asking
  <2>5. AnswersComeOnce'
    <3>1. ~OnItsWay(mic, CaptureStart(n))
      BY <1>0, <2>1, VoiceParts, MicRequests DEF AnswersComeOnce, WaitsForAnswer
    <3>2. \A m \in Presses : ~OnItsWay(mic, CaptureStop(m))
      BY <1>0, <2>1, <2>2, VoiceParts, MicRequests DEF AnswersComeOnce, WaitsForAnswer, Ended
    <3>3. \A m \in Presses : \A r \in RequestsOf(m) :
                (OnItsWay(mic', r) => r \in mic'.pending) /\ ~Ahead(mic', r, r)
      BY <1>0, <1>2, <2>1, <3>1 DEF AnswersComeOnce
    <3>4. \A m, k \in Presses : ~Ahead(mic', CaptureStop(m), CaptureStart(k))
      BY <1>0, <1>2, <2>1, <3>2 DEF AnswersComeOnce
    <3>5. \A m \in Presses : CaptureStart(m) \in mic'.pending => OnItsWay(mic', CaptureStart(m))
      BY <1>2, <2>1 DEF AnswersComeOnce
    <3> QED BY <3>3, <3>4, <3>5 DEF AnswersComeOnce, RequestsOf
  <2>6. CuesAlternate'
    BY <1>1, <2>1 DEF CuesAlternate
  <2>7. SessionKept'
    BY <1>0, <1>1, <1>4, <1>5, <2>1, <2>2 DEF SessionKept, CallFailed
  <2> QED BY <2>4, <2>5, <2>6, <2>7
<1>12. ASSUME MicOrderly PROVE MicClosed' /\ MicrophoneFollowsPhase'
  <2>1. ~micHelper.capturing /\ MicClosed
    BY <1>0, <1>12, VoiceParts DEF MicClosed
  <2> QED BY <1>1, <1>2, <2>1 DEF MicClosed, MicrophoneFollowsPhase
<1> QED BY <1>1, <1>6, <1>7, <1>8, <1>9, <1>10, <1>11, <1>12 DEF VoiceInv, OneSessionInv, MicrophoneInv

\* A press fails: nothing is recorded any more, and an error was heard.
LEMMA PressFailsStep ==
    ASSUME DictationTypeOK, VoiceInv, NEW n \in Presses, PressFails(n), pressing[n] \in Asking,
           UNCHANGED <<mic, micHelper, manager, faulted>>
    PROVE  DictationTypeOK' /\ VoiceInv'
<1>0. /\ voice \in VoiceFields /\ pressing \in [Presses -> PressPlaces] /\ hud \in OverlayType
      /\ NoPress \notin Presses /\ voice.phase \in Phases /\ voice.phase # "error"
      /\ (Orderly' <=> Orderly) /\ (MicOrderly' <=> MicOrderly)
  BY VoiceTyped, VoiceParts, DictationAssumption DEF VoiceFields, ReleasedOnce, Orderly, MicOrderly
<1>1. /\ voice' \in VoiceFields /\ voice'.phase = "idle" /\ voice'.session = NoPress
      /\ voice'.drawn = voice.drawn /\ partials' \subseteq Presses
      /\ cues' \in Cue \X Cue /\ cues'[2] = "error"
  <2>1. Finish(<<"error">>)
    BY <1>0, CuesOfPhases DEF PressFails
  <2>2. /\ voice' \in VoiceFields /\ voice'.phase = "idle" /\ voice'.session = NoPress
        /\ voice'.drawn = voice.drawn /\ partials' \subseteq Presses /\ cues' \in Cue \X Cue
        /\ cues'[1] = cues[2] /\ cues'[2] = "error"
    BY <2>1, Finished
  <2> QED BY <2>2
<1>2. hud' \in OverlayType /\ UNCHANGED releasing
  <2>1. StateSent(hud, "error") \in OverlayType
    BY <1>0, OverlayChanged
  <2> QED BY <2>1, OverlayChanged DEF PressFails
<1>3. /\ pressing' \in [Presses -> PressPlaces] /\ pressing'[n] = "threw"
      /\ \A m \in Presses \ {n} : pressing'[m] = pressing[m]
      /\ n \in voice.drawn /\ releasing[n] = "none"
  <2>1. releasing[n] = "none" /\ n \in voice.drawn
    BY <1>0, VoiceParts DEF ReleasedOnce, Asking
  <2> QED BY <1>0, <2>1 DEF PressPlaces, PressFails
<1>4. DictationTypeOK'
  BY <1>1, <1>2, <1>3 DEF DictationTypeOK, VoiceFields, PressPlaces, Asking, Cue
<1>5. DeadMicIsSilent' /\ DictationIsShown'
  BY <1>1, VoiceParts DEF DeadMicIsSilent, DictationIsShown
<1>6. WaitsForAnswer'
  BY <1>2, <1>3, VoiceParts DEF WaitsForAnswer, Asking
<1>7. ReleasedOnce'
  BY <1>0, <1>1, <1>2, <1>3, VoiceParts DEF ReleasedOnce
<1>8. TypedOnce' /\ InjectedIsFinal'
  BY <1>0, <1>2, VoiceParts DEF TypedOnce, Typed, InjectedIsFinal
<1>9. ASSUME Orderly PROVE OneAtATime' /\ AnswersComeOnce' /\ CuesAlternate' /\ SessionKept'
  <2>1. OneAtATime /\ AnswersComeOnce /\ CuesAlternate /\ SessionKept
    BY <1>9, VoiceParts
  <2>2. /\ voice.session = NoPress
        /\ \A m \in Presses : /\ releasing[m] \in Ended \cup {"none"}
                              /\ m # n => pressing[m] \notin Asking \cup {"capturing"}
    BY <1>9, OnlyAsking
  <2>3. OneAtATime'
    BY <1>0, <1>1, <1>2, <1>3, <2>2 DEF OneAtATime, PlaceOf, Asking, Ended
  <2>4. AnswersComeOnce' /\ CuesAlternate'
    BY <1>1, <2>1 DEF AnswersComeOnce, CuesAlternate
  <2>5. SessionKept'
    BY <1>0, <1>2, <1>3, <2>1, <2>2 DEF SessionKept, CallFailed
  <2> QED BY <2>3, <2>4, <2>5
<1>10. ASSUME MicOrderly PROVE MicClosed' /\ MicrophoneFollowsPhase'
  <2>1. ~micHelper.capturing /\ MicClosed
    BY <1>10, VoiceParts DEF MicClosed, Asking
  <2> QED BY <2>1 DEF MicClosed, MicrophoneFollowsPhase
<1> QED BY <1>0, <1>4, <1>5, <1>6, <1>7, <1>8, <1>9, <1>10 DEF VoiceInv, OneSessionInv, MicrophoneInv

\* The microphone is open, or the helper refused it.
LEMMA CaptureAnswered ==
    ASSUME DictationTypeOK, VoiceInv, NEW n \in Presses, CaptureStarted(n) \/ CaptureRefused(n)
    PROVE  DictationTypeOK' /\ VoiceInv'
<1>0. /\ voice \in VoiceFields /\ pressing \in [Presses -> PressPlaces] /\ hud \in OverlayType
      /\ NoPress \notin Presses /\ voice.phase \in Phases /\ voice.phase # "error" /\ partials \subseteq Presses
      /\ cues \in Cue \X Cue /\ faulted \subseteq FaultKinds \cup {"overlap"}
  BY VoiceTyped, VoiceParts, DictationAssumption DEF VoiceFields, ReleasedOnce
<1>1. PICK o \in {"ok", "error"} :
        MicReads(CaptureStart(n), o) /\ (o = "ok" => CaptureStarted(n)) /\ (o = "error" => CaptureRefused(n))
  BY DEF CaptureStarted, CaptureRefused
<1>2. /\ mic' \in ClientType(DictationRequests) /\ mic'.process = mic.process
      /\ mic'.pending = mic.pending \ {CaptureStart(n)} /\ CaptureStart(n) \in mic.pending
      /\ Told(mic, Reply(CaptureStart(n), o))
      /\ \A r : Piped(mic', r) <=> Piped(mic, r)
      /\ \A r, p : Told(mic', Reply(r, p)) => Told(mic, Reply(r, p))
      /\ \A r : Answered(mic', r) => Answered(mic, r)
      /\ \A r : OnItsWay(mic', r) => OnItsWay(mic, r)
      /\ \A r : r # CaptureStart(n) => (OnItsWay(mic, r) => OnItsWay(mic', r))
      /\ \A a, b : Ahead(mic', a, b) => Ahead(mic, a, b)
      /\ \A b : OnItsWay(mic', b) => Ahead(mic, CaptureStart(n), b)
  BY <1>1, MicReadsEffect
<1>3. /\ pressing[n] = "capturing" /\ n \in voice.drawn /\ mic.process
      /\ UNCHANGED <<releasing, micHelper, manager>>
      /\ pressing' = [pressing EXCEPT ![n] = IF o = "ok" THEN "done" ELSE "threw"]
      /\ faulted \subseteq faulted' /\ faulted' \subseteq FaultKinds \cup {"overlap"}
      /\ o = "ok" => faulted' = faulted
      /\ o = "error" /\ Orderly' => releasing[n] = "none"
  <2>1. pressing[n] = "capturing"
    BY <1>2, VoiceParts DEF WaitsForAnswer
  <2>2. n \in voice.drawn /\ mic.process
    BY <1>2, <2>1, VoiceParts DEF ReleasedOnce, DeadMicIsSilent
  <2>3. CASE o = "ok"
    BY <1>0, <1>1, <2>1, <2>2, <2>3 DEF CaptureStarted
  <2>4. CASE o = "error"
    BY <1>0, <1>1, <2>1, <2>2, <2>4 DEF CaptureRefused, PressFails, Orderly
  <2> QED BY <2>3, <2>4
<1>4. /\ pressing' \in [Presses -> PressPlaces] /\ pressing'[n] = (IF o = "ok" THEN "done" ELSE "threw")
      /\ \A m \in Presses \ {n} : pressing'[m] = pressing[m]
      /\ Orderly' => Orderly
      /\ MicOrderly' => MicOrderly /\ Orderly /\ Orderly'
  BY <1>0, <1>3, OrderlyBefore DEF PressPlaces
<1>5. /\ voice' \in VoiceFields /\ voice'.drawn = voice.drawn /\ partials' \subseteq Presses
      /\ hud' \in OverlayType /\ cues' \in Cue \X Cue
      /\ \/ /\ o = "ok" /\ voice'.phase = voice.phase /\ voice'.session = voice.session
            /\ UNCHANGED <<hud, cues>>
         \/ o = "error" /\ voice'.phase = "idle" /\ voice'.session = NoPress /\ cues'[2] = "error"
  <2>1. CASE o = "ok"
    <3>1. /\ voice' = [voice EXCEPT !.sse = n] /\ partials' = partials \cup {n} /\ UNCHANGED <<hud, cues>>
      BY <1>1, <2>1 DEF CaptureStarted
    <3>2. /\ voice' \in VoiceFields /\ voice'.drawn = voice.drawn /\ voice'.phase = voice.phase
          /\ voice'.session = voice.session
      BY <1>0, <3>1, VoiceChanged DEF VoiceFields
    <3> QED BY <1>0, <2>1, <3>1, <3>2
  <2>2. CASE o = "error"
    <3>1. PressFails(n)
      BY <1>1, <2>2 DEF CaptureRefused
    <3>2. Finish(<<"error">>)
      BY <1>0, <3>1, CuesOfPhases DEF PressFails
    <3>3. /\ voice' \in VoiceFields /\ voice'.phase = "idle" /\ voice'.session = NoPress
          /\ voice'.drawn = voice.drawn /\ partials' \subseteq Presses /\ cues' \in Cue \X Cue
          /\ cues'[1] = cues[2] /\ cues'[2] = "error"
      BY <3>2, Finished
    <3>4. hud' \in OverlayType
      BY <1>0, <3>1, OverlayChanged DEF PressFails
    <3> QED BY <2>2, <3>3, <3>4
  <2> QED BY <2>1, <2>2
<1>6. DictationTypeOK'
  BY <1>2, <1>3, <1>4, <1>5 DEF DictationTypeOK, VoiceFields, PressPlaces, Asking, Cue
<1>7. DeadMicIsSilent' /\ DictationIsShown'
  BY <1>2, <1>3, <1>5, VoiceParts DEF DeadMicIsSilent, DictationIsShown
<1>8. ReleasedOnce'
  <2>1. CASE voice'.phase = voice.phase /\ voice'.session = voice.session
    BY <1>3, <1>4, <1>5, <2>1, VoiceParts DEF ReleasedOnce
  <2>2. CASE voice'.phase = "idle" /\ voice'.session = NoPress
    BY <1>0, <1>3, <1>4, <1>5, <2>2, VoiceParts DEF ReleasedOnce
  <2> QED BY <1>5, <2>1, <2>2
<1>9. WaitsForAnswer'
  BY <1>2, <1>3, <1>4, MicRequests, VoiceParts DEF WaitsForAnswer
<1>10. TypedOnce' /\ InjectedIsFinal'
  BY <1>2, <1>3, <1>4, VoiceParts DEF TypedOnce, Typed, InjectedIsFinal
<1>11. ASSUME Orderly'
       PROVE  /\ \A m \in Presses : pressing[m] \notin Asking /\ (pressing[m] = "capturing" => m = n)
              /\ o = "error" => /\ voice.phase = "recording" /\ voice.session \in {n, NoPress}
                                /\ \A m \in Presses : releasing[m] \in Ended \cup {"none"}
  <2>1. OneAtATime /\ Newest(n) /\ voice.phase # "idle"
    BY <1>3, <1>4, <1>11, VoiceParts DEF OneAtATime
  <2>2. \A m \in Presses : pressing[m] \notin Asking /\ (pressing[m] = "capturing" => m = n)
    BY <1>3, <2>1, NewestIsOne DEF OneAtATime, Asking
  <2>3. voice.session \in {n, NoPress}
    BY <1>0, <2>1, NewestIsOne DEF OneAtATime, VoiceFields
  <2>4. o = "error" => \A m \in Presses : releasing[m] \in Ended \cup {"none"}
    BY <1>0, <1>3, <1>11, <2>1, <2>3 DEF OneAtATime
  <2>5. o = "error" => voice.phase = "recording"
    BY <1>0, <1>3, <1>11, <2>1, <2>3 DEF OneAtATime, Phases
  <2> QED BY <2>2, <2>3, <2>4, <2>5
<1>12. ASSUME Orderly' PROVE OneAtATime' /\ AnswersComeOnce' /\ CuesAlternate' /\ SessionKept'
  <2>1. OneAtATime /\ AnswersComeOnce /\ CuesAlternate /\ SessionKept /\ Orderly
    BY <1>4, <1>12, VoiceParts
  <2>2. \A m \in Presses : Newest(m)' <=> Newest(m)
    BY <1>5 DEF Newest
  <2>3. OneAtATime'
    <3>1. CASE o = "ok"
      <4>1. voice'.phase = voice.phase /\ voice'.session = voice.session /\ cues' = cues
        BY <1>5, <3>1
      <4> QED BY <1>3, <1>4, <2>1, <2>2, <3>1, <4>1 DEF OneAtATime, PlaceOf
    <3>2. CASE o = "error"
      <4>1. voice'.phase = "idle" /\ voice'.session = NoPress /\ cues'[2] = "error"
        BY <1>5, <3>2
      <4>2. \A m \in Presses : /\ pressing'[m] \notin Asking \cup {"capturing"}
                               /\ releasing'[m] \in Ended \cup {"none"}
        BY <1>3, <1>4, <1>11, <1>12, <3>2 DEF Asking
      <4> QED BY <1>0, <4>1, <4>2 DEF OneAtATime, Asking, Ended
    <3> QED BY <3>1, <3>2
  <2>4. AnswersComeOnce'
    <3>1. ~OnItsWay(mic', CaptureStart(n))
      BY <1>2, <1>3, <2>1, MicRequests DEF AnswersComeOnce
    <3> QED BY <1>2, <1>3, <2>1, <3>1 DEF AnswersComeOnce
  <2>5. CuesAlternate'
    BY <1>5, <2>1 DEF CuesAlternate
  <2>6. SessionKept'
    BY <1>0, <1>3, <1>4, <1>5, <1>11, <1>12, <2>1 DEF SessionKept, CallFailed, Asking
  <2> QED BY <2>3, <2>4, <2>5, <2>6
<1>13. ASSUME MicOrderly' PROVE MicClosed' /\ MicrophoneFollowsPhase'
  <2>1. MicClosed /\ MicrophoneFollowsPhase /\ MicOrderly
    BY <1>4, <1>13, VoiceParts
  <2>2. MicClosed'
    BY <1>2, <1>3, <1>4, <2>1 DEF MicClosed
  <2>3. MicrophoneFollowsPhase'
    <3>1. CASE o = "ok"
      BY <1>2, <1>3, <1>5, <2>1, <3>1, MicRequests DEF MicrophoneFollowsPhase
    <3>2. CASE o = "error"
      BY <1>2, <1>3, <2>1, <3>2 DEF MicClosed, MicrophoneFollowsPhase
    <3> QED BY <3>1, <3>2
  <2> QED BY <2>2, <2>3
<1> QED BY <1>6, <1>7, <1>8, <1>9, <1>10, <1>12, <1>13 DEF VoiceInv, OneSessionInv, MicrophoneInv

\* The key is released: the microphone is to be closed.
LEMMA ReleaseBegins ==
    ASSUME DictationTypeOK, VoiceInv, NEW c \in ClientType(DictationRequests), SameWay(mic, c), c.process,
           NEW n \in Presses, voice.session = n, voice.phase = "recording",
           SetPhase("processing"), releasing' = [releasing EXCEPT ![n] = "stopping"],
           mic' = Send(c, CaptureStop(n)),
           UNCHANGED <<pressing, hud, partials, micHelper, manager, faulted>>
    PROVE  DictationTypeOK' /\ VoiceInv'
<1>0. /\ voice \in VoiceFields /\ releasing \in [Presses -> ReleasePlaces] /\ NoPress \notin Presses
      /\ (Orderly' <=> Orderly) /\ (MicOrderly' <=> MicOrderly)
  BY VoiceTyped, DictationAssumption DEF Orderly, MicOrderly
<1>1. /\ c.process = mic.process /\ c.pending = mic.pending
      /\ \A q : Piped(c, q) <=> Piped(mic, q)
      /\ \A r, o : Told(c, Reply(r, o)) <=> Told(mic, Reply(r, o))
      /\ \A q : Answered(c, q) <=> Answered(mic, q)
      /\ \A q : OnItsWay(c, q) <=> OnItsWay(mic, q)
      /\ \A a, b : Ahead(c, a, b) => Ahead(mic, a, b)
  BY SameWayKeeps DEF SameWay
<1>2. /\ mic' \in ClientType(DictationRequests)
      /\ mic'.process = mic.process /\ mic'.pending = mic.pending \cup {CaptureStop(n)}
      /\ \A q : Piped(mic', q) <=> Piped(mic, q) \/ q = CaptureStop(n)
      /\ \A r, o : Told(mic', Reply(r, o)) <=> Told(mic, Reply(r, o))
      /\ \A q : OnItsWay(mic', q) <=> OnItsWay(mic, q) \/ q = CaptureStop(n)
      /\ \A a, b : Ahead(mic', a, b) => Ahead(mic, a, b) \/ (b = CaptureStop(n) /\ OnItsWay(mic, a))
  <2>1. CaptureStop(n) \in DictationRequests
    BY MicRequests
  <2> QED BY <1>1, <2>1, SendEffect
<1>3. \A q : Answered(mic', q) <=> Answered(mic, q)
  BY <1>2 DEF Answered
<1>4. /\ voice' \in VoiceFields /\ voice'.phase = "processing" /\ voice'.session = n
      /\ voice'.drawn = voice.drawn /\ cues' = cues
  <2>1. voice' = [voice EXCEPT !.phase = "processing"] /\ cues' = Played(cues, <<>>)
    BY CuesOfPhases DEF SetPhase
  <2>2. voice' \in VoiceFields
    BY <1>0, <2>1, VoiceChanged DEF Phases
  <2> QED BY <1>0, <2>1, <2>2, CueHeard, VoiceTyped DEF VoiceFields
<1>5. /\ releasing' \in [Presses -> ReleasePlaces] /\ releasing'[n] = "stopping"
      /\ \A m \in Presses \ {n} : releasing'[m] = releasing[m]
      /\ releasing[n] = "none"
      /\ pressing[n] \notin Asking \cup {"none"}
  BY <1>0, VoiceParts DEF ReleasePlaces, ReleasedOnce, Asking
<1>6. DictationTypeOK'
  BY <1>2, <1>4, <1>5 DEF DictationTypeOK, VoiceFields, ReleasePlaces, Ended
<1>7. DeadMicIsSilent' /\ DictationIsShown'
  BY <1>1, <1>2, <1>4, VoiceParts DEF DeadMicIsSilent, DictationIsShown
<1>8. ReleasedOnce'
  BY <1>0, <1>4, <1>5, VoiceParts DEF ReleasedOnce, Asking
<1>9. WaitsForAnswer'
  BY <1>2, <1>5, MicRequests, VoiceParts DEF WaitsForAnswer
<1>10. InjectedIsFinal'
  BY <1>0, VoiceParts DEF InjectedIsFinal
<1>11. TypedOnce'
  <2>1. \A m \in Presses : /\ OnItsWay(mic', InjectText(m)) <=> OnItsWay(mic, InjectText(m))
                           /\ Piped(mic', InjectText(m)) <=> Piped(mic, InjectText(m))
                           /\ Ahead(mic', InjectText(m), InjectText(m)) => Ahead(mic, InjectText(m), InjectText(m))
                           /\ Typed(m)' <=> Typed(m)
    BY <1>2, MicRequests DEF Typed
  <2> QED BY <1>5, <2>1, VoiceParts DEF TypedOnce
<1>12. ASSUME Orderly PROVE OneAtATime' /\ AnswersComeOnce' /\ CuesAlternate' /\ SessionKept'
  <2>1. OneAtATime /\ AnswersComeOnce /\ CuesAlternate /\ SessionKept
    BY <1>12, VoiceParts
  <2>2. \A m \in Presses : Newest(m)' <=> Newest(m)
    BY <1>4 DEF Newest
  <2>3. OneAtATime'
    BY <1>0, <1>4, <1>5, <2>1, <2>2 DEF OneAtATime, PlaceOf, Ended
  <2>4. AnswersComeOnce'
    <3>1. ~OnItsWay(mic, CaptureStop(n))
      BY <1>1, <1>5, <2>1, VoiceParts, MicRequests DEF AnswersComeOnce, WaitsForAnswer
    <3>2. \A m \in Presses : \A r \in RequestsOf(m) :
                (OnItsWay(mic', r) => r \in mic'.pending) /\ ~Ahead(mic', r, r)
      BY <1>1, <1>2, <2>1, <3>1 DEF AnswersComeOnce
    <3>3. \A m, k \in Presses : ~Ahead(mic', CaptureStop(m), CaptureStart(k))
      BY <1>1, <1>2, <2>1, MicRequests DEF AnswersComeOnce
    <3>4. \A m \in Presses : CaptureStart(m) \in mic'.pending => OnItsWay(mic', CaptureStart(m))
      BY <1>2, <2>1, MicRequests DEF AnswersComeOnce
    <3> QED BY <3>2, <3>3, <3>4 DEF AnswersComeOnce, RequestsOf
  <2>5. CuesAlternate'
    BY <1>0, <1>4, <1>12, <2>1 DEF CuesAlternate
  <2>6. SessionKept'
    BY <1>4, <1>5, <2>1 DEF SessionKept, CallFailed
  <2> QED BY <2>3, <2>4, <2>5, <2>6
<1>13. ASSUME MicOrderly PROVE MicClosed' /\ MicrophoneFollowsPhase'
  <2>1. MicClosed /\ MicrophoneFollowsPhase
    BY <1>13, VoiceParts
  <2>2. MicClosed'
    BY <1>2, <1>3, <2>1, MicRequests DEF MicClosed
  <2> QED BY <1>2, <2>2 DEF MicrophoneFollowsPhase
<1> QED BY <1>0, <1>6, <1>7, <1>8, <1>9, <1>10, <1>11, <1>12, <1>13 DEF VoiceInv, OneSessionInv, MicrophoneInv

\* A dictation comes to its end, with the answer of q or before q could be sent: nobody is under
\* way any more, and the backend's session was ended or is one that failed.
LEMMA ReleaseEndsStep ==
    ASSUME DictationTypeOK, VoiceInv, NEW n \in Presses, NEW end \in Ended, ReleaseEnds(n, end),
           NEW q \in {CaptureStop(n), InjectText(n), InjectNothing(n)},
           mic' \in ClientType(DictationRequests), mic'.process = mic.process,
           mic'.pending = mic.pending \ {q},
           \A r : Piped(mic', r) <=> Piped(mic, r),
           \A r, p : Told(mic', Reply(r, p)) => Told(mic, Reply(r, p)),
           \A r : OnItsWay(mic', r) => OnItsWay(mic, r),
           \A r : r # q => (OnItsWay(mic, r) => OnItsWay(mic', r)),
           \A a, b : Ahead(mic', a, b) => Ahead(mic, a, b),
           Orderly /\ mic.process => ~OnItsWay(mic', q),
           \/ voice.session = n /\ voice.phase = "recording" /\ ~mic.process
           \/ releasing[n] = "stopping" /\ q = CaptureStop(n)
           \/ releasing[n] \in {"final", "error", "failed"}
           \/ releasing[n] = "injecting" /\ q = InjectText(n)
           \/ releasing[n] = "blank" /\ q = InjectNothing(n),
           releasing[n] = "stopping" => (Orderly => pressing[n] = "done") /\ ~MicOrderly,
           end = "done" => releasing[n] = "injecting",
           end = "nothing" => releasing[n] = "blank",
           UNCHANGED <<micHelper, manager, faulted>>
    PROVE  DictationTypeOK' /\ VoiceInv'
<1>0. /\ voice \in VoiceFields /\ releasing \in [Presses -> ReleasePlaces] /\ hud \in OverlayType
      /\ NoPress \notin Presses /\ voice.phase \in Phases /\ voice.phase # "error"
      /\ cues \in Cue \X Cue /\ (Orderly' <=> Orderly) /\ (MicOrderly' <=> MicOrderly)
  BY VoiceTyped, VoiceParts, DictationAssumption DEF VoiceFields, ReleasedOnce, Orderly, MicOrderly
<1>1. /\ voice' \in VoiceFields /\ voice'.phase = "idle" /\ voice'.session = NoPress
      /\ voice'.drawn = voice.drawn /\ partials' \subseteq Presses
      /\ cues' \in Cue \X Cue
      /\ (cues' = cues /\ end # "threw") \/ cues'[2] = "error"
  <2>1. CASE end = "threw"
    <3>1. Finish(<<"error">>)
      BY <1>0, <2>1, CuesOfPhases DEF ReleaseEnds
    <3>2. /\ voice' \in VoiceFields /\ voice'.phase = "idle" /\ voice'.session = NoPress
          /\ voice'.drawn = voice.drawn /\ partials' \subseteq Presses /\ cues' \in Cue \X Cue
          /\ cues'[1] = cues[2] /\ cues'[2] = "error"
      BY <3>1, Finished
    <3> QED BY <3>2
  <2>2. CASE end # "threw"
    <3>1. Finish(<<>>)
      BY <2>2 DEF ReleaseEnds
    <3>2. /\ voice' \in VoiceFields /\ voice'.phase = "idle" /\ voice'.session = NoPress
          /\ voice'.drawn = voice.drawn /\ partials' \subseteq Presses /\ cues' = cues
      BY <3>1, Finished
    <3> QED BY <1>0, <2>2, <3>2
  <2> QED BY <2>1, <2>2
<1>2. hud' \in OverlayType /\ UNCHANGED pressing
  BY <1>0, OverlayChanged DEF ReleaseEnds
<1>3. /\ releasing' \in [Presses -> ReleasePlaces] /\ releasing'[n] = end
      /\ \A m \in Presses \ {n} : releasing'[m] = releasing[m]
  BY <1>0 DEF ReleasePlaces, ReleaseEnds
<1>4. /\ pressing[n] \notin Asking \cup {"none"}
      /\ {CaptureStop(n), InjectText(n), InjectNothing(n)} \cap mic'.pending = {}
  <2>1. pressing[n] \notin Asking \cup {"none"}
    BY VoiceParts DEF ReleasedOnce, Asking
  <2>2. releasing[n] \in {"none", "stopping", "final", "error", "failed", "injecting", "blank"}
    BY VoiceParts DEF ReleasedOnce
  <2>3. \A r \in {CaptureStop(n), InjectText(n), InjectNothing(n)} : r \in mic.pending => r = q
    BY <2>2, MicRequests, VoiceParts DEF WaitsForAnswer, ReleasedOnce
  <2> QED BY <2>1, <2>3
<1>5. DictationTypeOK'
  BY <1>1, <1>2, <1>3 DEF DictationTypeOK, VoiceFields, ReleasePlaces, Ended, Cue
<1>6. DeadMicIsSilent' /\ DictationIsShown'
  BY <1>1, VoiceParts DEF DeadMicIsSilent, DictationIsShown
<1>7. ReleasedOnce'
  BY <1>0, <1>1, <1>2, <1>3, <1>4, VoiceParts DEF ReleasedOnce, Asking
<1>8. WaitsForAnswer'
  BY <1>2, <1>3, <1>4, MicRequests, VoiceParts DEF WaitsForAnswer, Ended
<1>9. InjectedIsFinal'
  BY <1>0, VoiceParts DEF InjectedIsFinal
<1>10. TypedOnce'
  <2>1. \A m \in Presses : Typed(m)' <=> Typed(m)
    BY DEF Typed
  <2>2. OnItsWay(mic, InjectText(n)) \/ Typed(n) => releasing[n] = "injecting" /\ n \in manager.final
    BY VoiceParts DEF TypedOnce, ReleasedOnce
  <2> QED BY <1>3, <2>1, <2>2, VoiceParts DEF TypedOnce, Ended
<1>11. ASSUME Orderly
       PROVE  /\ voice.session = n /\ pressing[n] = "done"
              /\ end # "threw" => cues[2] = "done"
              /\ MicOrderly => ~micHelper.capturing
  <2>1. OneAtATime /\ (MicOrderly => MicrophoneFollowsPhase)
    BY <1>11, VoiceParts
  <2>2. voice.session = n
    BY <2>1 DEF OneAtATime, Ended
  <2>3. pressing[n] = "done"
    <3>1. CASE ~mic.process /\ releasing[n] = "none"
      BY <1>11, <2>2, <3>1, OnlyOne, VoiceParts DEF DeadMicIsSilent, WaitsForAnswer
    <3>2. CASE releasing[n] = "stopping"
      BY <1>11, <3>2
    <3>3. CASE releasing[n] \in {"final", "error", "failed", "injecting", "blank"}
      BY <2>1, <3>3 DEF OneAtATime
    <3> QED BY <3>1, <3>2, <3>3, VoiceParts DEF ReleasedOnce
  <2>4. end # "threw" => cues[2] = "done"
    BY <2>1, <2>2 DEF OneAtATime, PlaceOf, Ended
  <2>5. ASSUME MicOrderly, micHelper.capturing PROVE FALSE
    <3>1. mic.process
      BY <2>5, VoiceParts DEF DeadMicIsSilent
    <3>2. releasing[n] \in {"final", "error", "failed", "injecting", "blank"}
      BY <2>5, <3>1
    <3>3. voice.phase # "recording"
      BY <2>1, <2>2, <3>2 DEF OneAtATime, PlaceOf
    <3>4. PICK m \in Presses : CaptureStop(m) \in mic.pending
      BY <2>1, <2>5, <3>3 DEF MicrophoneFollowsPhase
    <3>5. releasing[m] = "stopping" /\ m # n
      BY <3>2, <3>4, VoiceParts DEF WaitsForAnswer
    <3> QED BY <1>11, <2>2, <3>5, OnlyOne DEF Ended
  <2> QED BY <2>2, <2>3, <2>4, <2>5
<1>12. ASSUME Orderly PROVE OneAtATime' /\ AnswersComeOnce' /\ CuesAlternate' /\ SessionKept'
  <2>1. OneAtATime /\ AnswersComeOnce /\ CuesAlternate /\ SessionKept
    BY <1>12, VoiceParts
  <2>2. \A m \in Presses : /\ pressing[m] \notin Asking \cup {"capturing"}
                           /\ releasing'[m] \in Ended \cup {"none"}
    BY <1>3, <1>11, <1>12, OnlyOne
  <2>3. OneAtATime'
    BY <1>0, <1>1, <1>2, <1>11, <1>12, <2>2 DEF OneAtATime, Asking, Ended
  <2>4. AnswersComeOnce'
    BY <1>12, <2>1, MicRequests DEF AnswersComeOnce
  <2>5. CuesAlternate'
    BY <1>0, <1>1, <1>12, <2>1 DEF CuesAlternate
  <2>6. SessionKept'
    <3>1. end = "done" => manager.active # n
      BY <1>11, <1>12, <2>1 DEF SessionKept, CallFailed
    <3>2. end # "done" => CallFailed(n)'
      BY <1>3 DEF CallFailed, Ended
    <3>3. \A m \in Presses : m # n /\ CallFailed(m) => CallFailed(m)'
      BY <1>2, <1>3 DEF CallFailed
    <3> QED BY <1>2, <1>11, <1>12, <2>1, <3>1, <3>2, <3>3 DEF SessionKept
  <2> QED BY <2>3, <2>4, <2>5, <2>6
<1>13. ASSUME MicOrderly PROVE MicClosed' /\ MicrophoneFollowsPhase'
  <2>1. ~micHelper.capturing /\ MicClosed
    BY <1>11, <1>13, VoiceParts DEF MicOrderly
  <2> QED BY <1>2, <2>1 DEF MicClosed, MicrophoneFollowsPhase
<1> QED BY <1>0, <1>5, <1>6, <1>7, <1>8, <1>9, <1>10, <1>12, <1>13 DEF VoiceInv, OneSessionInv, MicrophoneInv

\* The key goes down.
LEMMA PressStep ==
    ASSUME DictationTypeOK, VoiceInv, HandlePress
    PROVE  DictationTypeOK' /\ VoiceInv'
<1>1. mic \in ClientType(DictationRequests) /\ micHelper \in MicFields
  BY VoiceTyped
<1>2. mic' \in ClientType(DictationRequests) /\ SameWay(mic, mic')
  BY <1>1, EventRead DEF HandlePress, ReadsEvent
<1>3. CASE voice.phase = "idle"
  BY <1>3, PressBegins
<1>4. CASE voice.phase # "idle"
  <2>1. UNCHANGED <<voice, pressing, hud, cues, releasing, partials, micHelper, manager, faulted>>
    BY <1>4 DEF HandlePress
  <2> QED BY <1>1, <1>2, <2>1, IgnoredStep
<1> QED BY <1>3, <1>4

\* The key goes up.
LEMMA ReleaseStep ==
    ASSUME DictationTypeOK, VoiceInv, HandleRelease
    PROVE  DictationTypeOK' /\ VoiceInv'
<1>1. mic \in ClientType(DictationRequests) /\ micHelper \in MicFields /\ voice \in VoiceFields
  BY VoiceTyped
<1>2. PICK c : c = LineRead(mic)
  OBVIOUS
<1>3. c \in ClientType(DictationRequests) /\ SameWay(mic, c)
  BY <1>1, <1>2, EventRead DEF HandleRelease, ReadsEvent
<1>4. UNCHANGED <<micHelper, manager, faulted>>
  BY DEF HandleRelease
<1>5. CASE voice.phase # "recording" \/ voice.session = NoPress
  <2>1. mic' = c /\ UNCHANGED orchestratorVars
    BY <1>2, <1>5 DEF HandleRelease
  <2> QED BY <1>1, <1>3, <1>4, <2>1, IgnoredStep DEF orchestratorVars
<1>6. CASE voice.phase = "recording" /\ voice.session # NoPress
  <2>1. PICK n \in Presses : voice.session = n
    BY <1>1, <1>6 DEF VoiceFields
  <2>2. CASE CanSend(c)
    <3>1. /\ SetPhase("processing") /\ releasing' = [releasing EXCEPT ![n] = "stopping"]
          /\ mic' = Send(c, CaptureStop(n)) /\ UNCHANGED <<pressing, hud, partials>>
      BY <1>2, <1>6, <2>1, <2>2 DEF HandleRelease
    <3>2. c.process
      BY <2>2 DEF CanSend
    <3> QED BY <1>3, <1>4, <1>6, <2>1, <3>1, <3>2, ReleaseBegins
  <2>3. CASE ~CanSend(c)
    <3>1. ReleaseEnds(n, "threw") /\ mic' = c
      BY <1>2, <1>6, <2>1, <2>3 DEF HandleRelease
    <3>2. ~mic.process /\ mic.pending = {} /\ mic'.process = mic.process
      BY <1>3, <2>3, <3>1, VoiceParts DEF SameWay, CanSend, DeadMicIsSilent
    <3>3. /\ \A r : Piped(mic', r) <=> Piped(mic, r)
          /\ \A r, p : Told(mic', Reply(r, p)) => Told(mic, Reply(r, p))
          /\ \A r : OnItsWay(mic', r) <=> OnItsWay(mic, r)
          /\ \A a, b : Ahead(mic', a, b) => Ahead(mic, a, b)
          /\ mic'.pending = mic.pending \ {CaptureStop(n)}
      BY <1>3, <3>1, <3>2, SameWayKeeps DEF SameWay
    <3>4. releasing[n] = "none" /\ "threw" \in Ended
      BY <1>6, <2>1, VoiceParts DEF ReleasedOnce, Ended
    <3> QED BY <1>3, <1>4, <1>6, <2>1, <3>1, <3>2, <3>3, <3>4, ReleaseEndsStep
  <2> QED BY <2>2, <2>3
<1> QED BY <1>5, <1>6

\* The start request was answered, or failed.
LEMMA StartAnswerStep ==
    ASSUME DictationTypeOK, VoiceInv, NEW n \in Presses, StartFetched(n) \/ StartFetchFailed(n)
    PROVE  DictationTypeOK' /\ VoiceInv'
<1>1. CASE StartFetched(n) /\ CanSend(mic)
  BY <1>1, CaptureAsked
<1>2. CASE StartFetched(n) /\ ~CanSend(mic)
  <2>1. PressFails(n) /\ pressing[n] \in Asking /\ UNCHANGED <<mic, micHelper, manager, faulted>>
    BY <1>2 DEF StartFetched, Asking
  <2> QED BY <2>1, PressFailsStep
<1>3. CASE StartFetchFailed(n)
  BY <1>3, PressFailsStep DEF StartFetchFailed, Asking
<1> QED BY <1>1, <1>2, <1>3

\* The dictation ends: its text was typed, there is none, or it could not be had or sent.
LEMMA DictationEndStep ==
    ASSUME DictationTypeOK, VoiceInv, NEW n \in Presses,
           (StopFetched(n) /\ ~CanSend(mic)) \/ StopFetchFailed(n) \/ StopRefused(n) \/ Injected(n)
    PROVE  DictationTypeOK' /\ VoiceInv'
<1>0. mic \in ClientType(DictationRequests) /\ Ended = {"done", "nothing", "threw"}
  BY VoiceTyped DEF Ended
<1>1. CASE (StopFetched(n) /\ ~CanSend(mic)) \/ StopFetchFailed(n)
  <2>1. /\ ReleaseEnds(n, "threw") /\ releasing[n] \in {"final", "error", "failed"}
        /\ UNCHANGED <<mic, micHelper, manager, faulted>>
    BY <1>1 DEF StopFetched, StopFetchFailed
  <2>2. InjectText(n) \notin mic.pending /\ ~OnItsWay(mic, InjectText(n))
    BY <2>1, VoiceParts DEF WaitsForAnswer, TypedOnce
  <2>3. mic.pending = mic.pending \ {InjectText(n)}
    BY <2>2
  <2> QED BY <1>0, <2>1, <2>2, <2>3, ReleaseEndsStep
<1>2. CASE StopRefused(n) \/ Injected(n)
  <2>1. PICK q \in {CaptureStop(n), InjectText(n), InjectNothing(n)}, o \in {"ok", "error"}, end \in Ended :
          /\ MicReads(q, o) /\ ReleaseEnds(n, end) /\ UNCHANGED <<micHelper, manager, faulted>>
          /\ q = CaptureStop(n) => o = "error" /\ end = "threw"
          /\ end = "done" => q = InjectText(n)
          /\ end = "nothing" => q = InjectNothing(n)
    <3>1. CASE StopRefused(n)
      BY <1>0, <3>1 DEF StopRefused
    <3>2. CASE Injected(n)
      BY <1>0, <3>2, MicRequests DEF Injected
    <3> QED BY <1>2, <3>1, <3>2
  <2>2. /\ mic' \in ClientType(DictationRequests) /\ mic'.process = mic.process
        /\ mic'.pending = mic.pending \ {q} /\ q \in mic.pending /\ Told(mic, Reply(q, o))
        /\ \A r : Piped(mic', r) <=> Piped(mic, r)
        /\ \A r, p : Told(mic', Reply(r, p)) => Told(mic, Reply(r, p))
        /\ \A r : OnItsWay(mic', r) => OnItsWay(mic, r)
        /\ \A r : r # q => (OnItsWay(mic, r) => OnItsWay(mic', r))
        /\ \A a, b : Ahead(mic', a, b) => Ahead(mic, a, b)
        /\ \A b : OnItsWay(mic', b) => Ahead(mic, q, b)
    BY <2>1, MicReadsEffect
  <2>3. /\ q = CaptureStop(n) => releasing[n] = "stopping"
        /\ q = InjectText(n) => releasing[n] = "injecting"
        /\ q = InjectNothing(n) => releasing[n] = "blank"
    BY <2>2, VoiceParts DEF WaitsForAnswer
  <2>4. mic.process /\ (Orderly => ~OnItsWay(mic', q))
    BY <2>2, MicRequests, VoiceParts DEF AnswersComeOnce, DeadMicIsSilent
  <2>5. ASSUME q = CaptureStop(n) PROVE (Orderly => pressing[n] = "done") /\ ~MicOrderly
    <3>1. ~MicOrderly
      BY <2>1, <2>2, <2>5, VoiceParts DEF MicClosed
    <3>2. Orderly => CaptureStart(n) \notin mic.pending
      BY <2>2, <2>4, <2>5, MicRequests, VoiceParts DEF AnswersComeOnce
    <3>3. Orderly => voice.session = n
      BY <2>3, <2>5, VoiceParts DEF OneAtATime, Ended
    <3> QED BY <3>1, <3>2, <3>3, OnlyOne, VoiceParts DEF WaitsForAnswer
  <2> QED BY <2>1, <2>2, <2>3, <2>4, <2>5, MicRequests, ReleaseEndsStep
<1> QED BY <1>1, <1>2

\* The helper reports the key.
LEMMA KeyReported ==
    ASSUME DictationTypeOK, VoiceInv, MicKey
    PROVE  DictationTypeOK' /\ VoiceInv'
<1>1. mic \in ClientType(DictationRequests) /\ micHelper \in MicFields
  BY VoiceTyped
<1>2. PICK k \in {"press", "release"} : mic' = Printed(mic, HotkeyEvent(k))
  BY DEF MicKey
<1>3. mic' \in ClientType(DictationRequests) /\ SameWay(mic, mic')
  BY <1>1, <1>2, EventPrinted
<1>4. /\ micHelper' \in MicFields /\ micHelper'.alive = micHelper.alive
      /\ micHelper'.capturing = micHelper.capturing /\ micHelper'.injected = micHelper.injected
  BY <1>1 DEF MicKey, MicFields
<1> QED BY <1>3, <1>4, IgnoredStep DEF MicKey, orchestratorVars

\* An answer nobody waits for.
LEMMA LateStep ==
    ASSUME DictationTypeOK, VoiceInv, LateAnswer
    PROVE  DictationTypeOK' /\ VoiceInv'
<1>1. /\ mic \in ClientType(DictationRequests) /\ mic.lines # <<>> /\ ~IsAnswer(mic)
      /\ NextLine(mic).kind = "reply" /\ mic' = LineRead(mic)
      /\ UNCHANGED <<voice, pressing, releasing, hud, cues, partials, micHelper, manager, faulted>>
      /\ (Orderly' <=> Orderly) /\ (MicOrderly' <=> MicOrderly)
  BY VoiceTyped DEF LateAnswer, orchestratorVars, Orderly, MicOrderly
<1>2. PICK q \in DictationRequests, o \in {"ok", "error"} : NextLine(mic) = Reply(q, o)
  BY <1>1, LineSays
<1>3. /\ mic' \in ClientType(DictationRequests) /\ mic'.process = mic.process
      /\ mic'.pending = mic.pending \ {q} /\ q \notin mic.pending
      /\ \A r : Piped(mic', r) <=> Piped(mic, r)
      /\ \A r, p : Told(mic', Reply(r, p)) => Told(mic, Reply(r, p))
      /\ \A r : Answered(mic', r) => Answered(mic, r)
      /\ \A r : OnItsWay(mic', r) => OnItsWay(mic, r)
      /\ \A r : r # q => (OnItsWay(mic, r) => OnItsWay(mic', r))
      /\ \A a, b : Ahead(mic', a, b) => Ahead(mic, a, b)
  BY <1>1, <1>2, AnswerRead
<1>4. mic'.pending = mic.pending
  BY <1>3
<1>5. DictationTypeOK'
  BY <1>1, <1>3 DEF DictationTypeOK
<1>6. DeadMicIsSilent' /\ ReleasedOnce' /\ WaitsForAnswer' /\ DictationIsShown'
  BY <1>1, <1>3, <1>4, VoiceParts DEF DeadMicIsSilent, ReleasedOnce, WaitsForAnswer, DictationIsShown
<1>7. TypedOnce' /\ InjectedIsFinal'
  BY <1>1, <1>3, VoiceParts DEF TypedOnce, Typed, InjectedIsFinal
<1>8. Orderly => OneAtATime' /\ CuesAlternate'
  BY <1>1, VoiceParts DEF OneAtATime, Newest, PlaceOf, CuesAlternate
<1>9. Orderly => AnswersComeOnce'
  BY <1>1, <1>3, <1>4, VoiceParts DEF AnswersComeOnce
<1>10. Orderly => SessionKept'
  BY <1>1, VoiceParts DEF SessionKept, CallFailed
<1>11. MicOrderly => MicClosed' /\ MicrophoneFollowsPhase'
  BY <1>1, <1>3, <1>4, VoiceParts DEF MicClosed, MicrophoneFollowsPhase
<1> QED BY <1>1, <1>5, <1>6, <1>7, <1>8, <1>9, <1>10, <1>11 DEF VoiceInv, OneSessionInv, MicrophoneInv

\* The backend answers, or loses, the request that starts a session, or its answer is lost.
LEMMA PressAnswered ==
    ASSUME DictationTypeOK, VoiceInv, NEW n \in Presses, NEW p \in {"opened", "refused", "failed"},
           pressing[n] \in {"fetching", "opened", "refused"}, pressing' = [pressing EXCEPT ![n] = p],
           p # "failed" => pressing[n] = "fetching",
           manager' \in ManagerFields, manager'.final = manager.final,
           manager'.active = manager.active \/ (manager'.active = n /\ p = "opened"),
           faulted \subseteq faulted', faulted' \subseteq FaultKinds \cup {"overlap"},
           UNCHANGED <<voice, releasing, hud, cues, partials, mic, micHelper>>
    PROVE  DictationTypeOK' /\ VoiceInv'
<1>0. /\ pressing \in [Presses -> PressPlaces] /\ NoPress \notin Presses
      /\ (Orderly' => Orderly) /\ (MicOrderly' => MicOrderly)
  BY VoiceTyped, OrderlyBefore, DictationAssumption
<1>1. /\ pressing' \in [Presses -> PressPlaces] /\ pressing'[n] = p
      /\ \A m \in Presses \ {n} : pressing'[m] = pressing[m]
      /\ n \in voice.drawn /\ releasing[n] = "none" /\ voice.session # n
  BY <1>0, VoiceParts DEF PressPlaces, Asking, ReleasedOnce
<1>2. DictationTypeOK'
  BY <1>1 DEF DictationTypeOK, PressPlaces, Asking, ManagerFields
<1>3. DeadMicIsSilent' /\ DictationIsShown' /\ WaitsForAnswer'
  BY <1>1, VoiceParts DEF DeadMicIsSilent, DictationIsShown, WaitsForAnswer
<1>4. ReleasedOnce'
  BY <1>1, VoiceParts DEF ReleasedOnce
<1>5. TypedOnce' /\ InjectedIsFinal'
  BY <1>0, VoiceParts DEF TypedOnce, Typed, InjectedIsFinal
<1>6. ASSUME Orderly' PROVE OneAtATime' /\ AnswersComeOnce' /\ CuesAlternate' /\ SessionKept'
  <2>1. OneAtATime /\ AnswersComeOnce /\ CuesAlternate /\ SessionKept
    BY <1>0, <1>6, VoiceParts
  <2>2. \A m \in Presses : Newest(m)' <=> Newest(m)
    BY DEF Newest
  <2>3. OneAtATime'
    BY <1>1, <2>1, <2>2 DEF OneAtATime, PlaceOf
  <2>4. SessionKept'
    BY <1>1, <2>1 DEF SessionKept, CallFailed
  <2> QED BY <1>0, <2>1, <2>3, <2>4 DEF AnswersComeOnce, CuesAlternate
<1>7. ASSUME MicOrderly' PROVE MicClosed' /\ MicrophoneFollowsPhase'
  BY <1>0, <1>1, <1>7, VoiceParts DEF MicClosed, MicrophoneFollowsPhase
<1> QED BY <1>2, <1>3, <1>4, <1>5, <1>6, <1>7 DEF VoiceInv, OneSessionInv, MicrophoneInv

\* The backend answers the request that stops a session, with a text or an error, or the answer is lost.
LEMMA ReleaseAnswered ==
    ASSUME DictationTypeOK, VoiceInv, NEW n \in Presses, NEW p \in {"final", "error", "failed"},
           releasing[n] \in {"finishing", "final", "error"}, releasing' = [releasing EXCEPT ![n] = p],
           manager' \in ManagerFields, manager.final \subseteq manager'.final,
           p = "final" => n \in manager'.final /\ manager'.active # n,
           \A m \in Presses : manager'.active = m => manager.active = m,
           faulted \subseteq faulted', faulted' \subseteq FaultKinds \cup {"overlap"},
           UNCHANGED <<voice, pressing, hud, cues, partials, mic, micHelper>>
    PROVE  DictationTypeOK' /\ VoiceInv'
<1>0. /\ releasing \in [Presses -> ReleasePlaces] /\ NoPress \notin Presses
      /\ (Orderly' => Orderly) /\ (MicOrderly' => MicOrderly)
  BY VoiceTyped, OrderlyBefore, DictationAssumption
<1>1. /\ releasing' \in [Presses -> ReleasePlaces] /\ releasing'[n] = p
      /\ \A m \in Presses \ {n} : releasing'[m] = releasing[m]
  BY <1>0 DEF ReleasePlaces
<1>2. DictationTypeOK'
  BY <1>1 DEF DictationTypeOK, ReleasePlaces, Ended, ManagerFields
<1>3. DeadMicIsSilent' /\ DictationIsShown' /\ WaitsForAnswer'
  BY <1>1, VoiceParts DEF DeadMicIsSilent, DictationIsShown, WaitsForAnswer
<1>4. ReleasedOnce'
  BY <1>1, VoiceParts DEF ReleasedOnce
<1>5. TypedOnce'
  <2> SUFFICES ASSUME NEW m \in Presses
               PROVE  /\ releasing'[m] \in {"final", "injecting"} => m \in manager'.final
                      /\ OnItsWay(mic, InjectText(m)) \/ Typed(m) =>
                            releasing'[m] \in {"injecting", "done", "threw"} /\ m \in manager'.final
                      /\ Piped(mic, InjectText(m)) => ~Typed(m)
                      /\ ~Ahead(mic, InjectText(m), InjectText(m))
    BY DEF TypedOnce, Typed
  <2> QED BY <1>1, VoiceParts DEF TypedOnce
<1>6. InjectedIsFinal'
  BY <1>0, VoiceParts DEF InjectedIsFinal
<1>7. ASSUME Orderly' PROVE OneAtATime' /\ AnswersComeOnce' /\ CuesAlternate' /\ SessionKept'
  <2>1. OneAtATime /\ AnswersComeOnce /\ CuesAlternate /\ SessionKept
    BY <1>0, <1>7, VoiceParts
  <2>2. \A m \in Presses : Newest(m)' <=> Newest(m)
    BY DEF Newest
  <2>3. OneAtATime'
    BY <1>1, <2>1, <2>2 DEF OneAtATime, PlaceOf, Ended
  <2>4. SessionKept'
    BY <1>1, <2>1 DEF SessionKept, CallFailed
  <2> QED BY <1>0, <2>1, <2>3, <2>4 DEF AnswersComeOnce, CuesAlternate
<1>8. ASSUME MicOrderly' PROVE MicClosed' /\ MicrophoneFollowsPhase'
  BY <1>0, <1>8, VoiceParts DEF MicClosed, MicrophoneFollowsPhase
<1> QED BY <1>2, <1>3, <1>4, <1>5, <1>6, <1>7, <1>8 DEF VoiceInv, OneSessionInv, MicrophoneInv

\* The backend and the ways to it.
LEMMA ManagerStep ==
    ASSUME DictationTypeOK, VoiceInv, NEW n \in Presses,
           ManagerStart(n) \/ ManagerStop(n) \/ ManagerStopThrows(n) \/ RequestFails(n)
    PROVE  DictationTypeOK' /\ VoiceInv'
<1>0. manager \in ManagerFields /\ faulted \subseteq FaultKinds \cup {"overlap"} /\ NoPress \notin Presses
  BY VoiceTyped, DictationAssumption
<1>1. CASE ManagerStart(n)
  <2>1. CASE manager.active = NoPress
    <3>1. /\ pressing[n] = "fetching" /\ pressing' = [pressing EXCEPT ![n] = "opened"]
          /\ manager' = [manager EXCEPT !.active = n, !.table = manager.table \cup {n}]
      BY <1>1, <2>1 DEF ManagerStart
    <3>2. manager' \in ManagerFields /\ manager'.final = manager.final /\ manager'.active = n
      BY <1>0, <3>1 DEF ManagerFields
    <3> QED BY <1>0, <1>1, <3>1, <3>2, PressAnswered DEF ManagerStart
  <2>2. CASE manager.active # NoPress
    <3>1. pressing[n] = "fetching" /\ pressing' = [pressing EXCEPT ![n] = "refused"] /\ UNCHANGED manager
      BY <1>1, <2>2 DEF ManagerStart
    <3> QED BY <1>0, <1>1, <3>1, PressAnswered DEF ManagerStart
  <2> QED BY <2>1, <2>2
<1>2. CASE ManagerStop(n)
  <2>1. /\ releasing[n] = "finishing" /\ releasing' = [releasing EXCEPT ![n] = "final"]
        /\ manager' = Finalised(manager, n)
        /\ UNCHANGED <<voice, pressing, hud, cues, partials, mic, micHelper, faulted>>
    BY <1>2 DEF ManagerStop
  <2>2. /\ manager' \in ManagerFields /\ manager'.final = manager.final \cup {n}
        /\ manager'.active = IF manager.active = n THEN NoPress ELSE manager.active
    BY <1>0, <2>1 DEF Finalised, ManagerFields
  <2>3. /\ manager.final \subseteq manager'.final /\ n \in manager'.final /\ manager'.active # n
        /\ \A m \in Presses : manager'.active = m => manager.active = m
    BY <1>0, <2>2
  <2> QED BY <1>0, <2>1, <2>2, <2>3, ReleaseAnswered
<1>3. CASE ManagerStopThrows(n)
  <2>1. PICK body \in {"error", "failed"} :
            releasing[n] = "finishing" /\ releasing' = [releasing EXCEPT ![n] = body]
    BY <1>3 DEF ManagerStopThrows
  <2>2. /\ faulted' = faulted \cup {"stop"}
        /\ UNCHANGED <<voice, pressing, hud, cues, partials, mic, micHelper, manager>>
    BY <1>3 DEF ManagerStopThrows, MayFault
  <2>3. faulted' \subseteq FaultKinds \cup {"overlap"}
    BY <1>0, <2>2 DEF FaultKinds
  <2> QED BY <1>0, <2>1, <2>2, <2>3, ReleaseAnswered
<1>4. CASE RequestFails(n)
  <2>1. /\ faulted' = faulted \cup {"request"}
        /\ UNCHANGED <<voice, hud, cues, partials, mic, micHelper, manager>>
    BY <1>4 DEF RequestFails, MayFault
  <2>2. faulted' \subseteq FaultKinds \cup {"overlap"}
    BY <1>0, <2>1 DEF FaultKinds
  <2>3. CASE /\ pressing[n] \in {"fetching", "opened", "refused"}
             /\ pressing' = [pressing EXCEPT ![n] = "failed"] /\ UNCHANGED releasing
    BY <1>0, <2>1, <2>2, <2>3, PressAnswered
  <2>4. CASE /\ releasing[n] \in {"finishing", "final", "error"}
             /\ releasing' = [releasing EXCEPT ![n] = "failed"] /\ UNCHANGED pressing
    BY <1>0, <2>1, <2>2, <2>4, ReleaseAnswered
  <2> QED BY <1>4, <2>3, <2>4 DEF RequestFails
<1> QED BY <1>1, <1>2, <1>3, <1>4

\* A dictation of the user interface, the end of a stream, the timer of the overlay.
LEMMA BesideStep ==
    ASSUME DictationTypeOK, VoiceInv, RendererDictates \/ HudHides \/ \E n \in Presses : PartialsEnd(n)
    PROVE  DictationTypeOK' /\ VoiceInv'
<1>0. /\ manager \in ManagerFields /\ faulted \subseteq FaultKinds \cup {"overlap"} /\ hud \in OverlayType
      /\ voice \in VoiceFields /\ partials \subseteq Presses /\ Renderer \notin Presses /\ NoPress \notin Presses
  BY VoiceTyped, DictationAssumption
<1>1. /\ voice' \in VoiceFields /\ voice'.phase = voice.phase /\ voice'.session = voice.session
      /\ voice'.drawn = voice.drawn /\ partials' \subseteq Presses /\ hud' \in OverlayType
      /\ hud' = hud \/ hud.hideTimer
      /\ manager' \in ManagerFields /\ manager'.final = manager.final
      /\ \A n \in Presses : manager'.active = n => manager.active = n
      /\ faulted \subseteq faulted' /\ faulted' \subseteq FaultKinds \cup {"overlap"}
      /\ UNCHANGED <<pressing, releasing, cues, mic, micHelper>>
  <2>1. CASE RendererDictates
    <3>1. /\ faulted' = faulted \cup {"renderer"}
          /\ UNCHANGED <<voice, pressing, releasing, hud, cues, partials, mic, micHelper>>
      BY <2>1 DEF RendererDictates, MayFault, orchestratorVars
    <3>2. /\ manager' \in ManagerFields /\ manager'.final = manager.final
          /\ manager'.active \in {NoPress, Renderer}
      BY <1>0, <2>1 DEF RendererDictates, ManagerFields
    <3> QED BY <1>0, <3>1, <3>2 DEF FaultKinds
  <2>2. CASE HudHides
    BY <1>0, <2>2, OverlayChanged DEF HudHides
  <2>3. ASSUME NEW n \in Presses, PartialsEnd(n)
        PROVE  /\ partials' = partials \ {n} /\ voice' = [voice EXCEPT !.sse = NoPress]
               /\ UNCHANGED <<pressing, releasing, hud, cues, mic, micHelper, manager, faulted>>
    BY <2>3 DEF PartialsEnd
  <2>4. CASE \E n \in Presses : PartialsEnd(n)
    <3>1. PICK n \in Presses : PartialsEnd(n)
      BY <2>4
    <3>2. /\ partials' = partials \ {n} /\ voice' = [voice EXCEPT !.sse = NoPress]
          /\ UNCHANGED <<pressing, releasing, hud, cues, mic, micHelper, manager, faulted>>
      BY <2>3, <3>1
    <3>3. /\ voice' \in VoiceFields /\ voice'.phase = voice.phase /\ voice'.session = voice.session
          /\ voice'.drawn = voice.drawn
      BY <1>0, <3>2, VoiceChanged DEF VoiceFields
    <3> QED BY <1>0, <3>2, <3>3
  <2> QED BY <2>1, <2>2, <2>4
<1>2. DictationTypeOK'
  BY <1>1 DEF DictationTypeOK, VoiceFields, ManagerFields
<1>3. DeadMicIsSilent' /\ ReleasedOnce' /\ WaitsForAnswer' /\ DictationIsShown'
  BY <1>1, VoiceParts DEF DeadMicIsSilent, ReleasedOnce, WaitsForAnswer, DictationIsShown
<1>4. (Orderly' => Orderly) /\ (MicOrderly' => MicOrderly)
  BY <1>1, OrderlyBefore
<1>5. TypedOnce' /\ InjectedIsFinal'
  BY <1>1, <1>4, VoiceParts DEF TypedOnce, Typed, InjectedIsFinal
<1>6. Orderly' => OneAtATime' /\ AnswersComeOnce' /\ CuesAlternate'
  BY <1>1, <1>4, VoiceParts DEF OneAtATime, Newest, PlaceOf, AnswersComeOnce, CuesAlternate
<1>7. Orderly' => SessionKept'
  BY <1>1, <1>4, VoiceParts DEF SessionKept, CallFailed
<1>8. MicOrderly' => MicClosed' /\ MicrophoneFollowsPhase'
  BY <1>1, <1>4, VoiceParts DEF MicClosed, MicrophoneFollowsPhase
<1> QED BY <1>2, <1>3, <1>5, <1>6, <1>7, <1>8 DEF VoiceInv, OneSessionInv, MicrophoneInv

\* The microphone is closed: the backend is asked to end the session.
LEMMA StopAnsweredStep ==
    ASSUME DictationTypeOK, VoiceInv, NEW n \in Presses, CaptureStopped(n)
    PROVE  DictationTypeOK' /\ VoiceInv'
<1>0. releasing \in [Presses -> ReleasePlaces] /\ pressing \in [Presses -> PressPlaces] /\ NoPress \notin Presses
  BY VoiceTyped, DictationAssumption
<1>1. /\ MicReads(CaptureStop(n), "ok") /\ releasing' = [releasing EXCEPT ![n] = "finishing"]
      /\ UNCHANGED <<voice, pressing, hud, cues, partials, micHelper, manager, faulted>>
      /\ (Orderly' <=> Orderly) /\ (MicOrderly' <=> MicOrderly)
  BY DEF CaptureStopped, Orderly, MicOrderly
<1>2. /\ mic' \in ClientType(DictationRequests) /\ mic'.process = mic.process
      /\ mic'.pending = mic.pending \ {CaptureStop(n)} /\ CaptureStop(n) \in mic.pending
      /\ Answered(mic, CaptureStop(n))
      /\ \A r : Piped(mic', r) <=> Piped(mic, r)
      /\ \A r, p : Told(mic', Reply(r, p)) => Told(mic, Reply(r, p))
      /\ \A r : Answered(mic', r) => Answered(mic, r)
      /\ \A r : OnItsWay(mic', r) => OnItsWay(mic, r)
      /\ \A r : r # CaptureStop(n) => (OnItsWay(mic, r) => OnItsWay(mic', r))
      /\ \A a, b : Ahead(mic', a, b) => Ahead(mic, a, b)
      /\ \A b : OnItsWay(mic', b) => Ahead(mic, CaptureStop(n), b)
  BY <1>1, MicReadsEffect
<1>3. releasing[n] = "stopping" /\ mic.process
  BY <1>2, VoiceParts DEF WaitsForAnswer, DeadMicIsSilent
<1>4. /\ releasing' \in [Presses -> ReleasePlaces] /\ releasing'[n] = "finishing"
      /\ \A m \in Presses \ {n} : releasing'[m] = releasing[m]
      /\ pressing[n] \notin Asking \cup {"none"}
  BY <1>0, <1>1, <1>3, VoiceParts DEF ReleasePlaces, ReleasedOnce, Asking
<1>5. DictationTypeOK'
  BY <1>1, <1>2, <1>4 DEF DictationTypeOK, ReleasePlaces, Ended
<1>6. DeadMicIsSilent' /\ DictationIsShown'
  BY <1>1, <1>2, VoiceParts DEF DeadMicIsSilent, DictationIsShown
<1>7. ReleasedOnce'
  BY <1>1, <1>3, <1>4, VoiceParts DEF ReleasedOnce, Asking
<1>8. WaitsForAnswer'
  BY <1>1, <1>2, <1>4, MicRequests, VoiceParts DEF WaitsForAnswer
<1>9. TypedOnce' /\ InjectedIsFinal'
  BY <1>1, <1>2, <1>3, <1>4, VoiceParts DEF TypedOnce, Typed, InjectedIsFinal
<1>10. ASSUME Orderly PROVE OneAtATime' /\ AnswersComeOnce' /\ CuesAlternate' /\ SessionKept'
  <2>1. OneAtATime /\ AnswersComeOnce /\ CuesAlternate /\ SessionKept
    BY <1>10, VoiceParts
  <2>2. \A m \in Presses : Newest(m)' <=> Newest(m)
    BY <1>1 DEF Newest
  <2>3. pressing[n] = "done"
    <3>1. CaptureStart(n) \in mic.pending => OnItsWay(mic, CaptureStart(n))
      BY <2>1 DEF AnswersComeOnce
    <3>2. CaptureStart(n) # CaptureStop(n) /\ ~Ahead(mic, CaptureStop(n), CaptureStart(n))
      BY <1>3, <2>1, MicRequests DEF AnswersComeOnce
    <3>3. CaptureStart(n) \notin mic.pending
      BY <1>2, <3>1, <3>2
    <3>4. voice.session = n
      BY <1>3, <2>1 DEF OneAtATime, Ended
    <3> QED BY <1>10, <3>3, <3>4, OnlyOne, VoiceParts DEF WaitsForAnswer
  <2>4. OneAtATime'
    BY <1>1, <1>3, <1>4, <2>1, <2>2, <2>3 DEF OneAtATime, PlaceOf, Ended
  <2>5. ~OnItsWay(mic', CaptureStop(n))
    BY <1>2, <1>3, <2>1, MicRequests DEF AnswersComeOnce
  <2>6. AnswersComeOnce'
    BY <1>1, <1>2, <2>1, <2>5, MicRequests DEF AnswersComeOnce
  <2>7. CuesAlternate' /\ SessionKept'
    BY <1>1, <1>3, <1>4, <2>1 DEF CuesAlternate, SessionKept, CallFailed
  <2> QED BY <2>4, <2>6, <2>7
<1>11. ASSUME MicOrderly PROVE MicClosed' /\ MicrophoneFollowsPhase'
  <2>1. MicClosed /\ ~micHelper.capturing
    BY <1>2, <1>3, <1>11, VoiceParts DEF MicClosed
  <2> QED BY <1>1, <1>2, <2>1 DEF MicClosed, MicrophoneFollowsPhase
<1> QED BY <1>1, <1>5, <1>6, <1>7, <1>8, <1>9, <1>10, <1>11 DEF VoiceInv, OneSessionInv, MicrophoneInv

\* The stop was answered: what there is of a text is to be typed.
LEMMA TextSentStep ==
    ASSUME DictationTypeOK, VoiceInv, NEW n \in Presses, StopFetched(n), CanSend(mic)
    PROVE  DictationTypeOK' /\ VoiceInv'
<1>0. /\ voice \in VoiceFields /\ releasing \in [Presses -> ReleasePlaces] /\ cues \in Cue \X Cue
      /\ mic \in ClientType(DictationRequests) /\ NoPress \notin Presses /\ mic.process
      /\ releasing[n] \in {"final", "error"} /\ (Orderly' <=> Orderly) /\ (MicOrderly' <=> MicOrderly)
  BY VoiceTyped, DictationAssumption DEF StopFetched, CanSend, Orderly, MicOrderly
<1>1. PICK q \in {InjectText(n), InjectNothing(n)}, place \in {"injecting", "blank"} :
        /\ releasing[n] = "final" => q = InjectText(n) /\ place = "injecting"
        /\ releasing[n] = "error" => q = InjectNothing(n) /\ place = "blank"
        /\ SetPhase("injecting") /\ mic' = Send(mic, q)
        /\ releasing' = [releasing EXCEPT ![n] = place]
        /\ UNCHANGED <<pressing, hud, partials, micHelper, manager, faulted>>
  <2>1. /\ SetPhase("injecting") /\ mic' = Send(mic, TextOf(n))
        /\ releasing' = [releasing EXCEPT ![n] = IF TextOf(n) = InjectText(n) THEN "injecting" ELSE "blank"]
        /\ UNCHANGED <<pressing, hud, partials, micHelper, manager, faulted>>
    BY DEF StopFetched
  <2>2. /\ releasing[n] = "final" => TextOf(n) = InjectText(n)
        /\ releasing[n] = "error" => TextOf(n) = InjectNothing(n)
        /\ InjectText(n) # InjectNothing(n)
    BY MicRequests DEF TextOf
  <2> QED BY <1>0, <2>1, <2>2
<1>2. /\ mic' \in ClientType(DictationRequests)
      /\ mic'.process = mic.process /\ mic'.pending = mic.pending \cup {q}
      /\ \A r : Piped(mic', r) <=> Piped(mic, r) \/ r = q
      /\ \A l : Told(mic', l) <=> Told(mic, l)
      /\ \A r : OnItsWay(mic', r) <=> OnItsWay(mic, r) \/ r = q
      /\ \A a, b : Ahead(mic', a, b) <=> Ahead(mic, a, b) \/ (b = q /\ OnItsWay(mic, a))
  <2>1. PICK r \in DictationRequests : r = q
    BY MicRequests
  <2>2. mic' = Send(mic, r) /\ mic \in ClientType(DictationRequests)
    BY <1>0, <1>1, <2>1
  <2> QED BY <2>1, <2>2, SendEffect
<1>3. \A r : Answered(mic', r) <=> Answered(mic, r)
  BY <1>2 DEF Answered
<1>4. /\ voice' \in VoiceFields /\ voice'.phase = "injecting" /\ voice'.session = voice.session
      /\ voice'.drawn = voice.drawn /\ cues' \in Cue \X Cue
      /\ voice.phase = "processing" => cues'[1] = cues[2] /\ cues'[2] = "done"
  <2>1. voice' = [voice EXCEPT !.phase = "injecting"] /\ cues' = Played(cues, SelectCue(voice.phase, "injecting"))
    BY <1>1 DEF SetPhase
  <2>2. "injecting" \in Phases /\ voice.phase \in Phases
    BY <1>0 DEF Phases, VoiceFields
  <2>3. voice' \in VoiceFields
    BY <1>0, <2>1, <2>2, VoiceChanged
  <2>4. cues' \in Cue \X Cue /\ (voice.phase = "processing" => cues'[1] = cues[2] /\ cues'[2] = "done")
    BY <1>0, <2>1, <2>2, CuesOfPhases, CueHeard
  <2> QED BY <1>0, <2>1, <2>3, <2>4 DEF VoiceFields
<1>5. /\ releasing' \in [Presses -> ReleasePlaces] /\ releasing'[n] = place
      /\ \A m \in Presses \ {n} : releasing'[m] = releasing[m]
      /\ pressing[n] \notin Asking \cup {"none"}
      /\ place = "injecting" => n \in manager.final
      /\ ~OnItsWay(mic, InjectText(n)) /\ ~Typed(n)
  BY <1>0, <1>1, VoiceParts DEF ReleasePlaces, ReleasedOnce, TypedOnce, Asking
<1>6. DictationTypeOK'
  BY <1>1, <1>2, <1>4, <1>5 DEF DictationTypeOK, VoiceFields, ReleasePlaces, Ended, Cue
<1>7. DeadMicIsSilent' /\ DictationIsShown'
  BY <1>0, <1>1, <1>2, <1>4, VoiceParts DEF DeadMicIsSilent, DictationIsShown
<1>8. ReleasedOnce'
  BY <1>1, <1>4, <1>5, VoiceParts DEF ReleasedOnce, Asking
<1>9. WaitsForAnswer'
  BY <1>0, <1>1, <1>2, <1>5, MicRequests, VoiceParts DEF WaitsForAnswer
<1>10. TypedOnce'
  <2>1. \A m \in Presses : Typed(m)' <=> Typed(m)
    BY <1>1 DEF Typed
  <2>2. \A m \in Presses : m # n =>
            /\ OnItsWay(mic', InjectText(m)) <=> OnItsWay(mic, InjectText(m))
            /\ Piped(mic', InjectText(m)) <=> Piped(mic, InjectText(m))
            /\ Ahead(mic', InjectText(m), InjectText(m)) => Ahead(mic, InjectText(m), InjectText(m))
    BY <1>2, MicRequests
  <2>3. /\ ~Ahead(mic', InjectText(n), InjectText(n))
        /\ OnItsWay(mic', InjectText(n)) => place = "injecting"
    BY <1>0, <1>1, <1>2, <1>5, MicRequests, VoiceParts DEF TypedOnce
  <2> QED BY <1>1, <1>5, <2>1, <2>2, <2>3, VoiceParts DEF TypedOnce
<1>11. InjectedIsFinal'
  BY <1>0, <1>1, VoiceParts DEF InjectedIsFinal
<1>12. ASSUME Orderly PROVE OneAtATime' /\ AnswersComeOnce' /\ CuesAlternate' /\ SessionKept'
  <2>1. OneAtATime /\ AnswersComeOnce /\ CuesAlternate /\ SessionKept
    BY <1>12, VoiceParts
  <2>2. \A m \in Presses : Newest(m)' <=> Newest(m)
    BY <1>4 DEF Newest
  <2>3. voice.session = n /\ voice.phase = "processing" /\ pressing[n] = "done"
    BY <1>0, <2>1 DEF OneAtATime, PlaceOf, Ended
  <2>4. OneAtATime'
    BY <1>0, <1>1, <1>4, <1>5, <2>1, <2>2, <2>3 DEF OneAtATime, PlaceOf, Ended
  <2>5. AnswersComeOnce'
    <3>1. ~OnItsWay(mic, q)
      BY <1>0, <1>5, <2>1, MicRequests, VoiceParts DEF AnswersComeOnce, WaitsForAnswer
    <3>2. \A m \in Presses : \A r \in RequestsOf(m) :
                (OnItsWay(mic', r) => r \in mic'.pending) /\ ~Ahead(mic', r, r)
      BY <1>0, <1>2, <2>1, <3>1 DEF AnswersComeOnce
    <3>3. \A m, k \in Presses : ~Ahead(mic', CaptureStop(m), CaptureStart(k))
      BY <1>0, <1>1, <1>2, <2>1, MicRequests DEF AnswersComeOnce
    <3>4. \A m \in Presses : CaptureStart(m) \in mic'.pending => OnItsWay(mic', CaptureStart(m))
      BY <1>1, <1>2, <2>1, MicRequests DEF AnswersComeOnce
    <3> QED BY <3>2, <3>3, <3>4 DEF AnswersComeOnce, RequestsOf
  <2>6. CuesAlternate'
    BY <1>0, <1>4, <1>12, <2>3 DEF CuesAlternate
  <2>7. SessionKept'
    <3>1. \A m \in Presses : m # n /\ CallFailed(m) => CallFailed(m)'
      BY <1>1, <1>5 DEF CallFailed
    <3>2. manager.active = n => CallFailed(n)'
      BY <1>0, <1>1, <1>5, <2>1, <2>3 DEF SessionKept, CallFailed
    <3> QED BY <1>1, <2>1, <2>3, <3>1, <3>2 DEF SessionKept
  <2> QED BY <2>4, <2>5, <2>6, <2>7
<1>13. ASSUME MicOrderly PROVE MicClosed' /\ MicrophoneFollowsPhase'
  <2>1. MicClosed /\ MicrophoneFollowsPhase /\ OneAtATime
    BY <1>13, VoiceParts DEF MicOrderly
  <2>2. MicClosed'
    BY <1>1, <1>2, <1>3, <2>1, MicRequests DEF MicClosed
  <2>3. voice.phase = "processing"
    BY <1>0, <2>1 DEF OneAtATime, PlaceOf, Ended
  <2> QED BY <1>0, <1>1, <1>2, <1>13, <2>1, <2>2, <2>3 DEF MicrophoneFollowsPhase
<1> QED BY <1>0, <1>6, <1>7, <1>8, <1>9, <1>10, <1>11, <1>12, <1>13 DEF VoiceInv, OneSessionInv, MicrophoneInv

\* The helper takes a request out of the pipe.
LEMMA MicTaken ==
    ASSUME DictationTypeOK, VoiceInv, NEW q, NEW o \in {"ok", "error"}, MicTakes(q), mic' = Handled(mic, o)
    PROVE  /\ mic' \in ClientType(DictationRequests) /\ mic'.process = mic.process
           /\ mic'.pending = mic.pending /\ mic.process
           /\ Piped(mic, q) /\ OnItsWay(mic, q)
           /\ \A r : Piped(mic', r) => Piped(mic, r) /\ Ahead(mic, q, r)
           /\ \A r, p : Told(mic', Reply(r, p)) <=> Told(mic, Reply(r, p)) \/ (r = q /\ p = o)
           /\ \A r : Answered(mic', r) <=> Answered(mic, r) \/ r = q
           /\ \A r : OnItsWay(mic', r) <=> OnItsWay(mic, r)
           /\ \A a, b : Ahead(mic', a, b) => Ahead(mic, a, b)
<1>1. mic \in ClientType(DictationRequests) /\ mic.pipe # <<>> /\ Head(mic.pipe) = q /\ mic.process
  BY VoiceTyped, VoiceParts DEF MicTakes, DeadMicIsSilent
<1>2. /\ mic' \in ClientType(DictationRequests)
      /\ mic'.process = mic.process /\ mic'.pending = mic.pending
      /\ Piped(mic, q) /\ \A r : Piped(mic', r) => Piped(mic, r)
      /\ \A l : Told(mic', l) <=> Told(mic, l) \/ l = Reply(q, o)
      /\ \A r : OnItsWay(mic', r) <=> OnItsWay(mic, r)
      /\ \A a, b : Ahead(mic', a, b) => Ahead(mic, a, b)
      /\ \A b : Piped(mic', b) => Ahead(mic, q, b)
  BY <1>1, HandledEffect
<1>3. \A r, p : Reply(r, p) = Reply(q, o) <=> r = q /\ p = o
  BY DEF Reply
<1>4. \A r, p : Told(mic', Reply(r, p)) <=> Told(mic, Reply(r, p)) \/ (r = q /\ p = o)
  BY <1>2, <1>3
<1>5. \A r : Answered(mic', r) <=> Answered(mic, r) \/ r = q
  BY <1>4 DEF Answered
<1> QED BY <1>1, <1>2, <1>4, <1>5 DEF OnItsWay

\* The microphone is opened, or closed.
LEMMA MicSwitched ==
    ASSUME DictationTypeOK, VoiceInv, NEW n \in Presses, MicSwitches(n),
           UNCHANGED <<voice, pressing, releasing, hud, cues, partials, manager>>
    PROVE  DictationTypeOK' /\ VoiceInv'
<1>0. PICK q \in {CaptureStart(n), CaptureStop(n)} :
        /\ MicTakes(q) /\ mic' = Handled(mic, "ok") /\ UNCHANGED faulted
        /\ micHelper' = [micHelper EXCEPT !.capturing = (q = CaptureStart(n))]
  BY MicRequests DEF MicSwitches
<1>1. /\ mic' \in ClientType(DictationRequests) /\ mic'.process = mic.process
      /\ mic'.pending = mic.pending /\ mic.process
      /\ Piped(mic, q) /\ OnItsWay(mic, q)
      /\ \A r : Piped(mic', r) => Piped(mic, r) /\ Ahead(mic, q, r)
      /\ \A r, p : Told(mic', Reply(r, p)) <=> Told(mic, Reply(r, p)) \/ (r = q /\ p = "ok")
      /\ \A r : Answered(mic', r) <=> Answered(mic, r) \/ r = q
      /\ \A r : OnItsWay(mic', r) <=> OnItsWay(mic, r)
      /\ \A a, b : Ahead(mic', a, b) => Ahead(mic, a, b)
  BY <1>0, MicTaken
<1>2. /\ micHelper \in MicFields /\ micHelper' \in MicFields /\ micHelper.alive /\ micHelper'.alive
      /\ micHelper'.injected = micHelper.injected /\ micHelper'.capturing = (q = CaptureStart(n))
      /\ NoPress \notin Presses /\ voice \in VoiceFields
      /\ (Orderly' <=> Orderly) /\ (MicOrderly' <=> MicOrderly)
  BY <1>0, VoiceTyped, DictationAssumption DEF MicTakes, MicFields, Orderly, MicOrderly
<1>3. DictationTypeOK'
  BY <1>0, <1>1, <1>2 DEF DictationTypeOK, MicFields
<1>4. DeadMicIsSilent' /\ ReleasedOnce' /\ WaitsForAnswer' /\ DictationIsShown'
  BY <1>1, <1>2, VoiceParts DEF DeadMicIsSilent, ReleasedOnce, WaitsForAnswer, DictationIsShown
<1>5. TypedOnce' /\ InjectedIsFinal'
  BY <1>1, <1>2, VoiceParts DEF TypedOnce, Typed, InjectedIsFinal
<1>6. Orderly => OneAtATime' /\ CuesAlternate'
  BY <1>2, VoiceParts DEF OneAtATime, Newest, PlaceOf, CuesAlternate
<1>7. Orderly => AnswersComeOnce'
  BY <1>1, VoiceParts DEF AnswersComeOnce
<1>8. Orderly => SessionKept'
  BY VoiceParts DEF SessionKept, CallFailed
<1>9. ASSUME MicOrderly PROVE MicClosed' /\ MicrophoneFollowsPhase'
  <2>1. OneAtATime /\ AnswersComeOnce /\ MicClosed /\ MicrophoneFollowsPhase /\ Orderly
    BY <1>9, VoiceParts DEF MicOrderly
  <2>2. CASE q = CaptureStop(n)
    <3>1. ~micHelper'.capturing
      BY <1>2, <2>2, MicRequests
    <3> QED BY <1>1, <2>1, <3>1 DEF MicClosed, MicrophoneFollowsPhase
  <2>3. CASE q = CaptureStart(n)
    <3>1. pressing[n] = "capturing"
      BY <1>1, <2>1, <2>3, MicRequests, VoiceParts DEF AnswersComeOnce, WaitsForAnswer
    <3>2. Newest(n) /\ voice.phase \notin {"idle", "error"}
      BY <2>1, <3>1, VoiceParts DEF OneAtATime, ReleasedOnce
    <3>3. \A m \in Presses : /\ pressing[m] \notin Asking
                             /\ pressing[m] = "capturing" => m = n
      BY <2>1, <3>1, <3>2, NewestIsOne DEF OneAtATime, Asking
    <3>4. \A k \in Presses : ~Answered(mic', CaptureStop(k))
      <4>1. \A k \in Presses : ~Ahead(mic, CaptureStop(k), q)
        BY <1>1, <2>1, <2>3 DEF AnswersComeOnce
      <4>2. \A k \in Presses : ~Answered(mic, CaptureStop(k))
        BY <1>1, <4>1 DEF Ahead
      <4> QED BY <1>1, <2>3, <4>2, MicRequests
    <3>5. \A k \in Presses : ~Piped(mic', CaptureStart(k)) /\ ~Told(mic', Reply(CaptureStart(k), "error"))
      <4> SUFFICES ASSUME NEW k \in Presses, OnItsWay(mic, CaptureStart(k))
                   PROVE  ~Piped(mic', CaptureStart(k)) /\ ~Told(mic', Reply(CaptureStart(k), "error"))
        BY <1>1 DEF OnItsWay, Answered
      <4>1. k = n
        BY <1>1, <2>1, <3>3, MicRequests, VoiceParts DEF AnswersComeOnce, WaitsForAnswer
      <4>2. ~Ahead(mic, q, q)
        BY <1>1, <2>1, <2>3, MicRequests DEF AnswersComeOnce
      <4>3. ~Answered(mic, q)
        BY <1>1, <4>2 DEF Ahead
      <4> QED BY <1>1, <2>3, <4>1, <4>2, <4>3 DEF Answered
    <3>6. MicClosed'
      BY <1>1, <2>1, <2>3, <3>3, <3>4, <3>5, MicRequests DEF MicClosed, Asking
    <3>7. voice.phase = "recording" \/ CaptureStop(n) \in mic.pending
      <4>1. CASE voice.phase \in {"processing", "injecting"}
        <5>1. PICK s \in Presses : s = voice.session
          BY <1>2, <2>1, <4>1 DEF OneAtATime, VoiceFields
        <5>2. releasing[s] \notin Ended \cup {"none"} /\ Newest(s)
          BY <2>1, <4>1, <5>1 DEF OneAtATime
        <5>3. s = n
          BY <3>2, <5>2, NewestIsOne
        <5>4. releasing[n] \notin Ended \cup {"none", "finishing", "final", "error", "failed", "injecting", "blank"}
          BY <2>1, <3>1, <5>2, <5>3 DEF OneAtATime
        <5>5. releasing[n] \in ReleasePlaces
          BY VoiceTyped
        <5> QED BY <5>4, <5>5, VoiceParts DEF ReleasePlaces, WaitsForAnswer
      <4> QED BY <1>2, <3>2, <4>1 DEF VoiceFields, Phases
    <3>8. MicrophoneFollowsPhase'
      BY <1>1, <3>7 DEF MicrophoneFollowsPhase
    <3> QED BY <3>6, <3>8
  <2> QED BY <2>2, <2>3
<1> QED BY <1>2, <1>3, <1>4, <1>5, <1>6, <1>7, <1>8, <1>9 DEF VoiceInv, OneSessionInv, MicrophoneInv

\* The helper answers a request without carrying it out.
LEMMA MicRefused ==
    ASSUME DictationTypeOK, VoiceInv, NEW n \in Presses, MicRefuses(n),
           UNCHANGED <<voice, pressing, releasing, hud, cues, partials, manager>>
    PROVE  DictationTypeOK' /\ VoiceInv'
<1>0. PICK q \in RequestsOf(n), o \in {"ok", "error"} :
        /\ MicTakes(q) /\ mic' = Handled(mic, o) /\ UNCHANGED micHelper
        /\ faulted \subseteq faulted' /\ faulted' \subseteq faulted \cup FaultKinds
        /\ q = CaptureStop(n) => "microphone" \in faulted'
  BY MicRequests DEF MicRefuses, MayFault, RequestsOf, FaultKinds
<1>1. /\ mic' \in ClientType(DictationRequests) /\ mic'.process = mic.process
      /\ mic'.pending = mic.pending /\ mic.process
      /\ Piped(mic, q) /\ OnItsWay(mic, q)
      /\ \A r : Piped(mic', r) => Piped(mic, r) /\ Ahead(mic, q, r)
      /\ \A r, p : Told(mic', Reply(r, p)) <=> Told(mic, Reply(r, p)) \/ (r = q /\ p = o)
      /\ \A r : Answered(mic', r) <=> Answered(mic, r) \/ r = q
      /\ \A r : OnItsWay(mic', r) <=> OnItsWay(mic, r)
      /\ \A a, b : Ahead(mic', a, b) => Ahead(mic, a, b)
  BY <1>0, MicTaken
<1>2. faulted \subseteq FaultKinds \cup {"overlap"} /\ (Orderly' => Orderly) /\ (MicOrderly' => MicOrderly)
  BY <1>0, VoiceTyped, OrderlyBefore
<1>3. DictationTypeOK'
  BY <1>0, <1>1, <1>2 DEF DictationTypeOK
<1>4. DeadMicIsSilent' /\ ReleasedOnce' /\ WaitsForAnswer' /\ DictationIsShown'
  BY <1>0, <1>1, VoiceParts DEF DeadMicIsSilent, ReleasedOnce, WaitsForAnswer, DictationIsShown
<1>5. TypedOnce' /\ InjectedIsFinal'
  BY <1>0, <1>1, <1>2, VoiceParts DEF TypedOnce, Typed, InjectedIsFinal
<1>6. Orderly' => OneAtATime' /\ CuesAlternate'
  BY <1>2, VoiceParts DEF OneAtATime, Newest, PlaceOf, CuesAlternate
<1>7. Orderly' => AnswersComeOnce'
  BY <1>1, <1>2, VoiceParts DEF AnswersComeOnce
<1>8. Orderly' => SessionKept'
  BY <1>2, VoiceParts DEF SessionKept, CallFailed
<1>9. ASSUME MicOrderly' PROVE MicClosed' /\ MicrophoneFollowsPhase'
  <2>1. MicClosed /\ MicrophoneFollowsPhase
    BY <1>2, <1>9, VoiceParts
  <2>2. \A m \in Presses : q # CaptureStop(m)
    BY <1>0, <1>9, MicRequests DEF MicOrderly
  <2>3. q = CaptureStart(n) => ~micHelper.capturing
    BY <1>1, <2>1 DEF MicClosed
  <2>4. MicClosed'
    BY <1>0, <1>1, <2>1, <2>2, <2>3, MicRequests DEF MicClosed
  <2> QED BY <1>0, <1>1, <1>2, <1>9, <2>1, <2>4 DEF MicrophoneFollowsPhase
<1> QED BY <1>3, <1>4, <1>5, <1>6, <1>7, <1>8, <1>9 DEF VoiceInv, OneSessionInv, MicrophoneInv

\* The helper types a text into the user's application, whatever it answers.
LEMMA TextTyped ==
    ASSUME DictationTypeOK, VoiceInv, NEW n \in Presses, MicTypes(n),
           UNCHANGED <<voice, pressing, releasing, hud, cues, partials, manager>>
    PROVE  DictationTypeOK' /\ VoiceInv'
<1>0. /\ micHelper \in MicFields /\ NoPress \notin Presses /\ Presses \subseteq Nat /\ micHelper.alive
      /\ releasing \in [Presses -> ReleasePlaces] /\ MicTakes(InjectText(n))
      /\ micHelper' = [micHelper EXCEPT !.injected = Append(@, n)]
      /\ faulted \subseteq FaultKinds \cup {"overlap"}
      /\ faulted \subseteq faulted' /\ faulted' \subseteq faulted \cup FaultKinds
  BY VoiceTyped, DictationAssumption DEF MicTypes, MicTakes, MayFault, FaultKinds
<1>1. PICK o \in {"ok", "error"} : mic' = Handled(mic, o)
  BY DEF MicTypes
<1>2. /\ mic' \in ClientType(DictationRequests) /\ mic'.process = mic.process
      /\ mic'.pending = mic.pending /\ mic.process
      /\ Piped(mic, InjectText(n)) /\ OnItsWay(mic, InjectText(n))
      /\ \A r : Piped(mic', r) => Piped(mic, r) /\ Ahead(mic, InjectText(n), r)
      /\ \A r, p : Told(mic', Reply(r, p)) <=> Told(mic, Reply(r, p)) \/ (r = InjectText(n) /\ p = o)
      /\ \A r : Answered(mic', r) <=> Answered(mic, r) \/ r = InjectText(n)
      /\ \A r : OnItsWay(mic', r) <=> OnItsWay(mic, r)
      /\ \A a, b : Ahead(mic', a, b) => Ahead(mic, a, b)
  BY <1>0, <1>1, MicTaken
<1>3. micHelper.injected \in Seq(Presses) /\ micHelper'.injected = Append(micHelper.injected, n)
  BY <1>0 DEF MicFields
<1>4. PICK k \in Nat : k = Len(micHelper.injected)
  BY <1>3
<1>5. /\ DOMAIN micHelper.injected = 1..k /\ DOMAIN micHelper'.injected = 1..k + 1
      /\ \A i \in 1..k : micHelper'.injected[i] = micHelper.injected[i]
      /\ micHelper'.injected[k + 1] = n
      /\ \A i \in 1..k : micHelper.injected[i] \in Presses
  BY <1>3, <1>4
<1>6. /\ micHelper' \in MicFields /\ micHelper'.alive /\ micHelper'.capturing = micHelper.capturing
      /\ (Orderly' => Orderly) /\ (MicOrderly' => MicOrderly)
  <2>1. Append(micHelper.injected, n) \in Seq(Presses)
    BY <1>3
  <2> QED BY <1>0, <2>1, OrderlyBefore DEF MicFields
<1>7. \A i : i \in 1..k + 1 <=> i \in 1..k \/ i = k + 1
  BY <1>4
<1>8. \A m : Typed(m)' <=> Typed(m) \/ m = n
  BY <1>5, <1>7 DEF Typed
<1>9. ~Typed(n) /\ ~Piped(mic', InjectText(n)) /\ n \in manager.final
  BY <1>2, VoiceParts DEF TypedOnce
<1>10. DictationTypeOK'
  BY <1>0, <1>2, <1>6 DEF DictationTypeOK, MicFields
<1>11. DeadMicIsSilent' /\ ReleasedOnce' /\ WaitsForAnswer' /\ DictationIsShown'
  BY <1>2, <1>6, VoiceParts DEF DeadMicIsSilent, ReleasedOnce, WaitsForAnswer, DictationIsShown
<1>12. TypedOnce'
  BY <1>2, <1>8, <1>9, VoiceParts DEF TypedOnce
<1>13. \A j \in 1..k : micHelper.injected[j] # n /\ (Orderly => micHelper.injected[j] < n)
  <2> SUFFICES ASSUME NEW j \in 1..k, NEW m \in Presses, micHelper.injected[j] = m
               PROVE  m # n /\ (Orderly => m < n)
    BY <1>5
  <2>1. Typed(m)
    BY <1>5 DEF Typed
  <2>2. m # n /\ releasing[m] \in {"injecting", "done", "threw"}
    BY <1>9, <2>1, VoiceParts DEF TypedOnce
  <2>3. m \in voice.drawn
    BY <2>2, VoiceParts DEF ReleasedOnce
  <2>4. ASSUME Orderly PROVE Newest(n)
    <3>1. InjectText(n) \in mic.pending
      BY <1>2, <2>4, MicRequests, VoiceParts DEF AnswersComeOnce
    <3>2. releasing[n] = "injecting"
      BY <3>1, VoiceParts DEF WaitsForAnswer
    <3> QED BY <2>4, <3>2, VoiceParts DEF OneAtATime, Ended
  <2> QED BY <1>0, <2>2, <2>3, <2>4 DEF Newest
<1>14. InjectedIsFinal'
  <2> SUFFICES ASSUME NEW i \in 1..k + 1
               PROVE  /\ micHelper'.injected[i] \in manager.final
                      /\ \A j \in 1..i - 1 :
                            /\ micHelper'.injected[j] # micHelper'.injected[i]
                            /\ Orderly => micHelper'.injected[j] < micHelper'.injected[i]
    BY <1>5, <1>6 DEF InjectedIsFinal
  <2>1. CASE i = k + 1
    BY <1>4, <1>5, <1>9, <1>13, <2>1
  <2>2. CASE i \in 1..k
    <3>1. \A j \in 1..i - 1 : j \in 1..k
      BY <1>4, <2>2
    <3> QED BY <1>5, <2>2, <3>1, VoiceParts DEF InjectedIsFinal
  <2> QED BY <1>7, <2>1, <2>2
<1>15. Orderly' => OneAtATime' /\ CuesAlternate'
  BY <1>6, VoiceParts DEF OneAtATime, Newest, PlaceOf, CuesAlternate
<1>16. Orderly' => AnswersComeOnce'
  BY <1>2, <1>6, VoiceParts DEF AnswersComeOnce
<1>17. Orderly' => SessionKept'
  BY <1>6, VoiceParts DEF SessionKept, CallFailed
<1>18. MicOrderly' => MicClosed' /\ MicrophoneFollowsPhase'
  BY <1>2, <1>6, MicRequests, VoiceParts DEF MicClosed, MicrophoneFollowsPhase
<1> QED BY <1>10, <1>11, <1>12, <1>14, <1>15, <1>16, <1>17, <1>18 DEF VoiceInv, OneSessionInv, MicrophoneInv

\* What the helper does with a request.
LEMMA MicStep ==
    ASSUME DictationTypeOK, VoiceInv, NEW n \in Presses, MicActs(n)
    PROVE  DictationTypeOK' /\ VoiceInv'
BY MicSwitched, MicRefused, TextTyped DEF MicActs, orchestratorVars

\* The helper dies.
LEMMA MicDiesStep ==
    ASSUME DictationTypeOK, VoiceInv, MicDies
    PROVE  DictationTypeOK' /\ VoiceInv'
<1>0. micHelper \in MicFields /\ faulted \subseteq FaultKinds \cup {"overlap"}
  BY VoiceTyped
<1>1. /\ micHelper' \in MicFields /\ ~micHelper'.alive /\ ~micHelper'.capturing
      /\ micHelper'.injected = micHelper.injected
      /\ faulted \subseteq faulted' /\ faulted' \subseteq FaultKinds \cup {"overlap"}
      /\ UNCHANGED <<voice, pressing, releasing, hud, cues, partials, mic, manager>>
  BY <1>0 DEF MicDies, MayFault, MicFields, FaultKinds, orchestratorVars
<1>2. DictationTypeOK'
  BY <1>1 DEF DictationTypeOK, MicFields
<1>3. DeadMicIsSilent' /\ ReleasedOnce' /\ WaitsForAnswer' /\ DictationIsShown'
  BY <1>1, VoiceParts DEF DeadMicIsSilent, ReleasedOnce, WaitsForAnswer, DictationIsShown
<1>4. (Orderly' => Orderly) /\ (MicOrderly' => MicOrderly)
  BY <1>1, OrderlyBefore
<1>5. TypedOnce' /\ InjectedIsFinal'
  BY <1>1, <1>4, VoiceParts DEF TypedOnce, Typed, InjectedIsFinal
<1>6. Orderly' => OneAtATime' /\ AnswersComeOnce' /\ CuesAlternate'
  BY <1>1, <1>4, VoiceParts DEF OneAtATime, Newest, PlaceOf, AnswersComeOnce, CuesAlternate
<1>7. Orderly' => SessionKept'
  BY <1>1, <1>4, VoiceParts DEF SessionKept, CallFailed
<1>8. MicOrderly' => MicClosed' /\ MicrophoneFollowsPhase'
  BY <1>1, <1>4, VoiceParts DEF MicClosed, MicrophoneFollowsPhase
<1> QED BY <1>2, <1>3, <1>5, <1>6, <1>7, <1>8 DEF VoiceInv, OneSessionInv, MicrophoneInv

\* The exit of the helper is seen: whoever waits for it gives up.
LEMMA MicExitStep ==
    ASSUME DictationTypeOK, VoiceInv, MicExit
    PROVE  DictationTypeOK' /\ VoiceInv'
<1>0. /\ voice \in VoiceFields /\ pressing \in [Presses -> PressPlaces] /\ releasing \in [Presses -> ReleasePlaces]
      /\ hud \in OverlayType /\ mic \in ClientType(DictationRequests) /\ NoPress \notin Presses
      /\ voice.phase \in Phases /\ voice.phase # "error" /\ cues \in Cue \X Cue
  BY VoiceTyped, VoiceParts, DictationAssumption DEF VoiceFields, ReleasedOnce
<1> DEFINE starts == {n \in Presses : CaptureStart(n) \in mic.pending}
           stops == {n \in Presses :
                        {CaptureStop(n), InjectText(n), InjectNothing(n)} \cap mic.pending # {}}
<1>1. /\ \A n \in Presses : n \in starts <=> pressing[n] = "capturing"
      /\ \A n \in Presses : n \in stops <=> releasing[n] \in {"stopping", "injecting", "blank"}
  BY VoiceParts DEF WaitsForAnswer
<1>2. /\ ~micHelper.alive /\ ~micHelper.capturing /\ mic' = Exited(mic)
      /\ UNCHANGED <<micHelper, manager, faulted>> /\ (Orderly' <=> Orderly) /\ (MicOrderly' <=> MicOrderly)
      /\ \/ starts \cup stops = {} /\ UNCHANGED <<voice, pressing, releasing, hud, cues, partials>>
         \/ /\ starts \cup stops # {}
            /\ Finish(SelectCue(voice.phase, "error"))
            /\ hud' = HideScheduled(IF starts # {} THEN StateSent(hud, "error") ELSE hud)
            /\ pressing' = [n \in Presses |-> IF n \in starts THEN "threw" ELSE pressing[n]]
            /\ releasing' = [n \in Presses |-> IF n \in stops THEN "threw" ELSE releasing[n]]
  BY VoiceParts DEF MicExit, orchestratorVars, DeadMicIsSilent, Orderly, MicOrderly
<1> HIDE DEF starts, stops
<1>3. /\ mic' \in ClientType(DictationRequests) /\ ~mic'.process /\ mic'.pending = {}
      /\ \A q : ~Piped(mic', q)
      /\ \A l : Told(mic', l) <=> Told(mic, l)
      /\ \A q : OnItsWay(mic', q) => OnItsWay(mic, q)
      /\ \A a, b : Ahead(mic', a, b) => Ahead(mic, a, b)
  BY <1>0, <1>2, ExitedEffect
<1>4. /\ pressing' \in [Presses -> PressPlaces] /\ releasing' \in [Presses -> ReleasePlaces]
      /\ \A n \in Presses : pressing'[n] = IF n \in starts THEN "threw" ELSE pressing[n]
      /\ \A n \in Presses : releasing'[n] = IF n \in stops THEN "threw" ELSE releasing[n]
  BY <1>0, <1>2 DEF PressPlaces, ReleasePlaces, Ended
<1>5. /\ voice' \in VoiceFields /\ voice'.drawn = voice.drawn /\ partials' \subseteq Presses
      /\ hud' \in OverlayType /\ cues' \in Cue \X Cue
      /\ \/ starts \cup stops = {} /\ UNCHANGED <<voice, hud, cues>>
         \/ /\ starts \cup stops # {}
            /\ voice'.phase = "idle" /\ voice'.session = NoPress /\ cues'[2] = "error"
  <2>1. CASE starts \cup stops = {}
    BY <1>0, <1>2, <2>1, VoiceTyped
  <2>2. CASE starts \cup stops # {}
    <3>1. Finish(<<"error">>)
      BY <1>0, <1>2, <2>2, CuesOfPhases
    <3>2. /\ voice' \in VoiceFields /\ voice'.phase = "idle" /\ voice'.session = NoPress
          /\ voice'.drawn = voice.drawn /\ partials' \subseteq Presses /\ cues' \in Cue \X Cue
          /\ cues'[1] = cues[2] /\ cues'[2] = "error"
      BY <3>1, Finished
    <3>3. hud' \in OverlayType
      <4>1. PICK h \in OverlayType : h = IF starts # {} THEN StateSent(hud, "error") ELSE hud
        BY <1>0, OverlayChanged
      <4> QED BY <1>2, <2>2, <4>1, OverlayChanged
    <3> QED BY <2>2, <3>2, <3>3
  <2> QED BY <2>1, <2>2
<1>6. DictationTypeOK'
  BY <1>2, <1>3, <1>4, <1>5 DEF DictationTypeOK, VoiceFields, PressPlaces, Asking, ReleasePlaces, Ended, Cue
<1>7. DeadMicIsSilent' /\ DictationIsShown'
  BY <1>2, <1>3, <1>5, VoiceParts DEF DeadMicIsSilent, DictationIsShown
<1>8. ReleasedOnce'
  BY <1>0, <1>1, <1>4, <1>5, VoiceParts DEF ReleasedOnce
<1>9. WaitsForAnswer'
  BY <1>1, <1>3, <1>4 DEF WaitsForAnswer
<1>10. TypedOnce' /\ InjectedIsFinal'
  BY <1>1, <1>2, <1>3, <1>4, VoiceParts DEF TypedOnce, Typed, InjectedIsFinal
<1>11. ASSUME Orderly PROVE OneAtATime' /\ AnswersComeOnce' /\ CuesAlternate' /\ SessionKept'
  <2>1. OneAtATime /\ AnswersComeOnce /\ CuesAlternate /\ SessionKept
    BY <1>11, VoiceParts
  <2>2. CASE starts \cup stops = {}
    <3>1. UNCHANGED <<voice, cues>> /\ UNCHANGED <<pressing, releasing>>
      BY <1>2, <2>2
    <3>2. OneAtATime' /\ CuesAlternate' /\ SessionKept'
      BY <1>2, <2>1, <3>1 DEF OneAtATime, Newest, PlaceOf, CuesAlternate, SessionKept, CallFailed
    <3> QED BY <1>3, <2>1, <3>2 DEF AnswersComeOnce
  <2>3. CASE starts \cup stops # {}
    <3>1. PICK k \in Presses : k \in starts \/ k \in stops
      BY <2>3 DEF starts, stops
    <3>2. /\ Newest(k) /\ (k \in starts => pressing[k] = "capturing")
          /\ (k \in stops => voice.session = k /\ releasing[k] \in {"stopping", "injecting", "blank"})
      BY <1>1, <2>1, <3>1 DEF OneAtATime, Ended
    <3>3. \A m \in Presses : pressing'[m] \notin Asking \cup {"capturing"}
      <4> SUFFICES ASSUME NEW m \in Presses, pressing[m] \in Asking PROVE FALSE
        BY <1>1, <1>4 DEF Asking
      <4>1. voice.session = NoPress /\ Newest(m)
        BY <1>11, OnlyAsking
      <4>2. m = k
        BY <3>2, <4>1, NewestIsOne
      <4> QED BY <1>0, <3>1, <3>2, <4>1, <4>2 DEF Asking
    <3>4. \A m \in Presses : releasing'[m] \in Ended \cup {"none"}
      <4> SUFFICES ASSUME NEW m \in Presses, releasing[m] \in {"finishing", "final", "error", "failed"} PROVE FALSE
        BY <1>0, <1>1, <1>4 DEF ReleasePlaces, Ended
      <4>1. voice.session = m /\ Newest(m) /\ pressing[m] = "done"
        BY <2>1 DEF OneAtATime, Ended
      <4>2. m = k
        BY <3>2, <4>1, NewestIsOne
      <4> QED BY <3>1, <3>2, <4>1, <4>2
    <3>5. OneAtATime' /\ CuesAlternate'
      BY <1>0, <1>5, <2>3, <3>3, <3>4 DEF OneAtATime, CuesAlternate, Asking, Ended
    <3>6. SessionKept'
      <4>1. \A m \in Presses : CallFailed(m) \/ m \in starts \cup stops => CallFailed(m)'
        BY <1>4 DEF CallFailed
      <4>2. \A m \in Presses : voice.session = m => m \in starts \cup stops
        BY <2>1, <3>1, <3>2, NewestIsOne DEF OneAtATime
      <4>3. \A m \in Presses : pressing[m] # "opened"
        BY <1>1, <1>4, <3>3 DEF Asking
      <4> QED BY <1>2, <2>1, <4>1, <4>2, <4>3 DEF SessionKept
    <3> QED BY <1>3, <2>1, <3>5, <3>6 DEF AnswersComeOnce
  <2> QED BY <2>2, <2>3
<1>12. ASSUME MicOrderly PROVE MicClosed' /\ MicrophoneFollowsPhase'
  BY <1>2, <1>3, <1>12, VoiceParts DEF MicClosed, MicrophoneFollowsPhase
<1> QED BY <1>2, <1>6, <1>7, <1>8, <1>9, <1>10, <1>11, <1>12 DEF VoiceInv, OneSessionInv, MicrophoneInv

LEMMA VoiceStutter ==
    ASSUME DictationTypeOK, VoiceInv, UNCHANGED dictationVars
    PROVE  DictationTypeOK' /\ VoiceInv'
<1>1. UNCHANGED <<voice, pressing, releasing, hud, cues, partials, mic, micHelper, manager, faulted>>
  BY DEF dictationVars, orchestratorVars
<1>2. DictationTypeOK'
  BY <1>1 DEF DictationTypeOK
<1>3. DeadMicIsSilent' /\ ReleasedOnce' /\ WaitsForAnswer' /\ DictationIsShown'
  BY <1>1, VoiceParts DEF DeadMicIsSilent, ReleasedOnce, WaitsForAnswer, DictationIsShown
<1>4. (Orderly' => Orderly) /\ (MicOrderly' => MicOrderly)
  BY <1>1, OrderlyBefore
<1>5. TypedOnce' /\ InjectedIsFinal'
  BY <1>1, <1>4, VoiceParts DEF TypedOnce, Typed, InjectedIsFinal
<1>6. Orderly' => OneAtATime' /\ AnswersComeOnce' /\ CuesAlternate'
  BY <1>1, <1>4, VoiceParts DEF OneAtATime, Newest, PlaceOf, AnswersComeOnce, CuesAlternate
<1>7. Orderly' => SessionKept'
  BY <1>1, <1>4, VoiceParts DEF SessionKept, CallFailed
<1>8. MicOrderly' => MicClosed' /\ MicrophoneFollowsPhase'
  BY <1>1, <1>4, VoiceParts DEF MicClosed, MicrophoneFollowsPhase
<1> QED BY <1>2, <1>3, <1>5, <1>6, <1>7, <1>8 DEF VoiceInv, OneSessionInv, MicrophoneInv

LEMMA VoiceBeginsWell == DictationInit => DictationTypeOK /\ VoiceInv
<1> SUFFICES ASSUME DictationInit PROVE DictationTypeOK /\ VoiceInv
  OBVIOUS
<1>1. /\ mic \in ClientType(DictationRequests) /\ mic.process /\ mic.pending = {}
      /\ \A q : ~OnItsWay(mic, q) /\ ~Piped(mic, q) /\ ~Answered(mic, q)
      /\ \A l : ~Told(mic, l) /\ \A a, b : ~Ahead(mic, a, b)
  BY ClientStarts DEF DictationInit
<1>2. DictationTypeOK
  <2>1. micHelper \in MicFields /\ DOMAIN micHelper.injected = {}
    BY DEF DictationInit, MicFields
  <2> QED BY <1>1, <2>1 DEF DictationInit, DictationTypeOK, MicFields, OverlayType, NoOverlay, Phases
<1>3. \A m : ~Typed(m)
  BY DEF DictationInit, Typed
<1>4. DeadMicIsSilent /\ ReleasedOnce /\ WaitsForAnswer /\ DictationIsShown
  BY <1>1, DictationAssumption DEF DictationInit, DeadMicIsSilent, ReleasedOnce, WaitsForAnswer, DictationIsShown
<1>5. TypedOnce /\ InjectedIsFinal
  BY <1>1, <1>3 DEF DictationInit, TypedOnce, InjectedIsFinal
<1>6. OneAtATime /\ MicrophoneFollowsPhase /\ CuesAlternate
  BY DictationAssumption DEF DictationInit, OneAtATime, MicrophoneFollowsPhase, CuesAlternate
<1>7. AnswersComeOnce /\ MicClosed
  BY <1>1 DEF DictationInit, AnswersComeOnce, MicClosed
<1>8. SessionKept
  BY DictationAssumption DEF DictationInit, SessionKept
<1> QED BY <1>2, <1>4, <1>5, <1>6, <1>7, <1>8, VoiceParts

LEMMA VoiceStep == DictationTypeOK /\ VoiceInv /\ [DesktopNext]_desktopVars => DictationTypeOK' /\ VoiceInv'
<1> SUFFICES ASSUME DictationTypeOK, VoiceInv, [DesktopNext]_desktopVars PROVE DictationTypeOK' /\ VoiceInv'
  OBVIOUS
<1>1. CASE MicAnswers
  BY <1>1, PressStep, ReleaseStep, LateStep, CaptureAnswered, StopAnsweredStep, DictationEndStep DEF MicAnswers
<1>2. CASE BackendAnswers
  BY <1>2, StartAnswerStep, TextSentStep, DictationEndStep DEF BackendAnswers
<1>3. CASE ManagerActs \/ MicHelperActs
  BY <1>3, ManagerStep, MicStep DEF ManagerActs, MicHelperActs
<1>4. CASE MicKey \/ MicDies \/ MicExit
  BY <1>4, KeyReported, MicDiesStep, MicExitStep
<1>5. CASE RendererDictates \/ HudHides \/ \E n \in Presses : PartialsEnd(n)
  BY <1>5, BesideStep
<1>6. CASE UNCHANGED dictationVars
  BY <1>6, VoiceStutter
<1> QED BY <1>1, <1>2, <1>3, <1>4, <1>5, <1>6 DEF DictationNext, DesktopNext, Dump, Voice, Keys, desktopVars

\* What is typed into the user's application was finalised by the backend, and is typed once and
\* in the order of the presses, for any number of presses and whatever fails: an error body taken
\* for a transcript, an answer lost on its way, a helper that types and then reports an error.
THEOREM FinalTextTypedOnce == DesktopSpec => []InjectedIsFinal
<1>1. DesktopInit => DictationTypeOK /\ VoiceInv
  BY VoiceBeginsWell DEF DesktopInit
<1>2. DictationTypeOK /\ VoiceInv => InjectedIsFinal
  BY VoiceParts
<1> QED BY <1>1, <1>2, VoiceStep, PTL DEF DesktopSpec

\* The backend's active session is one the orchestrator begins, knows or ends, or one whose own call
\* failed, and the microphone is open only in a phase that records or while its stop is on the way.
THEOREM SessionStaysOwned == DesktopSpec => []SessionFollowsPhase
<1>1. DesktopInit => DictationTypeOK /\ VoiceInv
  BY VoiceBeginsWell DEF DesktopInit
<1>2. DictationTypeOK /\ VoiceInv => SessionFollowsPhase
  <2> SUFFICES ASSUME VoiceInv PROVE ActiveSessionIsOwned /\ MicrophoneFollowsPhase
    BY DEF SessionFollowsPhase
  <2>1. ActiveSessionIsOwned
    BY VoiceParts DEF SessionKept, ActiveSessionIsOwned
  <2>2. MicrophoneFollowsPhase
    BY VoiceParts DEF MicrophoneFollowsPhase
  <2> QED BY <2>1, <2>2
<1> QED BY <1>1, <1>2, VoiceStep, PTL DEF DesktopSpec

\* Neither overlay hides while its recording goes on, and no two dictations begin to sound without
\* an end between them, unless one was released while its capture was being refused.
THEOREM RecordingStaysShown == DesktopSpec => []RecordingIsShown
<1>1. DesktopInit => DumpTypeOK /\ DumpInv /\ DictationTypeOK /\ VoiceInv
  BY DumpBeginsWell, VoiceBeginsWell DEF DesktopInit
<1>2. DumpInv /\ VoiceInv => RecordingIsShown
  BY VoiceParts DEF DumpInv, CuesAlternate, RecordingIsShown
<1> QED BY <1>1, <1>2, DumpStep, VoiceStep, PTL DEF DesktopSpec

(***************************************************************************)
(* The bindings of the keys.                                               *)
(***************************************************************************)
DumpOn == chosen.dumpEnabled /\ "dump" \in chosen.ready

BindingsTyped ==
    /\ BindingTypeOK
    /\ chosen \in [custom: Accelerator, pushToTalk: BOOLEAN, dumpEnabled: BOOLEAN,
                   toggle: Accelerator, hold: BOOLEAN, ready: Started]

\* The dump mode takes no key but its toggle, and asks a helper only when it is on.
DumpTakesItsToggle ==
    /\ \A a \in Accelerators : registry[a] = "dump" => a = chosen.toggle
    /\ task["dump"].at = "helper" => DumpOn

\* The dictation asks its helper about a key the user chose.
DictationAsksForKey == task["dictation"].at = "helper" => chosen.custom # Unset

\* A function that still fetches has an attempt left.
AttemptsLeft == \A b \in Binders : task[b].at = "fetch" => task[b].attempts < MaxAttempts

KeysInv == AttemptsLeft /\ BindingsTyped /\ DumpTakesItsToggle /\ DictationAsksForKey /\ KeysAreBound

\* What registering a key and giving up all keys do to the registry.
LEMMA Registered ==
    ASSUME NEW r \in [Accelerators -> {"free", "elsewhere", "dictation", "dump"}],
           NEW a \in Accelerators, NEW owner \in {"dictation", "dump"}
    PROVE  /\ Register(r, a, owner) \in [Accelerators -> {"free", "elsewhere", "dictation", "dump"}]
           /\ Register(r, a, owner)[a] = IF r[a] = "free" THEN owner ELSE r[a]
           /\ \A b \in Accelerators \ {a} : Register(r, a, owner)[b] = r[b]
BY DEF Register

LEMMA Unregistered ==
    ASSUME registry \in [Accelerators -> {"free", "elsewhere", "dictation", "dump"}]
    PROVE  /\ UnregisterAll(registry) \in [Accelerators -> {"free", "elsewhere", "dictation", "dump"}]
           /\ \A a \in Accelerators :
                UnregisterAll(registry)[a] = IF registry[a] = "elsewhere" THEN "elsewhere" ELSE "free"
BY DEF UnregisterAll

LEMMA Placed ==
    ASSUME BindingsTyped, NEW b \in Binders, NEW place \in {"fetch", "helper", "done", "gaveUp"}, At(b, place)
    PROVE  /\ task' \in [Binders -> [at: {"fetch", "helper", "done", "gaveUp"}, attempts: 0 .. MaxAttempts]]
           /\ task'[b].at = place /\ \A c \in Binders \ {b} : task'[c] = task[c]
           /\ place # "fetch" /\ AttemptsLeft => AttemptsLeft'
BY DEF AttemptsLeft, At, BindingsTyped, BindingTypeOK

LEMMA KeysInit == BindingInit => KeysInv
<1> SUFFICES ASSUME BindingInit PROVE KeysInv
  OBVIOUS
<1>1. BindingsTyped
  BY BindingAssumption DEF BindingInit, BindingsTyped, BindingTypeOK, Accelerator, Binders
<1>2. \A b \in Binders : task[b].at = "fetch"
  BY DEF BindingInit
<1>3. \A a \in Accelerators : registry[a] \in {"free", "elsewhere"}
  BY DEF BindingInit
<1>4. toggleKey = Unset /\ helperKeys = {}
  BY DEF BindingInit
<1>5. AttemptsLeft
  BY BindingAssumption DEF BindingInit, AttemptsLeft
<1> QED
  BY <1>1, <1>2, <1>3, <1>4, <1>5
  DEF KeysInv, DumpTakesItsToggle, DictationAsksForKey, KeysAreBound, DictationKeyWorks, DumpKeysOnlyWhenEnabled, Binders

LEMMA FetchFailsStep == ASSUME KeysInv, NEW b \in Binders, FetchFails(b) PROVE KeysInv'
<1> USE DEF KeysInv
<1> DEFINE tried == [task[b] EXCEPT !.attempts = task[b].attempts + 1,
                                   !.at = IF task[b].attempts + 1 = MaxAttempts THEN "gaveUp" ELSE task[b].at]
           Place == {"fetch", "helper", "done", "gaveUp"}
<1>0. /\ task[b] \in [at: Place, attempts: 0 .. MaxAttempts] /\ task \in [Binders -> [at: Place, attempts: 0 .. MaxAttempts]]
      /\ task[b].at = "fetch" /\ task[b].attempts < MaxAttempts /\ MaxAttempts \in Nat
  BY BindingAssumption DEF FetchFails, AttemptsLeft, BindingsTyped, BindingTypeOK
<1>1. tried \in [at: Place, attempts: 0 .. MaxAttempts]
  <2>1. task[b].attempts + 1 \in 0 .. MaxAttempts
    BY <1>0
  <2>2. (IF task[b].attempts + 1 = MaxAttempts THEN "gaveUp" ELSE task[b].at) \in Place
    BY <1>0
  <2> HIDE DEF Place
  <2> QED BY <1>0, <2>1, <2>2
<1>2. task' = [task EXCEPT ![b] = tried]
  BY <1>0 DEF FetchFails
<1>3. tried.at \in {"fetch", "gaveUp"} /\ (tried.at = "fetch" => tried.attempts < MaxAttempts)
  BY <1>0
<1> HIDE DEF tried
<1>4. BindingsTyped'
  <2>1. task' \in [Binders -> [at: Place, attempts: 0 .. MaxAttempts]]
    BY <1>0, <1>1, <1>2
  <2> QED BY <2>1 DEF FetchFails, BindingsTyped, BindingTypeOK
<1>5. \A c \in Binders : task'[c] = task[c] \/ task'[c] = tried
  BY <1>2 DEF BindingsTyped, BindingTypeOK
<1>6. AttemptsLeft'
  BY <1>3, <1>5 DEF AttemptsLeft
<1>7. DumpTakesItsToggle' /\ DictationAsksForKey' /\ KeysAreBound'
  BY <1>3, <1>5
  DEF FetchFails, DumpTakesItsToggle, DictationAsksForKey, DumpOn, KeysAreBound, DictationKeyWorks,
      DumpKeysOnlyWhenEnabled, Binders
<1> QED BY <1>4, <1>6, <1>7

\* The dictation's function: whatever it finds registered, the key of the user
\* ends with its helper or in the registry.
LEMMA DictationStep ==
    ASSUME KeysInv, BindPushToTalk \/ KeepDefault \/ BindCustom \/ PushToTalkBound
    PROVE  KeysInv'
<1> USE DEF KeysInv
<1>0. /\ registry \in [Accelerators -> {"free", "elsewhere", "dictation", "dump"}]
      /\ chosen.custom \in Accelerator /\ Default \in Accelerators
      /\ UNCHANGED <<chosen, toggleKey, askWindow>>
  BY BindingAssumption
  DEF BindingsTyped, BindingTypeOK, BindPushToTalk, KeepDefault, BindCustom, PushToTalkBound
<1>1. PICK place \in {"helper", "done"} : At("dictation", place)
  BY DEF BindPushToTalk, KeepDefault, BindCustom, PushToTalkBound
<1>2. /\ task' \in [Binders -> [at: {"fetch", "helper", "done", "gaveUp"}, attempts: 0 .. MaxAttempts]]
      /\ task'["dictation"].at = place /\ task'["dump"] = task["dump"] /\ AttemptsLeft'
  BY <1>1, Placed DEF Binders
<1>3. /\ registry' \in [Accelerators -> {"free", "elsewhere", "dictation", "dump"}]
      /\ \A a \in Accelerators : registry'[a] = "dump" => registry[a] = "dump"
      /\ helperKeys' \in {helperKeys, helperKeys \cup {"dictation"}}
      /\ place = "helper" => chosen.custom # Unset
      /\ place = "done" /\ chosen.custom # Unset =>
           \/ "dictation" \in helperKeys' \/ registry'[chosen.custom] \in {"dictation", "elsewhere"}
           \/ registry[chosen.custom] = "dump"
  <2>1. CASE BindPushToTalk
    <3>1. place = "helper"
      BY <1>1, <2>1 DEF BindPushToTalk, At, BindingsTyped, BindingTypeOK, Binders
    <3> QED BY <1>0, <2>1, <3>1, Unregistered DEF BindPushToTalk, PushToTalk
  <2>2. CASE KeepDefault
    <3>1. place = "done"
      BY <1>1, <2>2 DEF KeepDefault, At, BindingsTyped, BindingTypeOK, Binders
    <3> QED BY <1>0, <2>2, <3>1 DEF KeepDefault
  <2>3. CASE BindCustom
    <3> DEFINE r == UnregisterAll(registry)
    <3>1. place = "done"
      BY <1>1, <2>3 DEF BindCustom, At, BindingsTyped, BindingTypeOK, Binders
    <3>2. /\ chosen.custom \in Accelerators /\ UNCHANGED helperKeys
          /\ registry' = CustomOrDefault(r, chosen.custom)
      BY <1>0, <2>3 DEF BindCustom, Accelerator
    <3>3. /\ r \in [Accelerators -> {"free", "elsewhere", "dictation", "dump"}]
          /\ \A a \in Accelerators : r[a] \in {"free", "elsewhere"}
      BY <1>0, Unregistered
    <3> HIDE DEF r
    <3>4. CASE r[chosen.custom] = "free"
      <4>1. registry' = Register(r, chosen.custom, "dictation")
        BY <3>2, <3>4 DEF CustomOrDefault
      <4>2. /\ registry' \in [Accelerators -> {"free", "elsewhere", "dictation", "dump"}]
            /\ registry'[chosen.custom] = "dictation"
            /\ \A a \in Accelerators \ {chosen.custom} : registry'[a] = r[a]
        BY <3>2, <3>3, <3>4, <4>1, Registered
      <4> QED BY <3>1, <3>2, <3>3, <4>2
    <3>5. CASE r[chosen.custom] = "elsewhere"
      <4>1. registry' = Register(r, Default, "dictation")
        BY <3>2, <3>5 DEF CustomOrDefault
      <4>2. /\ registry' \in [Accelerators -> {"free", "elsewhere", "dictation", "dump"}]
            /\ registry'[Default] \in {"dictation", r[Default]}
            /\ \A a \in Accelerators \ {Default} : registry'[a] = r[a]
        BY <1>0, <3>3, <4>1, Registered
      <4>3. registry'[chosen.custom] \in {"dictation", "elsewhere"}
        BY <3>2, <3>5, <4>2
      <4> QED BY <3>1, <3>2, <3>3, <4>2, <4>3
    <3> QED BY <3>2, <3>3, <3>4, <3>5
  <2>4. CASE PushToTalkBound
    <3>1. place = "done"
      BY <1>1, <2>4 DEF PushToTalkBound, At, BindingsTyped, BindingTypeOK, Binders
    <3>2. chosen.custom \in Accelerators
      BY <1>0, <2>4 DEF PushToTalkBound, DictationAsksForKey, Accelerator
    <3>3. CASE helperKeys' = helperKeys \cup {"dictation"} /\ UNCHANGED registry
      BY <1>0, <3>1, <3>3
    <3>4. CASE registry' = Register(registry, chosen.custom, "dictation") /\ UNCHANGED helperKeys
      BY <1>0, <3>1, <3>2, <3>4, Registered
    <3> QED BY <2>4, <3>3, <3>4 DEF PushToTalkBound
  <2> QED BY <2>1, <2>2, <2>3, <2>4
<1>4. BindingsTyped' /\ DumpTakesItsToggle' /\ DictationAsksForKey'
  BY <1>0, <1>2, <1>3
  DEF BindingsTyped, BindingTypeOK, Binders, DumpTakesItsToggle, DumpOn, DictationAsksForKey
<1>5. DictationKeyWorks'
  <2>1. SUFFICES ASSUME place = "done", chosen.custom # Unset, registry'[chosen.custom] # "elsewhere",
                        chosen.toggle # chosen.custom
                 PROVE  "dictation" \in helperKeys' \/ registry'[chosen.custom] = "dictation"
    BY <1>0, <1>2 DEF DictationKeyWorks
  <2>2. registry[chosen.custom] # "dump"
    BY <1>0, <2>1 DEF DumpTakesItsToggle, Accelerator
  <2> QED BY <1>3, <2>1, <2>2
<1>6. DumpKeysOnlyWhenEnabled'
  BY <1>0, <1>3 DEF DumpKeysOnlyWhenEnabled, KeysAreBound
<1> QED BY <1>2, <1>4, <1>5, <1>6 DEF KeysAreBound

\* The dump mode's function takes its toggle key, which is not the dictation's
\* where DictationKeyWorks says anything.
LEMMA DumpKeysStep == ASSUME KeysInv, ApplyDumpMode PROVE KeysInv'
<1> USE DEF KeysInv
<1>0. /\ registry \in [Accelerators -> {"free", "elsewhere", "dictation", "dump"}]
      /\ chosen.toggle \in Accelerator /\ toggleKey \in Accelerator
      /\ UNCHANGED <<chosen, helperKeys, askWindow>>
  BY DEF BindingsTyped, BindingTypeOK, ApplyDumpMode
<1>1. PICK place \in {"helper", "done"} : At("dump", place) /\ (place = "helper" => DumpOn)
  BY DEF ApplyDumpMode, DumpOn
<1>2. /\ task' \in [Binders -> [at: {"fetch", "helper", "done", "gaveUp"}, attempts: 0 .. MaxAttempts]]
      /\ task'["dump"].at = place /\ task'["dictation"] = task["dictation"] /\ AttemptsLeft'
  BY <1>1, Placed DEF Binders
<1>3. /\ registry' \in [Accelerators -> {"free", "elsewhere", "dictation", "dump"}]
      /\ toggleKey' \in Accelerator
      /\ \A a \in Accelerators : a # chosen.toggle => registry'[a] = registry[a]
      /\ ~DumpOn => UNCHANGED <<registry, toggleKey>>
  <2>1. CASE UNCHANGED <<registry, toggleKey>>
    BY <1>0, <2>1
  <2>2. CASE DumpOn /\ chosen.toggle # Unset /\ BindToggle
    <3> DEFINE r == IF registry[chosen.toggle] \in {"dictation", "dump"}
                    THEN [registry EXCEPT ![chosen.toggle] = "free"] ELSE registry
    <3>1. chosen.toggle \in Accelerators
      BY <1>0, <2>2 DEF Accelerator
    <3>2. /\ registry' = Register(r, chosen.toggle, "dump") /\ toggleKey' \in {chosen.toggle, Unset}
      BY <2>2 DEF BindToggle, TakenOver
    <3>3. /\ r \in [Accelerators -> {"free", "elsewhere", "dictation", "dump"}]
          /\ \A a \in Accelerators \ {chosen.toggle} : r[a] = registry[a]
      BY <1>0, <3>1
    <3> HIDE DEF r
    <3>4. /\ registry' \in [Accelerators -> {"free", "elsewhere", "dictation", "dump"}]
          /\ \A a \in Accelerators \ {chosen.toggle} : registry'[a] = r[a]
      BY <3>1, <3>2, <3>3, Registered
    <3> QED BY <1>0, <2>2, <3>2, <3>3, <3>4 DEF Accelerator
  <2> QED BY <2>1, <2>2 DEF ApplyDumpMode, DumpOn, BindToggle
<1>4. BindingsTyped'
  BY <1>0, <1>2, <1>3 DEF BindingsTyped, BindingTypeOK
<1>5. DumpTakesItsToggle' /\ DictationAsksForKey'
  BY <1>0, <1>1, <1>2, <1>3 DEF DumpTakesItsToggle, DumpOn, DictationAsksForKey
<1>6. DictationKeyWorks'
  BY <1>0, <1>2, <1>3 DEF DictationKeyWorks, KeysAreBound, BindingsTyped, Accelerator
<1>7. DumpKeysOnlyWhenEnabled'
  BY <1>0, <1>3 DEF DumpKeysOnlyWhenEnabled, KeysAreBound, DumpOn
<1> QED BY <1>2, <1>4, <1>5, <1>6, <1>7 DEF KeysAreBound

\* The helpers answer about the other keys; the overlay comes and goes.
LEMMA OtherKeysStep ==
    ASSUME KeysInv, ApplyAsk \/ (\E b \in Binders : HelperBound(b)) \/ AskPressed \/ AskHidden
    PROVE  KeysInv'
<1> USE DEF KeysInv
<1>1. CASE AskPressed \/ AskHidden
  BY <1>1
  DEF AskPressed, AskHidden, BindingsTyped, BindingTypeOK, DumpTakesItsToggle, DumpOn, DictationAsksForKey,
      AttemptsLeft, KeysAreBound, DictationKeyWorks, DumpKeysOnlyWhenEnabled
<1>2. CASE ApplyAsk
  <2>1. PICK place \in {"helper", "done"} : At("ask", place)
    BY <1>2 DEF ApplyAsk
  <2>2. /\ task' \in [Binders -> [at: {"fetch", "helper", "done", "gaveUp"}, attempts: 0 .. MaxAttempts]]
        /\ task'["dump"] = task["dump"] /\ task'["dictation"] = task["dictation"] /\ AttemptsLeft'
    BY <2>1, Placed DEF Binders
  <2> QED
    BY <1>2, <2>2
    DEF ApplyAsk, BindingsTyped, BindingTypeOK, DumpTakesItsToggle, DumpOn, DictationAsksForKey,
        KeysAreBound, DictationKeyWorks, DumpKeysOnlyWhenEnabled
<1>3. ASSUME NEW b \in Binders, HelperBound(b)
      PROVE  KeysInv'
  <2>1. /\ b # "dictation" /\ At(b, "done") /\ helperKeys' \in {helperKeys, helperKeys \cup {b}}
        /\ UNCHANGED <<registry, chosen, toggleKey, askWindow>> /\ task[b].at = "helper"
    BY <1>3 DEF HelperBound
  <2>2. /\ task' \in [Binders -> [at: {"fetch", "helper", "done", "gaveUp"}, attempts: 0 .. MaxAttempts]]
        /\ task'[b].at = "done" /\ AttemptsLeft' /\ \A c \in Binders \ {b} : task'[c] = task[c]
    BY <2>1, Placed
  <2>3. BindingsTyped' /\ DumpTakesItsToggle' /\ DictationAsksForKey'
    BY <2>1, <2>2 DEF BindingsTyped, BindingTypeOK, DumpTakesItsToggle, DumpOn, DictationAsksForKey, Binders
  <2>4. DictationKeyWorks'
    BY <2>1, <2>2 DEF DictationKeyWorks, KeysAreBound, Binders
  <2>5. DumpKeysOnlyWhenEnabled'
    <3>1. /\ DumpOn' <=> DumpOn
          /\ ~DumpOn => /\ toggleKey = Unset /\ "dump" \notin helperKeys
                       /\ \A a \in Accelerators : registry[a] # "dump"
          /\ DumpKeysOnlyWhenEnabled' <=>
               (~DumpOn' => /\ toggleKey' = Unset /\ "dump" \notin helperKeys'
                            /\ \A a \in Accelerators : registry'[a] # "dump")
      BY <2>1 DEF DumpKeysOnlyWhenEnabled, KeysAreBound, DumpOn
    <3>2. b = "dump" => DumpOn
      BY <2>1 DEF DumpTakesItsToggle
    <3>3. "dump" \in helperKeys' => "dump" \in helperKeys \/ b = "dump"
      BY <2>1
    <3> QED BY <2>1, <3>1, <3>2, <3>3
  <2> QED BY <2>2, <2>3, <2>4, <2>5 DEF KeysAreBound
<1> QED BY <1>1, <1>2, <1>3

LEMMA KeysStutter == ASSUME KeysInv, UNCHANGED bindingVars PROVE KeysInv'
BY DEF KeysInv, bindingVars, BindingsTyped, BindingTypeOK, DumpTakesItsToggle, DumpOn, DictationAsksForKey,
       AttemptsLeft, KeysAreBound, DictationKeyWorks, DumpKeysOnlyWhenEnabled

LEMMA KeysStep == KeysInv /\ [DesktopNext]_desktopVars => KeysInv'
<1> SUFFICES ASSUME KeysInv, [DesktopNext]_desktopVars PROVE KeysInv'
  OBVIOUS
<1>1. CASE BindingNext
  BY <1>1, FetchFailsStep, DictationStep, DumpKeysStep, OtherKeysStep DEF BindingNext, BindingSteps
<1>2. CASE UNCHANGED bindingVars
  BY <1>2, KeysStutter
<1> QED BY <1>1, <1>2 DEF DesktopNext, Dump, Voice, Keys, desktopVars

\* Whatever the order of the three functions that bind keys, and whatever fails in
\* them: the key the user chose for dictation works once the settings are applied,
\* and no key calls into a dump mode that is off.
THEOREM KeysStayBound == DesktopSpec => []KeysAreBound
<1>1. DesktopInit => KeysInv
  BY KeysInit DEF DesktopInit
<1>2. KeysInv => KeysAreBound
  BY DEF KeysInv
<1> QED BY <1>1, <1>2, KeysStep, PTL DEF DesktopSpec

\* A recording that is forgotten leaves no session, number or phase of its own behind, in either
\* orchestrator, and the retries of the settings stay within their bound.
THEOREM DesktopTypeCorrect == DesktopSpec => []DesktopTypeOK
<1>1. DesktopInit => DumpTypeOK /\ DumpInv /\ DictationTypeOK /\ VoiceInv /\ KeysInv
  BY DumpBeginsWell, VoiceBeginsWell, KeysInit DEF DesktopInit
<1>2. DumpTypeOK /\ DictationTypeOK /\ KeysInv => DesktopTypeOK
  BY DEF KeysInv, BindingsTyped, DesktopTypeOK
<1> QED BY <1>1, <1>2, DumpStep, VoiceStep, KeysStep, PTL DEF DesktopSpec
==============================================================================
