----------------------------- MODULE SagasProofs -----------------------------
(****************************************************************************)
(* Lemmas about the sagas' engine, for any tasks: what a newer task of a    *)
(* watcher, an answer and a resumption leave of the others. A task of the   *)
(* new sequence is found in the old one by a one-to-one map of the indices, *)
(* h.                                                                       *)
(****************************************************************************)
EXTENDS Sagas, SequenceTheorems, TLAPS

Newest == INSTANCE PutsProofs WITH Op <- LAMBDA x, kept, t :
       CASE t.saga # x[1] -> Append(kept, t)
         [] t.saga = x[1] /\ t.pc \in x[2] -> Append(kept, [t EXCEPT !.live = FALSE])
         [] OTHER -> kept

IsTask(t) ==
  DOMAIN t = {"saga", "arg", "pc", "ok", "ans", "live", "late"} /\ t.ok \in BOOLEAN /\ t.live \in BOOLEAN
AreTasks(ts) == ts \in Seq({ts[i] : i \in DOMAIN ts}) /\ \A i \in DOMAIN ts : IsTask(ts[i])
\* The same request, in the same state; it may be marked as late or as cancelled.
Same(t, u) == t.saga = u.saga /\ t.arg = u.arg /\ t.pc = u.pc /\ t.ok = u.ok /\ t.ans = u.ans
OneToOne(h) == \A k, l \in DOMAIN h : h[k] = h[l] => k = l
Indices(h, new, old) == h \in [DOMAIN new -> DOMAIN old] /\ OneToOne(h)
Hits(h, j) == \E k \in DOMAIN h : h[k] = j

LEMMA TasksAre == ASSUME NEW ts, AreTasks(ts) PROVE Len(ts) \in Nat /\ DOMAIN ts = 1 .. Len(ts)
BY DEF AreTasks
LEMMA AreSeq == ASSUME NEW S, NEW ts \in Seq(S), \A i \in DOMAIN ts : IsTask(ts[i]) PROVE AreTasks(ts)
<1>1. ts \in Seq({ts[i] : i \in DOMAIN ts})
  <2>1. Len(ts) \in Nat /\ DOMAIN ts = 1 .. Len(ts) /\ ts = [i \in 1 .. Len(ts) |-> ts[i]]
    OBVIOUS
  <2> QED BY <2>1, IsASeq
<1> QED BY <1>1 DEF AreTasks

LEMMA AppendTask ==
  ASSUME NEW ts, AreTasks(ts), NEW t, IsTask(t)
  PROVE  /\ AreTasks(Append(ts, t))
         /\ DOMAIN Append(ts, t) = 1 .. Len(ts) + 1
         /\ Append(ts, t)[Len(ts) + 1] = t
         /\ \A k \in DOMAIN ts : Append(ts, t)[k] = ts[k]
<1> DEFINE S == {ts[i] : i \in DOMAIN ts} \cup {t}
           more == Append(ts, t)
<1>1. ts \in Seq(S) /\ t \in S
  <2>1. ts \in Seq({ts[i] : i \in DOMAIN ts}) /\ {ts[i] : i \in DOMAIN ts} \subseteq S
    BY DEF AreTasks
  <2> HIDE DEF S
  <2> QED BY <2>1 DEF S
<1> HIDE DEF S
<1>2. /\ more \in Seq(S) /\ Len(more) = Len(ts) + 1 /\ DOMAIN more = 1 .. Len(ts) + 1 /\ DOMAIN ts = 1 .. Len(ts)
      /\ Len(ts) \in Nat /\ more[Len(ts) + 1] = t /\ \A k \in 1 .. Len(ts) : more[k] = ts[k]
  BY <1>1
<1> HIDE DEF more
<1>3. ASSUME NEW k \in DOMAIN more PROVE IsTask(more[k])
  <2>1. k = Len(ts) + 1 \/ k \in 1 .. Len(ts)
    BY <1>2
  <2> QED BY <2>1, <1>2 DEF AreTasks
<1>4. AreTasks(more)
  BY <1>2, <1>3, AreSeq
<1> QED BY <1>2, <1>4 DEF more

LEMMA NoTasks == AreTasks(<< >>)
<1>1. << >> \in Seq({}) /\ DOMAIN << >> = {}
  OBVIOUS
<1> QED BY <1>1, AreSeq

LEMMA Request == ASSUME NEW saga, NEW arg PROVE
  /\ IsTask(gqlRequest(saga, arg)) /\ gqlRequest(saga, arg).saga = saga /\ gqlRequest(saga, arg).arg = arg
  /\ gqlRequest(saga, arg).pc = "call" /\ gqlRequest(saga, arg).ok = TRUE /\ gqlRequest(saga, arg).live = TRUE
  /\ gqlRequest(saga, arg).ans = Nothing
BY DEF gqlRequest, IsTask

LEMMA SupersededFold == ASSUME NEW ts, NEW saga, NEW sent PROVE Superseded(ts, saga, sent) = Newest!Fold(<<saga, sent>>, << >>, ts)
BY DEF Newest!Fold, Superseded, Newest!Folds, Newest!Step, Newest!Greatest, FoldLeft, MapThenFoldSet, Max
LEMMA SupersededNone == ASSUME NEW saga, NEW sent PROVE Superseded(<< >>, saga, sent) = << >>
BY SupersededFold, Newest!FoldNone
LEMMA SupersededAppend ==
  ASSUME NEW S, NEW ts \in Seq(S), NEW t, NEW saga, NEW sent
  PROVE  Superseded(Append(ts, t), saga, sent) =
           CASE t.saga # saga -> Append(Superseded(ts, saga, sent), t)
             [] t.saga = saga /\ t.pc \in sent -> Append(Superseded(ts, saga, sent), [t EXCEPT !.live = FALSE])
             [] OTHER -> Superseded(ts, saga, sent)
<1>1. Newest!Fold(<<saga, sent>>, << >>, Append(ts, t)) =
        CASE t.saga # saga -> Append(Newest!Fold(<<saga, sent>>, << >>, ts), t)
             [] t.saga = saga /\ t.pc \in sent -> Append(Newest!Fold(<<saga, sent>>, << >>, ts), [t EXCEPT !.live = FALSE])
             [] OTHER -> Newest!Fold(<<saga, sent>>, << >>, ts)
  BY Newest!FoldAppend
<1> QED BY <1>1, SupersededFold

\* What a newer task of the watcher leaves: the others as they are, and of its own those already sent, cancelled.
Leaves(kept, ts, saga, sent, h) ==
  /\ AreTasks(kept)
  /\ Indices(h, kept, ts)
  /\ \A k \in DOMAIN kept : /\ Same(kept[k], ts[h[k]])
                            /\ kept[k].saga # saga => kept[k] = ts[h[k]]
                            /\ kept[k].saga = saga => kept[k].pc \in sent /\ kept[k].live = FALSE
  /\ \A j \in DOMAIN ts : ts[j].saga # saga \/ ts[j].pc \in sent => Hits(h, j)

LEMMA LeavesMore ==
  ASSUME NEW ts, AreTasks(ts), NEW saga, NEW sent, NEW t, IsTask(t), NEW kept, NEW h, Leaves(kept, ts, saga, sent, h), NEW u,
         IsTask(u), Same(u, t),
         \/ t.saga # saga /\ u = t
         \/ t.saga = saga /\ t.pc \in sent /\ u.live = FALSE
  PROVE  \E g : Leaves(Append(kept, u), Append(ts, t), saga, sent, g)
<1> DEFINE n == Len(kept)
           g == [k \in 1 .. n + 1 |-> IF k = n + 1 THEN Len(ts) + 1 ELSE h[k]]
           more == Append(ts, t)
           new == Append(kept, u)
<1>1. AreTasks(kept) /\ n \in Nat /\ DOMAIN kept = 1 .. n /\ Len(ts) \in Nat /\ DOMAIN ts = 1 .. Len(ts)
  BY TasksAre DEF Leaves
<1>2. /\ AreTasks(new) /\ DOMAIN new = 1 .. n + 1 /\ new[n + 1] = u /\ \A k \in 1 .. n : new[k] = kept[k]
  BY <1>1, AppendTask
<1>3. /\ AreTasks(more) /\ DOMAIN more = 1 .. Len(ts) + 1 /\ more[Len(ts) + 1] = t /\ \A k \in 1 .. Len(ts) : more[k] = ts[k]
  BY <1>1, AppendTask
<1> HIDE DEF n, new, more
<1>4. \A k \in 1 .. n : g[k] = h[k] /\ h[k] \in 1 .. Len(ts)
  BY <1>1 DEF Leaves, Indices
<1>5. g[n + 1] = Len(ts) + 1 /\ DOMAIN g = 1 .. n + 1 /\ g = [k \in 1 .. n + 1 |-> g[k]]
  BY <1>1
<1> HIDE DEF g
<1>6. g \in [DOMAIN new -> DOMAIN more]
  <2>1. ASSUME NEW k \in 1 .. n + 1 PROVE g[k] \in 1 .. Len(ts) + 1
    <3>1. k = n + 1 \/ k \in 1 .. n
      BY <1>1
    <3>2. CASE k \in 1 .. n
      <4>1. g[k] \in 1 .. Len(ts)
        BY <3>2, <1>4
      <4> QED BY <4>1, <1>1
    <3>3. CASE k = n + 1
      BY <3>3, <1>5, <1>1
    <3> QED BY <3>1, <3>2, <3>3
  <2> QED BY <2>1, <1>5, <1>2, <1>3
<1>7. OneToOne(g)
  <2> SUFFICES ASSUME NEW k \in 1 .. n + 1, NEW l \in 1 .. n + 1, g[k] = g[l] PROVE k = l
    BY <1>5 DEF OneToOne
  <2>1. CASE k = n + 1 /\ l # n + 1
    <3>1. l \in 1 .. n
      BY <2>1, <1>1
    <3>2. g[l] \in 1 .. Len(ts)
      BY <3>1, <1>4
    <3>3. g[k] = Len(ts) + 1
      BY <2>1, <1>5
    <3> QED BY <3>2, <3>3, <1>1
  <2>2. CASE k # n + 1 /\ l = n + 1
    <3>1. k \in 1 .. n
      BY <2>2, <1>1
    <3>2. g[k] \in 1 .. Len(ts)
      BY <3>1, <1>4
    <3>3. g[l] = Len(ts) + 1
      BY <2>2, <1>5
    <3> QED BY <3>2, <3>3, <1>1
  <2>3. CASE k # n + 1 /\ l # n + 1
    <3>1. k \in 1 .. n /\ l \in 1 .. n
      BY <2>3, <1>1
    <3> QED BY <3>1, <1>4, <1>1 DEF Leaves, Indices, OneToOne
  <2> QED BY <2>1, <2>2, <2>3
<1>8. ASSUME NEW k \in DOMAIN new
      PROVE  /\ Same(new[k], more[g[k]])
             /\ new[k].saga # saga => new[k] = more[g[k]]
             /\ new[k].saga = saga => new[k].pc \in sent /\ new[k].live = FALSE
  <2>1. CASE k = n + 1
    BY <2>1, <1>2, <1>3, <1>5 DEF Same
  <2>2. CASE k # n + 1
    <3>1. k \in 1 .. n
      BY <2>2, <1>1, <1>2
    <3>2. new[k] = kept[k] /\ more[g[k]] = ts[h[k]]
      BY <3>1, <1>2, <1>3, <1>4
    <3> QED BY <3>1, <3>2, <1>1 DEF Leaves
  <2> QED BY <2>1, <2>2
<1>9. ASSUME NEW j \in DOMAIN more, more[j].saga # saga \/ more[j].pc \in sent PROVE Hits(g, j)
  <2>1. CASE j = Len(ts) + 1
    BY <2>1, <1>1, <1>5 DEF Hits
  <2>2. CASE j # Len(ts) + 1
    <3>1. j \in DOMAIN ts /\ more[j] = ts[j]
      BY <2>2, <1>1, <1>3
    <3>2. PICK k \in DOMAIN h : h[k] = j
      BY <3>1, <1>9 DEF Leaves, Hits
    <3>3. k \in 1 .. n /\ k \in 1 .. n + 1
      BY <1>1 DEF Leaves, Indices
    <3> QED BY <3>2, <3>3, <1>4, <1>5 DEF Hits
  <2> QED BY <2>1, <2>2
<1>10. Leaves(new, more, saga, sent, g)
  BY <1>2, <1>6, <1>7, <1>8, <1>9 DEF Leaves, Indices
<1> QED BY <1>10 DEF new, more

LEMMA LeavesLess ==
  ASSUME NEW ts, AreTasks(ts), NEW saga, NEW sent, NEW t, IsTask(t), NEW kept, NEW h, Leaves(kept, ts, saga, sent, h),
         t.saga = saga, t.pc \notin sent
  PROVE  \E g : Leaves(kept, Append(ts, t), saga, sent, g)
<1> DEFINE more == Append(ts, t)
<1>1. AreTasks(kept) /\ Len(ts) \in Nat /\ DOMAIN ts = 1 .. Len(ts)
  BY TasksAre DEF Leaves
<1>3. /\ AreTasks(more) /\ DOMAIN more = 1 .. Len(ts) + 1 /\ more[Len(ts) + 1] = t /\ \A k \in 1 .. Len(ts) : more[k] = ts[k]
  BY <1>1, AppendTask
<1> HIDE DEF more
<1>4. \A k \in DOMAIN kept : h[k] \in DOMAIN ts /\ more[h[k]] = ts[h[k]]
  BY <1>1, <1>3 DEF Leaves, Indices
<1>5. Indices(h, kept, more)
  BY <1>1, <1>3, <1>4 DEF Leaves, Indices
<1>6. ASSUME NEW j \in DOMAIN more, more[j].saga # saga \/ more[j].pc \in sent PROVE Hits(h, j)
  <2>1. j # Len(ts) + 1
    BY <1>3, <1>6
  <2>2. j \in DOMAIN ts /\ more[j] = ts[j]
    BY <2>1, <1>1, <1>3
  <2> QED BY <2>2, <1>6 DEF Leaves
<1>7. Leaves(kept, more, saga, sent, h)
  BY <1>4, <1>5, <1>6 DEF Leaves
<1> QED BY <1>7 DEF more

LEMMA SubSeqSucc ==
  ASSUME NEW S, NEW ts \in Seq(S), NEW n \in Nat, n + 1 <= Len(ts)
  PROVE  SubSeq(ts, 1, n + 1) = Append(SubSeq(ts, 1, n), ts[n + 1])
<1> DEFINE a == SubSeq(ts, 1, n + 1)
           b == SubSeq(ts, 1, n)
           c == Append(b, ts[n + 1])
<1>0. Len(ts) \in Nat /\ ts[n + 1] \in S
  OBVIOUS
<1>1. a \in Seq(S) /\ Len(a) = n + 1 /\ \A k \in 1 .. n + 1 : a[k] = ts[k]
  OBVIOUS
<1>2. b \in Seq(S) /\ Len(b) = n /\ \A k \in 1 .. n : b[k] = ts[k]
  OBVIOUS
<1> HIDE DEF a, b
<1>3. c \in Seq(S) /\ Len(c) = n + 1 /\ c[n + 1] = ts[n + 1] /\ \A k \in 1 .. n : c[k] = ts[k]
  BY <1>0, <1>2
<1> HIDE DEF c
<1>4. ASSUME NEW k \in 1 .. n + 1 PROVE a[k] = c[k]
  <2>1. k = n + 1 \/ k \in 1 .. n
    OBVIOUS
  <2> QED BY <2>1, <1>1, <1>3
<1>5. a = c
  BY <1>1, <1>3, <1>4, SeqEqual
<1> QED BY <1>5 DEF a, b, c

LEMMA SupersededStep ==
  ASSUME NEW ts, AreTasks(ts), NEW saga, NEW sent, NEW t, IsTask(t),
         NEW h, Leaves(Superseded(ts, saga, sent), ts, saga, sent, h)
  PROVE  \E g : Leaves(Superseded(Append(ts, t), saga, sent), Append(ts, t), saga, sent, g)
<1> DEFINE kept == Superseded(ts, saga, sent)
           new == Superseded(Append(ts, t), saga, sent)
           u == [t EXCEPT !.live = FALSE]
<1>1. new = CASE t.saga # saga -> Append(kept, t)
             [] t.saga = saga /\ t.pc \in sent -> Append(kept, u)
             [] OTHER -> kept
  <2>1. ts \in Seq({ts[i] : i \in DOMAIN ts})
    BY DEF AreTasks
  <2> QED BY <2>1, SupersededAppend
<1>2. Same(u, t) /\ IsTask(u) /\ u.live = FALSE /\ Same(t, t)
  BY DEF Same, IsTask
<1> HIDE DEF kept, new, u
<1>3. Leaves(kept, ts, saga, sent, h)
  BY DEF kept
<1>4. CASE t.saga # saga
  <2>1. \E g : Leaves(Append(kept, t), Append(ts, t), saga, sent, g)
    BY <1>2, <1>3, <1>4, LeavesMore
  <2> QED BY <1>1, <1>4, <2>1 DEF new
<1>5. CASE t.saga = saga /\ t.pc \in sent
  <2>1. \E g : Leaves(Append(kept, u), Append(ts, t), saga, sent, g)
    BY <1>2, <1>3, <1>5, LeavesMore
  <2> QED BY <1>1, <1>5, <2>1 DEF new
<1>6. CASE t.saga = saga /\ t.pc \notin sent
  <2>1. \E g : Leaves(kept, Append(ts, t), saga, sent, g)
    BY <1>3, <1>6, LeavesLess
  <2> QED BY <1>1, <1>6, <2>1 DEF new
<1> QED BY <1>4, <1>5, <1>6

LEMMA SupersededLeaves ==
  ASSUME NEW ts, AreTasks(ts), NEW saga, NEW sent
  PROVE  \E h : Leaves(Superseded(ts, saga, sent), ts, saga, sent, h)
<1> DEFINE P(us) == AreTasks(us) /\ \E h : Leaves(Superseded(us, saga, sent), us, saga, sent, h)
           T == {n \in Nat : n <= Len(ts) => P(SubSeq(ts, 1, n))}
<1>1. Len(ts) \in Nat /\ DOMAIN ts = 1 .. Len(ts) /\ ts \in Seq({ts[i] : i \in DOMAIN ts})
  BY TasksAre DEF AreTasks
<1>2. 0 \in T
  <2>1. SubSeq(ts, 1, 0) = << >>
    BY <1>1
  <2>2. Indices(<< >>, << >>, << >>)
    BY DEF Indices, OneToOne
  <2>3. Leaves(<< >>, << >>, saga, sent, << >>)
    BY <2>2, NoTasks DEF Leaves
  <2>4. P(<< >>)
    BY <2>3, NoTasks, SupersededNone
  <2> HIDE DEF P
  <2> QED BY <2>1, <2>4
<1>3. ASSUME NEW n \in T PROVE n + 1 \in T
  <2> SUFFICES ASSUME n + 1 <= Len(ts) PROVE P(SubSeq(ts, 1, n + 1))
    OBVIOUS
  <2> DEFINE t == ts[n + 1]
             first == SubSeq(ts, 1, n)
  <2>1. n \in Nat /\ n <= Len(ts) /\ n + 1 \in DOMAIN ts
    BY <1>1
  <2>2. IsTask(t)
    BY <2>1 DEF AreTasks
  <2>3. P(first)
    BY <2>1
  <2>4. SubSeq(ts, 1, n + 1) = Append(first, t)
    BY <2>1, <1>1, SubSeqSucc
  <2> HIDE DEF first, t
  <2>5. AreTasks(Append(first, t))
    BY <2>2, <2>3, AppendTask
  <2>6. PICK h : Leaves(Superseded(first, saga, sent), first, saga, sent, h)
    BY <2>3
  <2>7. P(Append(first, t))
    BY <2>2, <2>3, <2>5, <2>6, SupersededStep
  <2> HIDE DEF P
  <2> QED BY <2>4, <2>7
<1> HIDE DEF T, P
<1>4. Len(ts) \in T
  BY <1>1, <1>2, <1>3, Newest!NaturalsInductive
<1>5. SubSeq(ts, 1, Len(ts)) = ts
  BY <1>1, SubSeqFull
<1>6. P(SubSeq(ts, 1, Len(ts)))
  BY <1>1, <1>4 DEF T
<1> QED BY <1>5, <1>6 DEF P

(* The flight of a request. *)
LEMMA OvertakenTasks ==
  ASSUME NEW ts, AreTasks(ts)
  PROVE  /\ AreTasks(Overtaken(ts)) /\ DOMAIN Overtaken(ts) = DOMAIN ts /\ Len(Overtaken(ts)) = Len(ts)
         /\ \A k \in DOMAIN ts : Same(Overtaken(ts)[k], ts[k]) /\ Overtaken(ts)[k].live = ts[k].live
<1> DEFINE new == Overtaken(ts)
<1>1. Len(ts) \in Nat /\ DOMAIN ts = 1 .. Len(ts)
  BY TasksAre
<1>2. new = [k \in 1 .. Len(ts) |-> IF ts[k].pc = "back" THEN [ts[k] EXCEPT !.late = TRUE] ELSE ts[k]]
  BY <1>1 DEF Overtaken
<1>3. DOMAIN new = DOMAIN ts /\ new = [k \in 1 .. Len(ts) |-> new[k]]
  BY <1>1, <1>2
<1>4. \A k \in DOMAIN ts : new[k] = IF ts[k].pc = "back" THEN [ts[k] EXCEPT !.late = TRUE] ELSE ts[k]
  BY <1>1, <1>2
<1> HIDE DEF new
<1>5. \A k \in DOMAIN ts : IsTask(new[k]) /\ Same(new[k], ts[k]) /\ new[k].live = ts[k].live
  BY <1>4 DEF AreTasks, IsTask, Same
<1>6. new \in Seq({new[k] : k \in 1 .. Len(ts)})
  BY <1>1, <1>3, IsASeq
<1>7. AreTasks(new) /\ Len(new) = Len(ts)
  <2>1. Len(new) = Len(ts)
    BY <1>1, <1>3, <1>6
  <2>2. \A k \in DOMAIN new : IsTask(new[k])
    BY <1>3, <1>5
  <2> QED BY <1>6, <2>1, <2>2, AreSeq, Zenon
<1> QED BY <1>3, <1>5, <1>7 DEF new

\* Task i is gone; the others are as they were, but for what `late` says.
Without(new, ts, i, h) ==
  /\ AreTasks(new)
  /\ Indices(h, new, ts)
  /\ \A k \in DOMAIN new : h[k] # i /\ Same(new[k], ts[h[k]]) /\ new[k].live = ts[h[k]].live
  /\ \A j \in DOMAIN ts \ {i} : Hits(h, j)

LEMMA CutTask ==
  ASSUME NEW ts, AreTasks(ts), NEW us, AreTasks(us), Len(us) = Len(ts), NEW i \in DOMAIN ts,
         \A k \in DOMAIN ts : Same(us[k], ts[k]) /\ us[k].live = ts[k].live,
         NEW vs, AreTasks(vs), Len(vs) = Len(ts),
         \A k \in DOMAIN ts : Same(vs[k], ts[k]) /\ vs[k].live = ts[k].live
  PROVE  \E h : Without(SubSeq(us, 1, i - 1) \o SubSeq(vs, i + 1, Len(ts)), ts, i, h)
<1> DEFINE n == Len(ts)
           a == SubSeq(us, 1, i - 1)
           b == SubSeq(vs, i + 1, n)
           new == a \o b
           h == [k \in 1 .. n - 1 |-> IF k < i THEN k ELSE k + 1]
           S == {us[k] : k \in DOMAIN us} \cup {vs[k] : k \in DOMAIN vs}
<1>1. n \in Nat /\ i \in 1 .. n /\ DOMAIN ts = 1 .. n /\ DOMAIN us = 1 .. n /\ DOMAIN vs = 1 .. n
  BY TasksAre
<1>2. us \in Seq(S) /\ vs \in Seq(S)
  <2>1. us \in Seq({us[k] : k \in DOMAIN us}) /\ vs \in Seq({vs[k] : k \in DOMAIN vs})
    BY DEF AreTasks
  <2>2. {us[k] : k \in DOMAIN us} \subseteq S /\ {vs[k] : k \in DOMAIN vs} \subseteq S
    OBVIOUS
  <2> HIDE DEF S
  <2> QED BY <2>1, <2>2
<1> HIDE DEF S, n
<1>3. a \in Seq(S) /\ Len(a) = i - 1 /\ \A k \in 1 .. i - 1 : a[k] = us[k]
  BY <1>1, <1>2
<1>4. b \in Seq(S) /\ Len(b) = n - i /\ \A k \in 1 .. n - i : b[k] = vs[k + i]
  <2>1. b \in Seq(S) /\ Len(b) = n - i
    BY <1>1, <1>2
  <2>2. ASSUME NEW k \in 1 .. n - i PROVE b[k] = vs[k + i]
    <3>1. b[k] = vs[(i + 1) + k - 1] /\ (i + 1) + k - 1 = k + i
      BY <1>1, <1>2
    <3> QED BY <3>1
  <2> QED BY <2>1, <2>2
<1> HIDE DEF a, b
<1>5. new \in Seq(S) /\ Len(new) = n - 1 /\ DOMAIN new = 1 .. n - 1
  <2>0. a \in Seq(S) /\ b \in Seq(S)
    BY <1>3, <1>4
  <2>1. new \in Seq(S) /\ Len(new) = Len(a) + Len(b)
    BY <2>0, ConcatProperties
  <2> HIDE DEF new
  <2>2. Len(a) + Len(b) = n - 1
    BY <1>1, <1>3, <1>4
  <2>3. DOMAIN new = 1 .. Len(new)
    BY <2>1
  <2> QED BY <2>1, <2>2, <2>3
<1>6. ASSUME NEW k \in 1 .. n - 1
      PROVE  h[k] \in 1 .. n /\ h[k] # i /\ (new[k] = us[h[k]] \/ new[k] = vs[h[k]])
  <2>1. CASE k < i
    <3>1. k \in 1 .. i - 1 /\ h[k] = k
      BY <2>1, <1>1
    <3>2. new[k] = a[k]
      BY <3>1, <1>1, <1>3, <1>4
    <3> QED BY <3>1, <3>2, <1>1, <1>3
  <2>2. CASE ~(k < i)
    <3>1. k - (i - 1) \in 1 .. n - i /\ h[k] = k + 1
      BY <2>2, <1>1
    <3>2. new[k] = b[k - (i - 1)]
      BY <2>2, <3>1, <1>1, <1>3, <1>4
    <3>3. (k - (i - 1)) + i = k + 1 /\ k + 1 \in 1 .. n /\ k + 1 # i
      BY <2>2, <1>1
    <3>4. b[k - (i - 1)] = vs[(k - (i - 1)) + i]
      BY <3>1, <1>4
    <3> HIDE DEF h, new
    <3> QED BY <3>1, <3>2, <3>3, <3>4
  <2> QED BY <2>1, <2>2
<1>7. DOMAIN h = 1 .. n - 1 /\ h \in [1 .. n - 1 -> 1 .. n]
  BY <1>6
<1>8. OneToOne(h)
  BY <1>1 DEF OneToOne
<1>9. ASSUME NEW j \in 1 .. n, j # i PROVE Hits(h, j)
  <2>1. CASE j < i
    <3>1. j \in 1 .. n - 1 /\ h[j] = j
      BY <2>1, <1>1
    <3> QED BY <3>1, <1>7 DEF Hits
  <2>2. CASE ~(j < i)
    <3>1. j - 1 \in 1 .. n - 1 /\ h[j - 1] = j
      BY <2>2, <1>1, <1>9
    <3> QED BY <3>1, <1>7 DEF Hits
  <2> QED BY <2>1, <2>2
<1> HIDE DEF h, new
<1>10. \A k \in 1 .. n - 1 : IsTask(new[k]) /\ Same(new[k], ts[h[k]]) /\ new[k].live = ts[h[k]].live
  <2> SUFFICES ASSUME NEW k \in 1 .. n - 1 PROVE IsTask(new[k]) /\ Same(new[k], ts[h[k]]) /\ new[k].live = ts[h[k]].live
    OBVIOUS
  <2>1. CASE new[k] = us[h[k]]
    BY <2>1, <1>1, <1>6 DEF AreTasks
  <2>2. CASE new[k] = vs[h[k]]
    BY <2>2, <1>1, <1>6 DEF AreTasks
  <2> QED BY <2>1, <2>2, <1>6
<1>11. AreTasks(new)
  BY <1>5, <1>10, AreSeq
<1>12. Without(new, ts, i, h)
  BY <1>1, <1>5, <1>6, <1>7, <1>8, <1>9, <1>10, <1>11 DEF Without, Indices
<1> QED BY <1>12 DEF new, a, b, n

\* Task u has come back, as t.
Back(t, u, ok, ans) ==
  t.saga = u.saga /\ t.arg = u.arg /\ t.live = u.live /\ t.pc = "back" /\ t.ok = ok /\ t.ans = ans
\* Task i has come back, or is gone if nobody waits for it; the others are as they were.
HandedOver(new, ts, i, ok, ans, h) ==
  /\ AreTasks(new)
  /\ Indices(h, new, ts)
  /\ \A k \in DOMAIN new : h[k] # i => Same(new[k], ts[h[k]]) /\ new[k].live = ts[h[k]].live
  /\ \A k \in DOMAIN new : h[k] = i => ts[i].live /\ Back(new[k], ts[i], ok, ans)
  /\ \A j \in DOMAIN ts : j # i \/ ts[i].live => Hits(h, j)

LEMMA DeliverTasks ==
  ASSUME AreTasks(tasks), NEW i \in DOMAIN tasks, NEW ts, ts = tasks \/ ts = Overtaken(tasks),
         NEW ok \in BOOLEAN, NEW ans, Deliver(ts, i, ok, ans)
  PROVE  \E h : HandedOver(tasks', tasks, i, ok, ans, h)
<1> DEFINE r == RemoveAt(ts, i)
           b == [tasks[i] EXCEPT !.pc = "back", !.ok = ok, !.ans = ans]
           n == Len(r)
<1>1. /\ AreTasks(ts) /\ Len(ts) = Len(tasks)
      /\ \A k \in DOMAIN tasks : Same(ts[k], tasks[k]) /\ ts[k].live = tasks[k].live
  BY OvertakenTasks DEF Same
<1>2. r = SubSeq(ts, 1, i - 1) \o SubSeq(ts, i + 1, Len(tasks))
  BY <1>1 DEF RemoveAt
<1>3. PICK g : Without(r, tasks, i, g)
  BY <1>1, <1>2, CutTask
<1>4. IsTask(b) /\ Back(b, tasks[i], ok, ans)
  BY DEF AreTasks, IsTask, Back
<1>5. tasks' = IF tasks[i].live THEN Append(r, b) ELSE r
  BY DEF Deliver
<1> HIDE DEF r, b
<1>6. CASE tasks[i].live = FALSE
  <2>1. HandedOver(r, tasks, i, ok, ans, g)
    BY <1>3, <1>6 DEF Without, HandedOver, Indices
  <2> QED BY <1>5, <1>6, <2>1
<1>7. CASE tasks[i].live = TRUE
  <2> DEFINE new == Append(r, b)
             h == [k \in 1 .. n + 1 |-> IF k = n + 1 THEN i ELSE g[k]]
  <2>1. AreTasks(r) /\ n \in Nat /\ DOMAIN r = 1 .. n
    BY <1>3, TasksAre DEF Without
  <2>2. AreTasks(new) /\ DOMAIN new = 1 .. n + 1 /\ new[n + 1] = b /\ \A k \in 1 .. n : new[k] = r[k]
    BY <1>4, <2>1, AppendTask
  <2> HIDE DEF n, new
  <2>3. DOMAIN h = 1 .. n + 1 /\ h = [k \in 1 .. n + 1 |-> h[k]] /\ h[n + 1] = i
    BY <2>1
  <2>4. \A k \in 1 .. n : h[k] = g[k] /\ g[k] \in DOMAIN tasks /\ g[k] # i
    BY <2>1, <1>3 DEF Without, Indices
  <2> HIDE DEF h
  <2>5. \A k \in 1 .. n + 1 : k = n + 1 \/ (k \in 1 .. n /\ k # n + 1)
    BY <2>1
  <2>6. h \in [DOMAIN new -> DOMAIN tasks]
    BY <2>2, <2>3, <2>4, <2>5
  <2>7. OneToOne(h)
    <3> SUFFICES ASSUME NEW k \in 1 .. n + 1, NEW l \in 1 .. n + 1, h[k] = h[l] PROVE k = l
      BY <2>3 DEF OneToOne
    <3>1. CASE k \in 1 .. n /\ l \in 1 .. n
      BY <3>1, <2>1, <2>4, <1>3 DEF Without, Indices, OneToOne
    <3> QED BY <3>1, <2>3, <2>4, <2>5
  <2>8. ASSUME NEW k \in DOMAIN new, h[k] # i PROVE Same(new[k], tasks[h[k]]) /\ new[k].live = tasks[h[k]].live
    <3>1. k \in 1 .. n
      BY <2>8, <2>2, <2>3, <2>5
    <3> QED BY <3>1, <2>1, <2>2, <2>4, <1>3 DEF Without
  <2>9. ASSUME NEW k \in DOMAIN new, h[k] = i PROVE tasks[i].live /\ Back(new[k], tasks[i], ok, ans)
    <3>1. k = n + 1
      BY <2>9, <2>2, <2>4, <2>5
    <3> QED BY <3>1, <2>2, <1>4, <1>7
  <2>10. ASSUME NEW j \in DOMAIN tasks PROVE Hits(h, j)
    <3>1. CASE j = i
      BY <3>1, <2>1, <2>3 DEF Hits
    <3>2. CASE j # i
      <4>1. PICK k \in DOMAIN g : g[k] = j
        BY <3>2, <1>3 DEF Without, Hits
      <4>2. k \in 1 .. n /\ k \in 1 .. n + 1
        BY <2>1, <1>3 DEF Without, Indices
      <4> QED BY <4>1, <4>2, <2>3, <2>4 DEF Hits
    <3> QED BY <3>1, <3>2
  <2>11. HandedOver(new, tasks, i, ok, ans, h)
    BY <2>2, <2>6, <2>7, <2>8, <2>9, <2>10 DEF HandedOver, Indices
  <2> QED BY <1>5, <1>7, <2>11 DEF new
<1>8. tasks[i].live \in BOOLEAN
  BY DEF AreTasks, IsTask
<1> QED BY <1>6, <1>7, <1>8

LEMMA AnswerTasks ==
  ASSUME AreTasks(tasks), NEW i \in DOMAIN tasks, NEW sv, NEW ans, NEW told \in BOOLEAN,
         AnswerTelling(i, sv, ans, told)
  PROVE  \E ok, h :
           /\ ok \in BOOLEAN
           /\ HandedOver(tasks', tasks, i, ok, ans, h)
           /\ ok \/ broken'
           /\ broken \in BOOLEAN => (broken' = (broken \/ ~ok))
<1> DEFINE unseen(ok) == ~(ok /\ told) /\ sv # srv
<1>1. MayFail \in BOOLEAN
  BY DEF MayFail
<1>2. PICK ok \in {TRUE, ~MayFail} : /\ Deliver(IF unseen(ok) THEN Overtaken(tasks) ELSE tasks, i, ok, ans)
                                     /\ broken' = (broken \/ ~ok)
  BY DEF AnswerTelling
<1>3. ok \in BOOLEAN
  BY <1>1
<1> DEFINE ts == IF unseen(ok) THEN Overtaken(tasks) ELSE tasks
<1>4. ts = tasks \/ ts = Overtaken(tasks)
  OBVIOUS
<1>5. Deliver(ts, i, ok, ans)
  BY <1>2
<1> HIDE DEF ts
<1>6. \E h : HandedOver(tasks', tasks, i, ok, ans, h)
  BY <1>3, <1>4, <1>5, DeliverTasks
<1>7. PICK h : HandedOver(tasks', tasks, i, ok, ans, h)
  BY <1>6
<1>8. ok \in BOOLEAN /\ HandedOver(tasks', tasks, i, ok, ans, h) /\ (ok \/ broken')
      /\ (broken \in BOOLEAN => (broken' = (broken \/ ~ok)))
  BY <1>2, <1>3, <1>7
<1> QED BY ONLY <1>8

LEMMA ResumeTasks ==
  ASSUME AreTasks(tasks), NEW i \in DOMAIN tasks
  PROVE  \E h : Without(Overtaken(SubSeq(tasks, 1, i - 1)) \o SubSeq(tasks, i + 1, Len(tasks)), tasks, i, h)
<1> DEFINE us == Overtaken(tasks)
           a == SubSeq(us, 1, i - 1)
           b == Overtaken(SubSeq(tasks, 1, i - 1))
           n == Len(tasks)
           S == {us[k] : k \in DOMAIN us}
           R == {tasks[k] : k \in DOMAIN tasks}
<1>1. n \in Nat /\ i \in 1 .. n /\ DOMAIN tasks = 1 .. n /\ tasks \in Seq(R)
  BY TasksAre DEF AreTasks
<1>2. /\ AreTasks(us) /\ DOMAIN us = 1 .. n /\ Len(us) = n
      /\ \A k \in DOMAIN tasks : Same(us[k], tasks[k]) /\ us[k].live = tasks[k].live
  BY <1>1, OvertakenTasks
<1>3. us \in Seq(S)
  BY <1>2 DEF AreTasks
<1>4. \A k \in 1 .. n : us[k] = IF tasks[k].pc = "back" THEN [tasks[k] EXCEPT !.late = TRUE] ELSE tasks[k]
  BY <1>1 DEF Overtaken
<1> HIDE DEF us, n, S, R
<1>5. a \in Seq(S) /\ Len(a) = i - 1 /\ \A k \in 1 .. i - 1 : a[k] = us[k]
  BY <1>1, <1>2, <1>3
<1> DEFINE c == SubSeq(tasks, 1, i - 1)
<1>6. c \in Seq(R) /\ Len(c) = i - 1 /\ \A k \in 1 .. i - 1 : c[k] = tasks[k]
  BY <1>1
<1> HIDE DEF c
<1>7. DOMAIN c = 1 .. i - 1
  BY <1>1, <1>6
<1>8. b = [k \in 1 .. i - 1 |-> us[k]]
  <2>1. b = [k \in 1 .. i - 1 |-> IF c[k].pc = "back" THEN [c[k] EXCEPT !.late = TRUE] ELSE c[k]]
    BY <1>7 DEF Overtaken, c
  <2>2. \A k \in 1 .. i - 1 : us[k] = IF c[k].pc = "back" THEN [c[k] EXCEPT !.late = TRUE] ELSE c[k]
    <3> TAKE k \in 1 .. i - 1
    <3>1. k \in 1 .. n /\ c[k] = tasks[k]
      BY <1>1, <1>6
    <3> QED BY <3>1, <1>4
  <2> QED BY <2>1, <2>2
<1>9. a = [k \in 1 .. i - 1 |-> us[k]]
  <2>1. a = [k \in DOMAIN a |-> a[k]] /\ DOMAIN a = 1 .. i - 1
    BY <1>1, <1>5
  <2> QED BY <2>1, <1>5
<1>10. a = b
  BY <1>8, <1>9
<1>11. \A k \in DOMAIN tasks : Same(tasks[k], tasks[k]) /\ tasks[k].live = tasks[k].live
  BY DEF Same
<1>12. \E h : Without(SubSeq(us, 1, i - 1) \o SubSeq(tasks, i + 1, Len(tasks)), tasks, i, h)
  BY <1>2, <1>11, CutTask DEF n
<1> QED BY <1>10, <1>12

LEMMA HalfwayTasks ==
  ASSUME AreTasks(tasks), NEW i \in DOMAIN tasks, NEW sv, NEW read, Halfway(i, sv, read)
  PROVE  /\ AreTasks(tasks') /\ DOMAIN tasks' = DOMAIN tasks
         /\ \A k \in DOMAIN tasks : k # i => tasks'[k] = tasks[k]
         /\ tasks[i].pc = "call" /\ tasks'[i].pc = "half" /\ tasks'[i].ans = read
         /\ tasks'[i].saga = tasks[i].saga /\ tasks'[i].arg = tasks[i].arg /\ tasks'[i].ok = tasks[i].ok
         /\ tasks'[i].live = tasks[i].live
<1> DEFINE n == Len(tasks)
           t == [[tasks[i] EXCEPT !.pc = "half"] EXCEPT !.ans = read]
<1>1. n \in Nat /\ DOMAIN tasks = 1 .. n /\ tasks = [k \in 1 .. n |-> tasks[k]]
  BY TasksAre DEF AreTasks
<1>2. \A k \in 1 .. n : IsTask(tasks[k])
  BY <1>1 DEF AreTasks
<1>3. /\ IsTask(t) /\ t.pc = "half" /\ t.ans = read /\ t.saga = tasks[i].saga /\ t.arg = tasks[i].arg
      /\ t.ok = tasks[i].ok /\ t.live = tasks[i].live
  BY <1>1, <1>2 DEF IsTask
<1>4. tasks' = [tasks EXCEPT ![i] = t]
  BY <1>1 DEF Halfway
<1> HIDE DEF t
<1>5. DOMAIN tasks' = 1 .. n /\ tasks'[i] = t /\ \A k \in 1 .. n : k # i => tasks'[k] = tasks[k]
  BY <1>1, <1>4
<1>6. tasks' = [k \in 1 .. n |-> tasks'[k]]
  BY <1>1, <1>4
<1>7. tasks' \in Seq({tasks'[k] : k \in 1 .. n})
  <2> DEFINE s == tasks'
  <2>1. s = [k \in 1 .. n |-> s[k]]
    BY <1>6
  <2> HIDE DEF s
  <2>2. s \in Seq({s[k] : k \in 1 .. n})
    BY <2>1, <1>1, IsASeq
  <2> QED BY <2>2 DEF s
<1>8. \A k \in DOMAIN tasks' : IsTask(tasks'[k])
  BY <1>2, <1>3, <1>5
<1>9. AreTasks(tasks')
  BY <1>7, <1>8, AreSeq
<1>10. tasks[i].pc = "call"
  BY DEF Halfway
<1> QED BY <1>1, <1>3, <1>5, <1>9, <1>10

\* What the others are when a saga resumes.
Rest(i) == Overtaken(SubSeq(tasks, 1, i - 1)) \o SubSeq(tasks, i + 1, Len(tasks)) \o << >>
LEMMA RestTasks == ASSUME AreTasks(tasks), NEW i \in DOMAIN tasks PROVE \E h : Without(Rest(i), tasks, i, h)
<1> DEFINE others == Overtaken(SubSeq(tasks, 1, i - 1)) \o SubSeq(tasks, i + 1, Len(tasks))
<1>1. PICK h : Without(others, tasks, i, h)
  BY ResumeTasks
<1>2. Rest(i) = others
  <2>1. others \in Seq({others[k] : k \in DOMAIN others})
    BY <1>1 DEF Without, AreTasks
  <2>2. Rest(i) = others \o << >>
    BY DEF Rest
  <2> HIDE DEF others
  <2> QED BY <2>1, <2>2, ConcatEmptySeq
<1> QED BY <1>1, <1>2
==============================================================================
