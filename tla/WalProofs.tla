----------------------------- MODULE WalProofs -----------------------------
(***************************************************************************)
(* Facts about replaying a write-ahead log, for logs of any length.        *)
(***************************************************************************)
EXTENDS Wal, TLAPS

(***************************************************************************)
(* Replaying an empty log changes nothing (rel_wal_replay_into, no frame). *)
(***************************************************************************)
LEMMA ReplayEmpty ==
    ASSUME NEW contents \in SUBSET Facts
    PROVE  Replay(contents, <<>>) = contents
  BY DEF Replay, LastIsAdd, Touches

(***************************************************************************)
(* Which facts the log touches, and which it ends up adding, after one     *)
(* more record.                                                            *)
(***************************************************************************)
LEMMA AppendRecord ==
    ASSUME NEW log \in Seq(FactRec), NEW rec \in FactRec, NEW f \in Facts
    PROVE  /\ Touches(Append(log, rec), f) <=> (Touches(log, f) \/ rec.f = f)
           /\ LastIsAdd(Append(log, rec), f) <=>
                 IF rec.f = f THEN rec.op = "add" ELSE LastIsAdd(log, f)
<1> DEFINE new == Append(log, rec)
<1>1. /\ Len(log) \in Nat
      /\ Len(new) = Len(log) + 1
      /\ new[Len(log) + 1] = rec
      /\ \A i \in 1..Len(log) : new[i] = log[i]
  OBVIOUS
<1>2. Touches(new, f) <=> (Touches(log, f) \/ rec.f = f)
  BY <1>1 DEF Touches
<1>3. CASE rec.f = f
  <2>1. rec.op = "add" => LastIsAdd(new, f)
    BY <1>1, <1>3 DEF LastIsAdd
  <2>2. ASSUME LastIsAdd(new, f) PROVE rec.op = "add"
    <3>1. PICK i \in 1..Len(new) : /\ new[i].f = f
                                   /\ new[i].op = "add"
                                   /\ \A j \in (i+1)..Len(new) : new[j].f # f
      BY <2>2 DEF LastIsAdd
    <3>2. i = Len(log) + 1
      BY <1>1, <1>3, <3>1
    <3> QED BY <3>1, <3>2, <1>1
  <2> QED BY <1>2, <1>3, <2>1, <2>2
<1>4. CASE rec.f # f
  <2>1. ASSUME LastIsAdd(new, f) PROVE LastIsAdd(log, f)
    <3>1. PICK i \in 1..Len(new) : /\ new[i].f = f
                                   /\ new[i].op = "add"
                                   /\ \A j \in (i+1)..Len(new) : new[j].f # f
      BY <2>1 DEF LastIsAdd
    <3>2. i \in 1..Len(log)
      BY <1>1, <1>4, <3>1
    <3> QED BY <1>1, <3>1, <3>2 DEF LastIsAdd
  <2>2. ASSUME LastIsAdd(log, f) PROVE LastIsAdd(new, f)
    <3>1. PICK i \in 1..Len(log) : /\ log[i].f = f
                                   /\ log[i].op = "add"
                                   /\ \A j \in (i+1)..Len(log) : log[j].f # f
      BY <2>2 DEF LastIsAdd
    <3>2. \A j \in (i+1)..Len(new) : new[j].f # f
      BY <1>1, <1>4, <3>1
    <3> QED BY <1>1, <3>1, <3>2 DEF LastIsAdd
  <2> QED BY <1>2, <1>4, <2>1, <2>2
<1> QED BY <1>3, <1>4

(***************************************************************************)
(* A log with one more record, kept folded where only its replay matters.  *)
(***************************************************************************)
Logged(log, rec) == Append(log, rec)

(***************************************************************************)
(* One more record in the log is one more dafsa_add_n or dafsa_delete_n    *)
(* after the replay: walReplayCb applied to the last frame.                *)
(***************************************************************************)
LEMMA ReplayAppend ==
    ASSUME NEW contents \in SUBSET Facts, NEW log \in Seq(FactRec), NEW f \in Facts
    PROVE  /\ Replay(contents, Logged(log, AddRec(f))) = Replay(contents, log) \cup {f}
           /\ Replay(contents, Logged(log, DelRec(f))) = Replay(contents, log) \ {f}
<1>1. AddRec(f) \in FactRec /\ DelRec(f) \in FactRec
  BY DEF AddRec, DelRec, FactRec
<1>2. /\ AddRec(f).f = f /\ AddRec(f).op = "add"
      /\ DelRec(f).f = f /\ DelRec(f).op = "del"
  BY DEF AddRec, DelRec
<1>3. \A g \in Facts : g \in Replay(contents, Logged(log, AddRec(f)))
                          <=> g \in Replay(contents, log) \cup {f}
  BY <1>1, <1>2, AppendRecord DEF Replay, Logged
<1>4. \A g \in Facts : g \in Replay(contents, Logged(log, DelRec(f)))
                          <=> g \in Replay(contents, log) \ {f}
  BY <1>1, <1>2, AppendRecord DEF Replay, Logged
<1>5. \A c, l : Replay(c, l) \subseteq Facts
  BY DEF Replay
<1> QED BY <1>3, <1>4, <1>5

(***************************************************************************)
(* A log cut at or before its old end does not notice a later append.      *)
(***************************************************************************)
LEMMA PrefixOfAppend ==
    ASSUME NEW log \in Seq(FactRec), NEW rec \in FactRec, NEW n \in 0..Len(log)
    PROVE  Prefix(Append(log, rec), n) = Prefix(log, n)
  BY DEF Prefix

(***************************************************************************)
(* A log cut at its end is the log.                                        *)
(***************************************************************************)
LEMMA PrefixWhole ==
    ASSUME NEW log \in Seq(FactRec)
    PROVE  Prefix(log, Len(log)) = log
  BY DEF Prefix

(***************************************************************************)
(* A cut log is a log.                                                     *)
(***************************************************************************)
LEMMA PrefixType ==
    ASSUME NEW log \in Seq(FactRec), NEW n \in 0..Len(log)
    PROVE  Prefix(log, n) \in Seq(FactRec) /\ Len(Prefix(log, n)) = n
  BY DEF Prefix

(***************************************************************************)
(* Two logs one after the other: the second one decides about the facts it *)
(* touches.                                                                *)
(***************************************************************************)
LEMMA JoinRecords ==
    ASSUME NEW S, NEW log \in Seq(S), NEW more \in Seq(S), NEW f
    PROVE  /\ Touches(log \o more, f) <=> Touches(log, f) \/ Touches(more, f)
           /\ LastIsAdd(log \o more, f) <=>
                 IF Touches(more, f) THEN LastIsAdd(more, f) ELSE LastIsAdd(log, f)
<1> DEFINE new == log \o more
<1>1. /\ Len(log) \in Nat /\ Len(more) \in Nat /\ Len(new) = Len(log) + Len(more)
      /\ \A i \in 1..Len(log) : new[i] = log[i]
      /\ \A i \in 1..Len(more) : new[Len(log) + i] = more[i]
  OBVIOUS
<1> HIDE DEF new
<1>2. \A i \in (Len(log) + 1)..Len(new) : i - Len(log) \in 1..Len(more) /\ new[i] = more[i - Len(log)]
  <2> SUFFICES ASSUME NEW i \in (Len(log) + 1)..Len(new)
               PROVE  i - Len(log) \in 1..Len(more) /\ new[i] = more[i - Len(log)]
    OBVIOUS
  <2>1. i - Len(log) \in 1..Len(more) /\ Len(log) + (i - Len(log)) = i
    BY <1>1
  <2> QED BY <1>1, <2>1
<1>3. Touches(new, f) <=> Touches(log, f) \/ Touches(more, f)
  <2>1. ASSUME Touches(new, f) PROVE Touches(log, f) \/ Touches(more, f)
    <3>1. PICK i \in 1..Len(new) : new[i].f = f
      BY <2>1 DEF Touches
    <3>2. CASE i \in 1..Len(log)
      BY <1>1, <3>1, <3>2 DEF Touches
    <3>3. CASE i \in (Len(log) + 1)..Len(new)
      BY <1>1, <1>2, <3>1, <3>3 DEF Touches
    <3> QED BY <1>1, <3>1, <3>2, <3>3
  <2>2. ASSUME Touches(log, f) PROVE Touches(new, f)
    BY <1>1, <2>2 DEF Touches
  <2>3. ASSUME Touches(more, f) PROVE Touches(new, f)
    <3>1. PICK i \in 1..Len(more) : more[i].f = f
      BY <2>3 DEF Touches
    <3>2. Len(log) + i \in 1..Len(new)
      BY <1>1
    <3> QED BY <1>1, <3>1, <3>2 DEF Touches
  <2> QED BY <2>1, <2>2, <2>3
<1>4. CASE Touches(more, f)
  <2>1. PICK k \in 1..Len(more) : more[k].f = f
    BY <1>4 DEF Touches
  <2>2. ASSUME LastIsAdd(new, f) PROVE LastIsAdd(more, f)
    <3>1. PICK i \in 1..Len(new) : /\ new[i].f = f /\ new[i].op = "add"
                                   /\ \A j \in (i+1)..Len(new) : new[j].f # f
      BY <2>2 DEF LastIsAdd
    <3>2. ~(Len(log) + k \in (i+1)..Len(new))
      BY <1>1, <2>1, <3>1
    <3>3. i \in (Len(log) + 1)..Len(new)
      BY <1>1, <3>2
    <3>4. i - Len(log) \in 1..Len(more) /\ more[i - Len(log)] = new[i]
      BY <1>2, <3>3
    <3>5. ASSUME NEW j \in (i - Len(log) + 1)..Len(more) PROVE more[j].f # f
      <4>1. Len(log) + j \in (i+1)..Len(new) /\ j \in 1..Len(more)
        BY <1>1, <3>3
      <4> QED BY <1>1, <3>1, <4>1
    <3> QED BY <3>1, <3>4, <3>5 DEF LastIsAdd
  <2>3. ASSUME LastIsAdd(more, f) PROVE LastIsAdd(new, f)
    <3>1. PICK i \in 1..Len(more) : /\ more[i].f = f /\ more[i].op = "add"
                                    /\ \A j \in (i+1)..Len(more) : more[j].f # f
      BY <2>3 DEF LastIsAdd
    <3>2. Len(log) + i \in 1..Len(new) /\ new[Len(log) + i] = more[i]
      BY <1>1
    <3>3. ASSUME NEW j \in (Len(log) + i + 1)..Len(new) PROVE new[j].f # f
      <4>1. j \in (Len(log) + 1)..Len(new) /\ j - Len(log) \in (i+1)..Len(more)
        BY <1>1
      <4> QED BY <1>2, <3>1, <4>1
    <3> QED BY <3>1, <3>2, <3>3 DEF LastIsAdd
  <2> QED BY <1>4, <2>2, <2>3, <1>3 DEF new
<1>5. CASE ~Touches(more, f)
  <2>1. \A j \in (Len(log) + 1)..Len(new) : new[j].f # f
    BY <1>2, <1>5 DEF Touches
  <2>2. ASSUME LastIsAdd(new, f) PROVE LastIsAdd(log, f)
    <3>1. PICK i \in 1..Len(new) : /\ new[i].f = f /\ new[i].op = "add"
                                   /\ \A j \in (i+1)..Len(new) : new[j].f # f
      BY <2>2 DEF LastIsAdd
    <3>2. i \in 1..Len(log)
      BY <1>1, <2>1, <3>1
    <3>3. \A j \in (i+1)..Len(log) : log[j].f # f
      BY <1>1, <3>1
    <3> QED BY <1>1, <3>1, <3>2, <3>3 DEF LastIsAdd
  <2>3. ASSUME LastIsAdd(log, f) PROVE LastIsAdd(new, f)
    <3>1. PICK i \in 1..Len(log) : /\ log[i].f = f /\ log[i].op = "add"
                                   /\ \A j \in (i+1)..Len(log) : log[j].f # f
      BY <2>3 DEF LastIsAdd
    <3>2. \A j \in (i+1)..Len(new) : new[j].f # f
      BY <1>1, <2>1, <3>1
    <3> QED BY <1>1, <3>1, <3>2 DEF LastIsAdd
  <2> QED BY <1>5, <2>2, <2>3, <1>3 DEF new
<1> QED BY <1>4, <1>5

(***************************************************************************)
(* A record applied first, then the rest of the log.                       *)
(***************************************************************************)
LEMMA ReplayHead ==
    ASSUME NEW log \in Seq(FactRec), log # <<>>, NEW contents \in SUBSET Facts
    PROVE  LET rec   == Head(log)
               after == IF rec.op = "add" THEN contents \cup {rec.f} ELSE contents \ {rec.f}
           IN  /\ Replay(contents, log) = Replay(after, Tail(log))
               /\ \A f : Touches(Tail(log), f) => Touches(log, f)
<1> DEFINE rec == Head(log)
           after == IF rec.op = "add" THEN contents \cup {rec.f} ELSE contents \ {rec.f}
           first == <<rec>>
           rest == Tail(log)
<1>1. rec \in FactRec /\ first \in Seq(FactRec) /\ rest \in Seq(FactRec) /\ log = first \o rest
  OBVIOUS
<1>2. \A f : /\ Touches(first, f) <=> rec.f = f
             /\ LastIsAdd(first, f) <=> rec.f = f /\ rec.op = "add"
  BY DEF Touches, LastIsAdd
<1> HIDE DEF first, rest, rec
<1>3. \A f : /\ Touches(log, f) <=> rec.f = f \/ Touches(rest, f)
             /\ LastIsAdd(log, f) <=> IF Touches(rest, f) THEN LastIsAdd(rest, f)
                                      ELSE rec.f = f /\ rec.op = "add"
  BY <1>1, <1>2, JoinRecords
<1>4. \A f : LastIsAdd(rest, f) => Touches(rest, f)
  BY DEF LastIsAdd, Touches
<1>5. \A f \in Facts : f \in Replay(contents, log) <=> f \in Replay(after, rest)
  BY <1>1, <1>3, <1>4 DEF Replay, FactRec
<1>6. Replay(contents, log) \subseteq Facts /\ Replay(after, rest) \subseteq Facts
  BY DEF Replay
<1>7. Replay(contents, log) = Replay(after, rest)
  BY <1>5, <1>6
<1> QED BY <1>3, <1>7 DEF rec, rest

(***************************************************************************)
(* What a replay gives for one fact.                                       *)
(***************************************************************************)
LEMMA ReplayOne ==
    /\ \A c, log : \A f \in Facts :
          f \in Replay(c, log) <=> LastIsAdd(log, f) \/ (f \in c /\ ~Touches(log, f))
    /\ \A log, f : LastIsAdd(log, f) => Touches(log, f)
    /\ \A f : ~Touches(<<>>, f)
    /\ \A c, log : Replay(c, log) \subseteq Facts
  BY DEF Replay, LastIsAdd, Touches

=============================================================================
