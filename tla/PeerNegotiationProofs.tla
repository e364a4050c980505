----------------------- MODULE PeerNegotiationProofs ------------------------
(***************************************************************************)
(* Proofs about PeerNegotiation: for any number of offers, negotiations    *)
(* and restarts, however the signals of the two ends cross, once all is    *)
(* quiet both have agreed on one description and have each other's         *)
(* candidates.                                                             *)
(*                                                                         *)
(* The inductive invariant, NegInv, follows every description: what waits  *)
(* in the chain of each end and in which order (Chain), where the pending  *)
(* offer of each end is (Skeleton), and where the candidates of the        *)
(* descriptions are (Coming, which holds until two offers cross in a way   *)
(* the code has no answer to).                                             *)
(***************************************************************************)
EXTENDS PeerNegotiation, SequenceTheorems, Integers, TLAPS

Makers == [op : {"negotiate", "create", "offer"}]
Replies == [op : {"answer"}, restart : BOOLEAN]
Remotes ==
  [op : {"remote"}, type : {"offer", "answer"}, id : 1 .. MaxOffers, restart : BOOLEAN, waits : BOOLEAN]
Additions == [op : {"add"}, ids : SUBSET (1 .. MaxOffers), next : {<<>>} \cup {<<r>> : r \in Replies}]
Steps == Makers \cup [op : {"rollback"}] \cup Remotes \cup Replies \cup Additions

PeerSessions ==
  [sig : {"stable", "local", "remote"}, ops : Seq(Steps), making : BOOLEAN,
   need : SUBSET {"channels", "restart"}, fired : BOOLEAN, offered : SUBSET {"channels", "restart"},
   offer : 0 .. MaxOffers, agreed : 0 .. MaxOffers, has : BOOLEAN, answering : BOOLEAN,
   queue : SUBSET (1 .. MaxOffers), added : SUBSET (1 .. MaxOffers), open : BOOLEAN, started : BOOLEAN]

NegotiationTyped ==
  /\ pc \in [Ends -> PeerSessions]
  /\ wire \in [Ends -> Seq(Signals)]
  /\ offers \in 0 .. MaxOffers
  /\ kicks \in 0 .. MaxKicks
  /\ crossed \in BOOLEAN

\* What an operation is for: to make an offer, to give ours up, to take theirs or an
\* answer, to answer, to add candidates only
Kind(o) ==
  IF o.op \in {"negotiate", "create", "offer"} THEN "make"
  ELSE IF o.op = "rollback" THEN "undo"
  ELSE IF o.op = "remote" THEN IF o.type = "offer" THEN "taken" ELSE "heard"
  ELSE IF o.op = "answer" THEN "owed"
  ELSE IF o.next # <<>> THEN "owed" ELSE "add"

At(s, k) == {i \in DOMAIN s : Kind(s[i]) = k}
OnWire(w, t) == {i \in DOMAIN w : w[i].type = t}
AtMostOne(S) == \A i, j \in S : i = j

-----------------------------------------------------------------------------
LEMMA AtAppend ==
  ASSUME NEW S, NEW s \in Seq(S), NEW o \in S
  PROVE  /\ \A k, i : i \in At(Append(s, o), k) <=> i \in At(s, k) \/ (i = Len(s) + 1 /\ Kind(o) = k)
         /\ \A i \in DOMAIN s : i \in 1 .. Len(s) /\ Append(s, o)[i] = s[i]
         /\ Append(s, o)[Len(s) + 1] = o
         /\ Append(s, o) \in Seq(S) /\ Append(s, o) # <<>> /\ Len(s) \in Nat
         /\ DOMAIN Append(s, o) = 1 .. Len(s) + 1
<1>1. /\ DOMAIN s = 1 .. Len(s) /\ Len(s) \in Nat
      /\ Append(s, o) \in Seq(S) /\ Append(s, o) # <<>> /\ Len(Append(s, o)) = Len(s) + 1
      /\ \A i \in 1 .. Len(s) : Append(s, o)[i] = s[i]
      /\ Append(s, o)[Len(s) + 1] = o
  BY AppendProperties
<1>2. DOMAIN Append(s, o) = 1 .. Len(s) + 1 BY <1>1
<1>3. ASSUME NEW k, NEW i
      PROVE  i \in At(Append(s, o), k) <=> i \in At(s, k) \/ (i = Len(s) + 1 /\ Kind(o) = k)
  BY <1>1, <1>2 DEF At
<1>4. QED BY <1>1, <1>2, <1>3

LEMMA AtTail ==
  ASSUME NEW S, NEW s \in Seq(S), s # <<>>
  PROVE  /\ \A k, i : i \in At(Tail(s), k) <=> i \in Nat \ {0} /\ i + 1 \in At(s, k)
         /\ \A i \in DOMAIN Tail(s) : i \in Nat \ {0} /\ Tail(s)[i] = s[i + 1]
         /\ \A i \in DOMAIN s : i # 1 => i - 1 \in DOMAIN Tail(s)
         /\ \A k : 1 \in At(s, k) <=> k = Kind(Head(s))
         /\ Tail(s) \in Seq(S) /\ Head(s) \in S /\ Head(s) = s[1] /\ 1 \in DOMAIN s
         /\ \A k, i : i \in At(s, k) => i \in Nat \ {0} /\ i \in DOMAIN s
<1>1. /\ DOMAIN s = 1 .. Len(s) /\ Len(s) \in Nat /\ Len(s) > 0
      /\ Tail(s) \in Seq(S) /\ Len(Tail(s)) = Len(s) - 1 /\ Head(s) \in S /\ Head(s) = s[1]
      /\ \A i \in 1 .. Len(Tail(s)) : Tail(s)[i] = s[i + 1]
  BY HeadTailProperties, EmptySeq
<1>2. DOMAIN Tail(s) = 1 .. Len(s) - 1 BY <1>1
<1>3. ASSUME NEW k, NEW i
      PROVE  i \in At(Tail(s), k) <=> i \in Nat \ {0} /\ i + 1 \in At(s, k)
  BY <1>1, <1>2 DEF At
<1>4. QED BY <1>1, <1>2, <1>3 DEF At

LEMMA OnAppend ==
  ASSUME NEW w \in Seq(Signals), NEW m \in Signals, NEW n \in Signals, n.type = "candidate", m.type # "candidate"
  PROVE  LET v == w \o <<m, n>> IN
         /\ v \in Seq(Signals)
         /\ \A t \in {"offer", "answer"} : \A i : i \in OnWire(v, t) <=> i \in OnWire(w, t) \/ (i = Len(w) + 1 /\ m.type = t)
         /\ \A i \in DOMAIN w : i \in 1 .. Len(w) /\ v[i] = w[i]
         /\ v[Len(w) + 1] = m /\ v[Len(w) + 2] = n
         /\ DOMAIN v = 1 .. Len(w) + 2 /\ DOMAIN w = 1 .. Len(w) /\ Len(w) \in Nat
<1> DEFINE v == w \o <<m, n>>
<1>1. DOMAIN w = 1 .. Len(w) /\ Len(w) \in Nat OBVIOUS
<1>2. <<m, n>> \in Seq(Signals) /\ Len(<<m, n>>) = 2 OBVIOUS
<1>3. v \in Seq(Signals) /\ Len(v) = Len(w) + 2 BY <1>2
<1>4. DOMAIN v = 1 .. Len(w) + 2 BY <1>3
<1>5. \A i \in 1 .. Len(w) : v[i] = w[i] BY <1>1, <1>2
<1>6. v[Len(w) + 1] = m /\ v[Len(w) + 2] = n BY <1>1, <1>2
<1> HIDE DEF v
<1>7. ASSUME NEW t \in {"offer", "answer"}, NEW i
      PROVE  i \in OnWire(v, t) <=> i \in OnWire(w, t) \/ (i = Len(w) + 1 /\ m.type = t)
  BY <1>1, <1>4, <1>5, <1>6 DEF OnWire
<1>8. QED BY <1>1, <1>3, <1>4, <1>5, <1>6, <1>7 DEF v

LEMMA OnTail ==
  ASSUME NEW w \in Seq(Signals), w # <<>>
  PROVE  /\ \A t, i : i \in OnWire(Tail(w), t) <=> i \in Nat \ {0} /\ i + 1 \in OnWire(w, t)
         /\ \A i \in DOMAIN Tail(w) : i \in Nat \ {0} /\ Tail(w)[i] = w[i + 1] /\ i + 1 \in DOMAIN w
         /\ \A i \in DOMAIN w : i # 1 => i - 1 \in DOMAIN Tail(w)
         /\ \A t : 1 \in OnWire(w, t) <=> t = Head(w).type
         /\ Tail(w) \in Seq(Signals) /\ Head(w) \in Signals /\ Head(w) = w[1] /\ 1 \in DOMAIN w
         /\ \A t, i : i \in OnWire(w, t) => i \in Nat \ {0} /\ i \in DOMAIN w
<1>1. /\ DOMAIN w = 1 .. Len(w) /\ Len(w) \in Nat /\ Len(w) > 0
      /\ Tail(w) \in Seq(Signals) /\ Len(Tail(w)) = Len(w) - 1 /\ Head(w) \in Signals /\ Head(w) = w[1]
      /\ \A i \in 1 .. Len(Tail(w)) : Tail(w)[i] = w[i + 1]
  BY HeadTailProperties, EmptySeq
<1>2. DOMAIN Tail(w) = 1 .. Len(w) - 1 BY <1>1
<1>3. ASSUME NEW t, NEW i
      PROVE  i \in OnWire(Tail(w), t) <=> i \in Nat \ {0} /\ i + 1 \in OnWire(w, t)
  BY <1>1, <1>2 DEF OnWire
<1>4. QED BY <1>1, <1>2, <1>3 DEF OnWire

LEMMA Positions ==
  ASSUME NEW S, NEW s \in Seq(S)
  PROVE  /\ DOMAIN s = 1 .. Len(s) /\ Len(s) \in Nat
         /\ \A k, i : i \in At(s, k) => i \in 1 .. Len(s) /\ i \in DOMAIN s
         /\ \A t, i : i \in OnWire(s, t) => i \in 1 .. Len(s) /\ i \in DOMAIN s
         /\ s # <<>> <=> Len(s) > 0
BY EmptySeq DEF At, OnWire

\* The kinds of the operations that the code makes
LEMMA Kinds ==
  /\ \A o \in Makers : Kind(o) = "make"
  /\ \A o \in [op : {"rollback"}] : Kind(o) = "undo"
  /\ \A o \in Remotes : Kind(o) = IF o.type = "offer" THEN "taken" ELSE "heard"
  /\ \A o \in Replies : Kind(o) = "owed"
  /\ \A o \in Additions : Kind(o) = IF o.next # <<>> THEN "owed" ELSE "add"
  /\ \A o \in Steps :
       /\ o.op \in {"negotiate", "create", "offer"} <=> Kind(o) = "make"
       /\ o.op = "rollback" <=> Kind(o) = "undo"
       /\ o.op = "remote" <=> Kind(o) \in {"taken", "heard"}
       /\ o.op = "remote" => o \in Remotes
       /\ o.op = "add" => o \in Additions
       /\ o.op = "answer" => o \in Replies
       /\ Kind(o) = "add" => o.op = "add"
       /\ Kind(o) = "owed" => o.op \in {"answer", "add"}
<1>1. \A o \in Makers : Kind(o) = "make" BY DEF Kind, Makers
<1>2. \A o \in [op : {"rollback"}] : Kind(o) = "undo" BY DEF Kind
<1>3. \A o \in Remotes : Kind(o) = IF o.type = "offer" THEN "taken" ELSE "heard" BY DEF Kind, Remotes
<1>4. \A o \in Replies : Kind(o) = "owed" BY DEF Kind, Replies
<1>5. \A o \in Additions : Kind(o) = IF o.next # <<>> THEN "owed" ELSE "add" BY DEF Kind, Additions
<1>6. ASSUME NEW o \in Steps
      PROVE  /\ o.op \in {"negotiate", "create", "offer"} <=> Kind(o) = "make"
             /\ o.op = "rollback" <=> Kind(o) = "undo"
             /\ o.op = "remote" <=> Kind(o) \in {"taken", "heard"}
             /\ o.op = "remote" => o \in Remotes
             /\ o.op = "add" => o \in Additions
             /\ o.op = "answer" => o \in Replies
             /\ Kind(o) = "add" => o.op = "add"
             /\ Kind(o) = "owed" => o.op \in {"answer", "add"}
  <2>1. CASE o \in Makers BY <2>1, <1>1 DEF Makers
  <2>2. CASE o \in [op : {"rollback"}] BY <2>2, <1>2
  <2>3. CASE o \in Remotes BY <2>3, <1>3 DEF Remotes
  <2>4. CASE o \in Replies BY <2>4, <1>4 DEF Replies
  <2>5. CASE o \in Additions BY <2>5, <1>5 DEF Additions
  <2>6. QED BY <1>6, <2>1, <2>2, <2>3, <2>4, <2>5 DEF Steps
<1>7. QED BY <1>1, <1>2, <1>3, <1>4, <1>5, <1>6

\* What waits in a chain, and in which order
Ordered(s) ==
  /\ \A k \in {"make", "taken", "heard", "owed"} : AtMostOne(At(s, k))
  /\ \A i \in At(s, "make") : s[i].op = "negotiate" => i = 1
  /\ \A i \in At(s, "undo") : i + 1 \in At(s, "taken")
  /\ \A i \in At(s, "taken") : i - 1 \in At(s, "undo") \/ \A k \in At(s, "make") : i < k
  /\ \A j \in At(s, "heard"), i \in At(s, "taken") : j < i

Chain(c, n) ==
  /\ Ordered(c.ops)
  /\ c.making <=> At(c.ops, "make") # {}
  /\ \A i \in At(c.ops, "make") : c.ops[i].op = "negotiate" => c.sig = "stable"
  /\ At(c.ops, "taken") # {} => At(c.ops, "undo") # {} \/ c.sig = "stable"
  /\ c.making => c.sig # "local"
  /\ c.fired => c.making \/ c.sig # "stable"
  /\ c.agreed = 0 => "channels" \in c.need
  /\ At(c.ops, "owed") # {} => c.sig = "remote"
  /\ c.answering => At(c.ops, "heard") # {}
  /\ c.agreed > 0 \/ c.sig = "remote" => c.has
  /\ c.sig = "local" => c.agreed < c.offer
  /\ c.sig # "stable" => c.offer > 0
  /\ c.agreed <= n /\ c.offer <= n

\* The tail of an ordered chain
LEMMA OrderedTail ==
  ASSUME NEW s \in Seq(Steps), s # <<>>, Ordered(s)
  PROVE  Ordered(Tail(s))
<1>1. /\ \A k, i : i \in At(Tail(s), k) <=> i \in Nat \ {0} /\ i + 1 \in At(s, k)
      /\ \A k, i : i \in At(s, k) => i \in Nat \ {0} /\ i \in DOMAIN s
      /\ \A i \in DOMAIN Tail(s) : i \in Nat \ {0} /\ Tail(s)[i] = s[i + 1]
      /\ \A k : 1 \in At(s, k) <=> k = Kind(Head(s))
      /\ \A k, i : i \in At(Tail(s), k) => i \in DOMAIN Tail(s)
  BY AtTail DEF At
<1> DEFINE t == Tail(s)
<1> HIDE DEF t
<1>2. \A k \in {"make", "taken", "heard", "owed"} : AtMostOne(At(t, k))
  BY <1>1 DEF Ordered, AtMostOne, t
<1>3. \A i \in At(t, "make") : t[i].op = "negotiate" => i = 1
  <2>1. SUFFICES ASSUME NEW i \in At(t, "make"), t[i].op = "negotiate" PROVE FALSE OBVIOUS
  <2>2. i + 1 \in At(s, "make") /\ s[i + 1].op = "negotiate" /\ i \in Nat \ {0} BY <1>1, <2>1 DEF t
  <2>3. i + 1 = 1 BY <2>2 DEF Ordered
  <2>4. QED BY <2>2, <2>3
<1>4. \A i \in At(t, "undo") : i + 1 \in At(t, "taken") BY <1>1 DEF Ordered, t
<1>5. \A i \in At(t, "taken") : i - 1 \in At(t, "undo") \/ \A k \in At(t, "make") : i < k
  <2>1. SUFFICES ASSUME NEW i \in At(t, "taken"), NEW k \in At(t, "make"), i - 1 \notin At(t, "undo") PROVE i < k
    OBVIOUS
  <2>2. i \in Nat \ {0} /\ i + 1 \in At(s, "taken") /\ k \in Nat \ {0} /\ k + 1 \in At(s, "make") BY <1>1, <2>1 DEF t
  <2>3. CASE i + 1 - 1 \notin At(s, "undo") BY <2>2, <2>3 DEF Ordered
  <2>4. CASE i + 1 - 1 \in At(s, "undo")
    <3>1. i \in At(s, "undo") BY <2>2, <2>4
    <3>2. ~(i - 1 \in Nat \ {0}) BY <1>1, <2>1, <2>2, <3>1 DEF t
    <3>3. i = 1 BY <2>2, <3>2
    <3>4. QED
      <4>1. k # 1
        <5>1. SUFFICES ASSUME k = 1 PROVE FALSE OBVIOUS
        <5>2. 2 \in At(s, "taken") /\ 2 \in At(s, "make") BY <2>2, <3>3, <5>1
        <5>3. QED BY <5>2 DEF At
      <4>2. QED BY <2>2, <3>3, <4>1
  <2>5. QED BY <2>3, <2>4
<1>6. \A j \in At(t, "heard"), i \in At(t, "taken") : j < i BY <1>1 DEF Ordered, t
<1>7. QED BY <1>2, <1>3, <1>4, <1>5, <1>6 DEF Ordered, t

\* One more operation
LEMMA OrderedAppend ==
  ASSUME NEW s \in Seq(Steps), Ordered(s), NEW o \in Steps, o.op # "rollback",
         Kind(o) # "add" => At(s, Kind(o)) = {},
         o.op = "negotiate" => s = <<>>,
         Kind(o) = "taken" => At(s, "make") = {} /\ At(s, "undo") = {},
         Kind(o) = "heard" => At(s, "taken") = {}
  PROVE  Ordered(Append(s, o))
<1> DEFINE t == Append(s, o)
<1>1. /\ \A k, i : i \in At(t, k) <=> i \in At(s, k) \/ (i = Len(s) + 1 /\ Kind(o) = k)
      /\ \A i \in DOMAIN s : i \in 1 .. Len(s) /\ t[i] = s[i]
      /\ t[Len(s) + 1] = o /\ Len(s) \in Nat
  BY AtAppend
<1>2. \A k, i : i \in At(s, k) => i \in 1 .. Len(s) /\ i \in DOMAIN s BY Positions
<1>3. Kind(o) # "undo" BY Kinds
<1> HIDE DEF t
<1>4. \A k \in {"make", "taken", "heard", "owed"} : AtMostOne(At(t, k))
  BY <1>1, <1>2 DEF Ordered, AtMostOne
<1>5. \A i \in At(t, "make") : t[i].op = "negotiate" => i = 1
  <2>1. SUFFICES ASSUME NEW i \in At(t, "make"), t[i].op = "negotiate" PROVE i = 1 OBVIOUS
  <2>2. CASE i \in At(s, "make") BY <1>1, <1>2, <2>1, <2>2 DEF Ordered
  <2>3. CASE i = Len(s) + 1
    <3>1. s = <<>> BY <1>1, <2>1, <2>3
    <3>2. QED BY <2>3, <3>1
  <2>4. QED BY <1>1, <2>1, <2>2, <2>3
<1>6. \A i \in At(t, "undo") : i + 1 \in At(t, "taken") BY <1>1, <1>3 DEF Ordered
<1>7. \A i \in At(t, "taken") : i - 1 \in At(t, "undo") \/ \A k \in At(t, "make") : i < k
  <2>1. SUFFICES ASSUME NEW i \in At(t, "taken"), NEW k \in At(t, "make"), i - 1 \notin At(t, "undo") PROVE i < k
    OBVIOUS
  <2>2. CASE i \in At(s, "taken") /\ k \in At(s, "make") BY <1>1, <2>1, <2>2 DEF Ordered
  <2>3. CASE i \in At(s, "taken") /\ k = Len(s) + 1 BY <1>1, <1>2, <2>3
  <2>4. CASE i = Len(s) + 1 /\ Kind(o) = "taken" BY <1>1, <2>1, <2>4
  <2>5. QED BY <1>1, <2>1, <2>2, <2>3, <2>4
<1>8. \A j \in At(t, "heard"), i \in At(t, "taken") : j < i
  <2>1. SUFFICES ASSUME NEW j \in At(t, "heard"), NEW i \in At(t, "taken") PROVE j < i OBVIOUS
  <2>2. CASE Kind(o) = "heard" BY <1>1, <1>2, <2>1, <2>2
  <2>3. CASE Kind(o) = "taken" BY <1>1, <1>2, <2>1, <2>3
  <2>4. CASE Kind(o) \notin {"heard", "taken"} BY <1>1, <2>1, <2>4 DEF Ordered
  <2>5. QED BY <2>2, <2>3, <2>4
<1>9. QED BY <1>4, <1>5, <1>6, <1>7, <1>8 DEF Ordered, t

\* Their offer, after ours is given up
LEMMA OrderedUndo ==
  ASSUME NEW s \in Seq(Steps), Ordered(s), NEW u \in Steps, u.op = "rollback", NEW o \in Steps, Kind(o) = "taken",
         At(s, "taken") = {}
  PROVE  LET t == Append(Append(s, u), o) IN
         /\ Ordered(t) /\ t \in Seq(Steps)
         /\ \A k, i : i \in At(t, k) <=> \/ i \in At(s, k)
                                         \/ i = Len(s) + 1 /\ k = "undo"
                                         \/ i = Len(s) + 2 /\ k = "taken"
         /\ \A i \in DOMAIN s : t[i] = s[i]
         /\ t[Len(s) + 2] = o /\ DOMAIN t = 1 .. Len(s) + 2
<1> DEFINE r == Append(s, u)
           t == Append(r, o)
<1>1. Kind(u) = "undo" BY Kinds
<1>2. /\ \A k, i : i \in At(r, k) <=> i \in At(s, k) \/ (i = Len(s) + 1 /\ k = "undo")
      /\ \A i \in DOMAIN s : i \in 1 .. Len(s) /\ r[i] = s[i]
      /\ r \in Seq(Steps) /\ Len(s) \in Nat /\ DOMAIN r = 1 .. Len(s) + 1
  BY <1>1, AtAppend
<1>3. Len(r) = Len(s) + 1 BY <1>2, Positions
<1> HIDE DEF r
<1>4. /\ \A k, i : i \in At(t, k) <=> i \in At(r, k) \/ (i = Len(s) + 2 /\ k = "taken")
      /\ \A i \in DOMAIN r : t[i] = r[i]
      /\ t[Len(s) + 2] = o /\ t \in Seq(Steps) /\ DOMAIN t = 1 .. Len(s) + 2
  <2>1. Len(r) + 1 = Len(s) + 2 BY <1>2, <1>3
  <2>2. QED BY <1>2, <2>1, AtAppend
<1> HIDE DEF t
<1>5. \A k, i : i \in At(s, k) => i \in 1 .. Len(s) /\ i \in DOMAIN s BY Positions
<1>6. /\ \A k, i : i \in At(t, k) <=> \/ i \in At(s, k)
                                      \/ i = Len(s) + 1 /\ k = "undo"
                                      \/ i = Len(s) + 2 /\ k = "taken"
      /\ \A i \in DOMAIN s : t[i] = s[i]
  BY <1>2, <1>4
<1>7. \A k \in {"make", "taken", "heard", "owed"} : AtMostOne(At(t, k))
  BY <1>5, <1>6 DEF Ordered, AtMostOne
<1>8. At(s, "undo") = {} BY DEF Ordered
<1>9. \A i \in At(t, "make") : t[i].op = "negotiate" => i = 1
  BY <1>5, <1>6 DEF Ordered
<1>10. \A i \in At(t, "undo") : i + 1 \in At(t, "taken") BY <1>2, <1>6, <1>8
<1>11. \A i \in At(t, "taken") : i - 1 \in At(t, "undo") \/ \A k \in At(t, "make") : i < k BY <1>2, <1>6
<1>12. \A j \in At(t, "heard"), i \in At(t, "taken") : j < i BY <1>2, <1>5, <1>6
<1>13. QED BY <1>4, <1>6, <1>7, <1>9, <1>10, <1>11, <1>12 DEF Ordered, t, r

\* Where the pending offer of p is, when it is not on its way: waiting in the other
\* end's chain, pending there, answered on the way back, or answered in p's chain
Taken(p) == At(pc[Other(p)].ops, "taken") # {}
Remote(p) == pc[Other(p)].sig = "remote"
Answered(p) == OnWire(wire[p], "answer") # {}
Heard(p) == At(pc[p].ops, "heard") # {}
Held(p) == Taken(p) \/ Remote(p) \/ Answered(p) \/ Heard(p)
Back(p) == Answered(p) \/ Heard(p)

\* The offers of p on their way
Sent(p) == OnWire(wire[Other(p)], "offer")

\* An offer is in one place, and is the pending one.
InOnePlace(p) ==
  /\ Taken(p) => ~Remote(p) /\ ~Answered(p) /\ ~Heard(p)
  /\ Remote(p) => ~Answered(p) /\ ~Heard(p)
  /\ Answered(p) => ~Heard(p)
  /\ Held(p) => pc[p].sig = "local"
  /\ AtMostOne(OnWire(wire[p], "answer"))

Named(p) ==
  /\ \A i \in At(pc[Other(p)].ops, "taken") :
       /\ pc[Other(p)].ops[i].id = pc[p].offer
       /\ pc[Other(p)].ops[i].waits \/ crossed
  /\ Remote(p) => pc[Other(p)].offer = pc[p].offer
  /\ Remote(p) => At(pc[Other(p)].ops, "owed") # {} \/ crossed
  /\ \A i \in OnWire(wire[p], "answer") : wire[p][i].id = pc[p].offer
  /\ \A i \in At(pc[p].ops, "heard") : pc[p].ops[i].id = pc[p].offer

\* The impolite end's pending offer is never lost.
Firm ==
  /\ AtMostOne(Sent("impolite"))
  /\ \A i \in Sent("impolite") :
       /\ pc["impolite"].sig = "local" /\ ~Held("impolite")
       /\ wire["polite"][i].id = pc["impolite"].offer
       /\ \A j \in OnWire(wire["polite"], "answer") : j < i
  /\ pc["impolite"].sig = "local" => Sent("impolite") # {} \/ Held("impolite")
  /\ At(pc["impolite"].ops, "undo") = {}
  /\ Heard("impolite") => pc["impolite"].answering
  /\ Taken("impolite") => ~Answered("polite")

\* An offer of the polite end that an answer follows was given up before.
Behind(i) == \E j \in OnWire(wire["impolite"], "answer") : i < j

\* The impolite end has made an offer, or will, that makes the polite end give way.
Outbid ==
  \/ pc["impolite"].making /\ pc["impolite"].sig = "stable"
  \/ Sent("impolite") # {} \/ Taken("impolite")
  \/ crossed

\* An offer that the polite end has given up is ignored.
Stale(i) ==
  /\ pc["impolite"].sig = "local"
  /\ \/ Remote("impolite") \/ Behind(i)
     \/ Taken("impolite") /\ At(pc["polite"].ops, "undo") = {}

Yielding ==
  /\ Sent("polite") # {} /\ pc["impolite"].sig # "local" => pc["polite"].sig = "local"
  /\ \A i, k \in Sent("polite") : i < k => \E j \in OnWire(wire["impolite"], "answer") : i < j /\ j < k
  /\ \A i \in Sent("polite") :
       /\ ~Held("polite")
       /\ pc["polite"].sig = "local" => Behind(i) \/ wire["impolite"][i].id = pc["polite"].offer
       /\ pc["polite"].sig # "local" => Stale(i)
  /\ pc["polite"].sig = "local" /\ ~Held("polite") /\ (\A i \in Sent("polite") : Behind(i)) => Outbid
  /\ ~(Back("polite") /\ Back("impolite"))

Matching ==
  /\ \A p \in Ends : Back(p) => pc[Other(p)].agreed = pc[p].offer
  /\ (\A p \in Ends : ~Back(p)) => pc["polite"].agreed = pc["impolite"].agreed

Skeleton == (\A p \in Ends : InOnePlace(p) /\ Named(p)) /\ Firm /\ Yielding /\ Matching

\* A candidate follows its description.
Paired(w) ==
  \A i \in DOMAIN w :
    IF w[i].type = "candidate" THEN i + 1 \in DOMAIN w => w[i + 1].type # "candidate"
    ELSE i + 1 \in DOMAIN w /\ w[i + 1].type = "candidate" /\ w[i + 1].id = w[i].id

\* The candidate of offer n is the next signal, or is added after operation i.
Next1(w, n) == w # <<>> /\ w[1].type = "candidate" /\ w[1].id = n
AddedAfter(s, n, i) == \E k \in DOMAIN s : i < k /\ s[k].op = "add" /\ n \in s[k].ids

\* The candidates of a description are added once it is there: of end c, whose chain
\* is s and to which the signals w are on their way.
Comes(c, w, s) ==
  /\ \A i \in At(s, "taken") \cup At(s, "heard") :
       Next1(w, s[i].id) \/ s[i].id \in c.queue \/ AddedAfter(s, s[i].id, i)
  /\ \A n \in 1 .. MaxOffers :
       n = c.agreed \/ (c.sig = "remote" /\ n = c.offer)
         => Next1(w, n) \/ n \in c.added \/ AddedAfter(s, n, 0)
  /\ \A i \in At(s, "heard") : c.answering /\ w # <<>> /\ w[1].type = "candidate" => w[1].id = s[i].id

Coming(c, w) == Comes(c, w, c.ops)

NegInv ==
  /\ NegotiationTyped
  /\ \A p \in Ends : Chain(pc[p], offers) /\ Paired(wire[p])
  /\ Skeleton
  /\ ~crossed => \A p \in Ends : Coming(pc[p], wire[p])

-----------------------------------------------------------------------------
\* The tokens of an end's chain stay: an operation that only makes an offer or adds
\* candidates comes or goes.
SameTokens(c, e) ==
  /\ e.sig = c.sig /\ e.offer = c.offer /\ e.agreed = c.agreed
  /\ c.making /\ c.sig = "stable" => e.making
  /\ \A k \in {"undo", "taken", "heard"} : At(e.ops, k) = {} <=> At(c.ops, k) = {}
  /\ At(c.ops, "owed") # {} => At(e.ops, "owed") # {}
  /\ \A k \in {"taken", "heard"} : \A j \in At(e.ops, k) : \E i \in At(c.ops, k) : e.ops[j] = c.ops[i]
  /\ At(c.ops, "heard") # {} /\ c.answering => e.answering

\* The descriptions on the way stay, n signals nearer.
Nearer(w, v, n) ==
  /\ \A t \in {"offer", "answer"} : \A i : i \in OnWire(v, t) <=> i \in Nat \ {0} /\ i + n \in OnWire(w, t)
  /\ \A t \in {"offer", "answer"} : \A i \in OnWire(w, t) : i \in Nat /\ i > n
  /\ \A t \in {"offer", "answer"} : \A i \in OnWire(v, t) : v[i] = w[i + n]

LEMMA QuietStep ==
  ASSUME NegotiationTyped, Skeleton, NEW p \in Ends, pc'[Other(p)] = pc[Other(p)], SameTokens(pc[p], pc'[p]),
         wire'[Other(p)] = wire[Other(p)], NEW n \in {0, 1}, Nearer(wire[p], wire'[p], n),
         crossed => crossed'
  PROVE  Skeleton'
<1>1. /\ Other("polite") = "impolite" /\ Other("impolite") = "polite"
      /\ Ends = {"polite", "impolite"} /\ "polite" # "impolite"
  BY DEF Other, Ends
<1> DEFINE q == Other(p)
<1>2. q \in Ends /\ Other(q) = p /\ p # q /\ Ends = {p, q} BY DEF Ends, Other
<1>3. \A t \in {"offer", "answer"} : OnWire(wire'[p], t) = {} <=> OnWire(wire[p], t) = {}
  <2>1. ASSUME NEW t \in {"offer", "answer"}, NEW i \in OnWire(wire[p], t) PROVE i - n \in OnWire(wire'[p], t)
    BY DEF Nearer
  <2>2. ASSUME NEW t \in {"offer", "answer"}, NEW i \in OnWire(wire'[p], t) PROVE i + n \in OnWire(wire[p], t)
    BY DEF Nearer
  <2>3. QED BY <2>1, <2>2
<1>4. \A t \in {"offer", "answer"} : OnWire(wire'[q], t) = OnWire(wire[q], t) OBVIOUS
<1>5. \A o \in Ends : /\ Taken(o)' <=> Taken(o)
                      /\ Remote(o)' <=> Remote(o)
                      /\ Answered(o)' <=> Answered(o)
                      /\ Heard(o)' <=> Heard(o)
                      /\ pc'[o].sig = pc[o].sig /\ pc'[o].offer = pc[o].offer /\ pc'[o].agreed = pc[o].agreed
                      /\ (Sent(o) # {})' <=> Sent(o) # {}
                      /\ At(pc'[o].ops, "undo") = {} <=> At(pc[o].ops, "undo") = {}
  BY <1>1, <1>2, <1>3, <1>4 DEF SameTokens, Taken, Remote, Answered, Heard, Sent
<1>6. \A o \in Ends : (Held(o)' <=> Held(o)) /\ (Back(o)' <=> Back(o)) BY <1>5 DEF Held, Back
<1> HIDE DEF q
<1>7. \A o \in Ends : InOnePlace(o)'
  <2>1. \A o \in Ends : AtMostOne(OnWire(wire'[o], "answer"))
    BY <1>2, <1>4 DEF Skeleton, InOnePlace, AtMostOne, Nearer, q
  <2>2. QED BY <1>5, <1>6, <2>1 DEF Skeleton, InOnePlace
<1>8. \A o \in Ends : Named(o)'
  <2>1. \A o \in Ends : \A i \in At(pc'[Other(o)].ops, "taken") :
          pc'[Other(o)].ops[i].id = pc'[o].offer /\ (pc'[Other(o)].ops[i].waits \/ crossed')
    BY <1>1, <1>2, <1>5 DEF Skeleton, Named, SameTokens, Ends, q
  <2>2. \A o \in Ends : \A i \in OnWire(wire'[o], "answer") : wire'[o][i].id = pc'[o].offer
    BY <1>2, <1>4, <1>5 DEF Skeleton, Named, Nearer, q
  <2>3. \A o \in Ends : \A i \in At(pc'[o].ops, "heard") : pc'[o].ops[i].id = pc'[o].offer
    BY <1>2, <1>5 DEF Skeleton, Named, SameTokens, q
  <2>4. \A o \in Ends : Remote(o) => pc'[Other(o)].offer = pc'[o].offer
                          /\ (At(pc'[Other(o)].ops, "owed") # {} \/ crossed')
    BY <1>1, <1>2, <1>5 DEF Skeleton, Named, SameTokens, Ends, q
  <2>5. QED BY <1>5, <2>1, <2>2, <2>3, <2>4 DEF Named
<1>9. Firm'
  <2>1. AtMostOne(Sent("impolite"))' BY <1>1, <1>2, <1>4 DEF Skeleton, Firm, AtMostOne, Sent, Nearer, Ends, q
  <2>2. \A i \in OnWire(wire'["polite"], "offer") :
          /\ wire'["polite"][i].id = pc["impolite"].offer
          /\ \A j \in OnWire(wire'["polite"], "answer") : j < i
    <3>1. CASE p = "polite"
      <4>1. ASSUME NEW i \in OnWire(wire'[p], "offer") PROVE i + n \in Sent("impolite") /\ wire'[p][i] = wire[p][i + n] /\ i \in Nat
        BY <1>1, <3>1 DEF Nearer, Sent
      <4>2. ASSUME NEW j \in OnWire(wire'[p], "answer") PROVE j + n \in OnWire(wire[p], "answer") /\ j \in Nat
        BY DEF Nearer
      <4>3. QED BY <3>1, <4>1, <4>2 DEF Skeleton, Firm
    <3>2. CASE p # "polite" BY <1>1, <1>2, <1>4, <3>2 DEF Skeleton, Firm, Sent, Ends, q
    <3>3. QED BY <3>1, <3>2
  <2>3. (\E i : i \in OnWire(wire'["polite"], "offer")) => pc["impolite"].sig = "local" /\ ~Held("impolite")
    BY <1>1, <1>5 DEF Skeleton, Firm, Sent, Ends
  <2>4. Heard("impolite") => pc'["impolite"].answering
    <3>1. Heard("impolite") => pc["impolite"].answering BY DEF Skeleton, Firm
    <3>2. CASE p = "impolite" BY <3>1, <3>2 DEF SameTokens, Heard
    <3>3. CASE p # "impolite"
      <4>1. pc'["impolite"] = pc["impolite"] BY <1>1, <1>2, <3>3 DEF q
      <4>2. QED BY <3>1, <4>1
    <3>4. QED BY <3>2, <3>3
  <2>5. "impolite" \in Ends /\ "polite" \in Ends BY DEF Ends
  <2>6. Sent("impolite")' = OnWire(wire'["polite"], "offer") BY <1>1 DEF Sent
  <2>7. QED BY <1>5, <1>6, <2>1, <2>2, <2>3, <2>4, <2>5, <2>6 DEF Skeleton, Firm
<1>10. Yielding'
  <2>1. "impolite" \in Ends /\ "polite" \in Ends BY DEF Ends
  <2>2. Sent("polite") = OnWire(wire["impolite"], "offer") /\ Sent("polite")' = OnWire(wire'["impolite"], "offer")
    BY <1>1 DEF Sent
  <2>3. \A t, i : i \in OnWire(wire["impolite"], t) => i \in Nat \ {0}
    BY <2>1, Positions DEF NegotiationTyped
  <2>4. PICK m \in {0, 1} : Nearer(wire["impolite"], wire'["impolite"], m)
    <3>1. CASE p = "impolite" BY <3>1
    <3>2. CASE p # "impolite"
      <4>1. wire'["impolite"] = wire["impolite"] BY <1>1, <1>2, <3>2 DEF q
      <4>2. Nearer(wire["impolite"], wire'["impolite"], 0) BY <2>3, <4>1 DEF Nearer
      <4>3. QED BY <4>2
    <3>3. QED BY <3>1, <3>2
  <2>5. \A i \in Sent("polite")' : /\ i \in Nat /\ i + m \in Sent("polite")
                                  /\ wire'["impolite"][i] = wire["impolite"][i + m]
    BY <2>2, <2>4 DEF Nearer
  <2>6. \A i \in Sent("polite") : i \in Nat /\ i - m \in Sent("polite")'
    BY <2>2, <2>3, <2>4 DEF Nearer
  <2>7. \A j \in OnWire(wire["impolite"], "answer") : j \in Nat /\ j - m \in OnWire(wire'["impolite"], "answer")
    BY <2>3, <2>4 DEF Nearer
  <2>8. \A j \in OnWire(wire'["impolite"], "answer") : j \in Nat /\ j + m \in OnWire(wire["impolite"], "answer")
    BY <2>4 DEF Nearer
  <2>9. \A i \in Nat : Behind(i)' <=> Behind(i + m)
    BY <2>7, <2>8 DEF Behind
  <2>10. \A i \in Sent("polite")' : Stale(i + m) => Stale(i)'
    BY <1>5, <2>1, <2>5, <2>9 DEF Stale
  <2>11. Outbid => Outbid'
    <3>1. pc["impolite"].making /\ pc["impolite"].sig = "stable" => pc'["impolite"].making
      BY <1>1, <1>2 DEF SameTokens, q
    <3>2. QED BY <1>5, <2>1, <3>1 DEF Outbid
  <2>12. Sent("polite")' # {} => Sent("polite") # {} BY <2>5
  <2>13. \A i, k \in Sent("polite")' : i < k => \E j \in OnWire(wire'["impolite"], "answer") : i < j /\ j < k
    <3>1. SUFFICES ASSUME NEW i \in Sent("polite")', NEW k \in Sent("polite")', i < k
                   PROVE  \E j \in OnWire(wire'["impolite"], "answer") : i < j /\ j < k
      OBVIOUS
    <3>2. i \in Nat /\ k \in Nat /\ i + m \in Sent("polite") /\ k + m \in Sent("polite") BY <2>5
    <3>3. i + m < k + m BY <3>1, <3>2
    <3>4. PICK j \in OnWire(wire["impolite"], "answer") : i + m < j /\ j < k + m
      BY <3>2, <3>3 DEF Skeleton, Yielding
    <3>5. j \in Nat /\ j - m \in OnWire(wire'["impolite"], "answer") BY <2>7
    <3>6. i < j - m /\ j - m < k BY <3>2, <3>4, <3>5
    <3>7. QED BY <3>5, <3>6
  <2>14. (\A i \in Sent("polite")' : Behind(i)') => (\A i \in Sent("polite") : Behind(i))
    <3>1. SUFFICES ASSUME NEW i \in Sent("polite"), Behind(i - m)' PROVE Behind(i) BY <2>6
    <3>2. i \in Nat /\ i - m \in Nat BY <2>5, <2>6
    <3>3. Behind(i - m + m) BY <2>9, <3>1, <3>2
    <3>4. i - m + m = i BY <3>2
    <3>5. QED BY <3>3, <3>4
  <2>15. \A i \in Sent("polite")' :
           /\ ~Held("polite")
           /\ pc["polite"].sig = "local" => Behind(i)' \/ wire'["impolite"][i].id = pc["polite"].offer
           /\ pc["polite"].sig # "local" => Stale(i)'
    BY <2>5, <2>9, <2>10 DEF Skeleton, Yielding
  <2>16. Sent("polite")' # {} /\ pc["impolite"].sig # "local" => pc["polite"].sig = "local"
    BY <2>12 DEF Skeleton, Yielding
  <2>17. pc["polite"].sig = "local" /\ ~Held("polite") /\ (\A i \in Sent("polite")' : Behind(i)') => Outbid'
    BY <2>11, <2>14 DEF Skeleton, Yielding
  <2>18. ~(Back("polite") /\ Back("impolite")) BY DEF Skeleton, Yielding
  <2>19. QED BY <1>5, <1>6, <2>1, <2>13, <2>15, <2>16, <2>17, <2>18 DEF Yielding
<1>11. Matching' BY <1>1, <1>5, <1>6 DEF Skeleton, Matching, Ends
<1>12. QED BY <1>7, <1>8, <1>9, <1>10, <1>11 DEF Skeleton

LEMMA AddedTail ==
  ASSUME NEW s \in Seq(Steps), s # <<>>
  PROVE  /\ \A m : \A i \in Nat : AddedAfter(s, m, i + 1) => AddedAfter(Tail(s), m, i)
         /\ \A m : AddedAfter(s, m, 0) =>
              AddedAfter(Tail(s), m, 0) \/ (Head(s).op = "add" /\ m \in Head(s).ids)
<1>1. /\ \A i \in DOMAIN Tail(s) : i \in Nat \ {0} /\ Tail(s)[i] = s[i + 1]
      /\ \A i \in DOMAIN s : i # 1 => i - 1 \in DOMAIN Tail(s)
      /\ Head(s) = s[1]
  BY AtTail
<1>2. DOMAIN s = 1 .. Len(s) /\ Len(s) \in Nat BY Positions
<1>3. ASSUME NEW m, NEW i \in Nat, NEW k \in DOMAIN s, i + 1 < k, s[k].op = "add", m \in s[k].ids
      PROVE  AddedAfter(Tail(s), m, i)
  <2>1. k \in 1 .. Len(s) BY <1>2
  <2>2. k - 1 \in DOMAIN Tail(s) /\ i < k - 1 BY <1>1, <1>2, <1>3, <2>1
  <2>3. Tail(s)[k - 1] = s[k] BY <1>1, <1>2, <2>1, <2>2
  <2>4. QED BY <1>3, <2>2, <2>3 DEF AddedAfter
<1>4. ASSUME NEW m, NEW k \in DOMAIN s, 0 < k, s[k].op = "add", m \in s[k].ids
      PROVE  AddedAfter(Tail(s), m, 0) \/ (Head(s).op = "add" /\ m \in Head(s).ids)
  <2>1. CASE k = 1 BY <1>1, <1>4, <2>1
  <2>2. CASE k # 1
    <3>1. 0 + 1 < k BY <1>2, <2>2
    <3>2. QED BY <1>3, <1>4, <3>1
  <2>3. QED BY <2>1, <2>2
<1>5. QED BY <1>3, <1>4 DEF AddedAfter

LEMMA AddedAppend ==
  ASSUME NEW s \in Seq(Steps), NEW o \in Steps
  PROVE  /\ \A m, i : AddedAfter(s, m, i) => AddedAfter(Append(s, o), m, i)
         /\ \A m, i : i \in 0 .. Len(s) /\ o.op = "add" /\ m \in o.ids => AddedAfter(Append(s, o), m, i)
<1>1. /\ \A i \in DOMAIN s : i \in 1 .. Len(s) /\ Append(s, o)[i] = s[i]
      /\ Append(s, o)[Len(s) + 1] = o /\ Len(s) \in Nat
      /\ DOMAIN Append(s, o) = 1 .. Len(s) + 1
  BY AtAppend
<1>2. QED BY <1>1 DEF AddedAfter

\* What stays of a kind when the head goes
LEMMA KindTail ==
  ASSUME NEW s \in Seq(Steps), s # <<>>
  PROVE  /\ \A k : k # Kind(Head(s)) => (At(Tail(s), k) = {} <=> At(s, k) = {})
         /\ Ordered(s) =>
              /\ Ordered(Tail(s))
              /\ Kind(Head(s)) \in {"make", "taken", "heard", "owed"} => At(Tail(s), Kind(Head(s))) = {}
         /\ \A k, j : j \in At(Tail(s), k) => j \in Nat \ {0} /\ j + 1 \in At(s, k) /\ Tail(s)[j] = s[j + 1]
         /\ At(s, Kind(Head(s))) # {} /\ 1 \in At(s, Kind(Head(s))) /\ s[1] = Head(s)
         /\ Tail(s) \in Seq(Steps) /\ Head(s) \in Steps
<1>1. /\ \A k, i : i \in At(Tail(s), k) <=> i \in Nat \ {0} /\ i + 1 \in At(s, k)
      /\ \A i \in DOMAIN Tail(s) : i \in Nat \ {0} /\ Tail(s)[i] = s[i + 1]
      /\ \A k : 1 \in At(s, k) <=> k = Kind(Head(s))
      /\ \A k, i : i \in At(s, k) => i \in Nat \ {0} /\ i \in DOMAIN s
      /\ Tail(s) \in Seq(Steps) /\ Head(s) \in Steps /\ Head(s) = s[1]
  BY AtTail
<1>2. \A k, j : j \in At(Tail(s), k) => j \in Nat \ {0} /\ j + 1 \in At(s, k) /\ Tail(s)[j] = s[j + 1]
  BY <1>1 DEF At
<1>3. ASSUME NEW k, k # Kind(Head(s)) PROVE At(Tail(s), k) = {} <=> At(s, k) = {}
  <2>1. ASSUME NEW i \in At(s, k) PROVE i - 1 \in At(Tail(s), k)
    <3>1. i \in Nat \ {0, 1} BY <1>1, <1>3
    <3>2. i - 1 \in Nat \ {0} /\ i - 1 + 1 = i BY <3>1
    <3>3. QED BY <1>1, <3>2
  <2>2. QED BY <1>2, <2>1
<1>4. ASSUME Ordered(s), Kind(Head(s)) \in {"make", "taken", "heard", "owed"}
      PROVE  At(Tail(s), Kind(Head(s))) = {}
  <2>1. SUFFICES ASSUME NEW j \in At(Tail(s), Kind(Head(s))) PROVE FALSE OBVIOUS
  <2>2. j \in Nat \ {0} /\ j + 1 \in At(s, Kind(Head(s))) /\ 1 \in At(s, Kind(Head(s))) BY <1>1
  <2>3. j + 1 = 1 BY <1>4, <2>2 DEF Ordered, AtMostOne
  <2>4. QED BY <2>2, <2>3
<1>5. Ordered(s) => Ordered(Tail(s)) BY OrderedTail
<1>6. QED BY <1>1, <1>2, <1>3, <1>4, <1>5

\* What is added to a kind by one more operation
LEMMA KindAppend ==
  ASSUME NEW s \in Seq(Steps), NEW o \in Steps
  PROVE  /\ \A k : k # Kind(o) => At(Append(s, o), k) = At(s, k)
         /\ At(Append(s, o), Kind(o)) # {}
         /\ \A k, i : i \in At(s, k) => i \in 1 .. Len(s) /\ Append(s, o)[i] = s[i]
         /\ At(s, Kind(o)) = {} => At(Append(s, o), Kind(o)) = {Len(s) + 1}
         /\ Append(s, o)[Len(s) + 1] = o
         /\ Append(s, o) \in Seq(Steps) /\ Len(s) \in Nat
<1>1. /\ \A k, i : i \in At(Append(s, o), k) <=> i \in At(s, k) \/ (i = Len(s) + 1 /\ Kind(o) = k)
      /\ \A i \in DOMAIN s : i \in 1 .. Len(s) /\ Append(s, o)[i] = s[i]
      /\ Append(s, o)[Len(s) + 1] = o
      /\ Append(s, o) \in Seq(Steps) /\ Len(s) \in Nat
  BY AtAppend
<1>2. \A k, i : i \in At(s, k) => i \in DOMAIN s BY Positions
<1>3. ASSUME NEW k, k # Kind(o) PROVE At(Append(s, o), k) = At(s, k)
  <2>1. \A i : i \in At(Append(s, o), k) <=> i \in At(s, k) BY <1>1, <1>3
  <2>2. QED BY <2>1
<1>4. At(s, Kind(o)) = {} => At(Append(s, o), Kind(o)) = {Len(s) + 1} BY <1>1
<1>5. At(Append(s, o), Kind(o)) # {} BY <1>1
<1>6. QED BY <1>1, <1>2, <1>3, <1>4, <1>5

\* What a step leaves of a session that neither gets nor gives a description
Same(c, e) ==
  /\ e.sig = c.sig /\ e.offer = c.offer /\ e.agreed = c.agreed /\ e.has = c.has
  /\ e.answering = c.answering /\ e.queue = c.queue /\ e.added = c.added
  /\ c.need \subseteq e.need

\* What such a step keeps true of it
Calm(c, e, n) == Chain(e, n) /\ SameTokens(c, e) /\ \A w : Coming(c, w) => Coming(e, w)

LEMMA SameOps ==
  ASSUME NEW c \in PeerSessions, NEW e \in PeerSessions, NEW n, Chain(c, n), Same(c, e),
         e.ops = c.ops, e.making = c.making, e.fired => c.fired \/ c.making
  PROVE  Calm(c, e, n)
<1>1. Chain(e, n) BY DEF Chain, Same
<1>2. SameTokens(c, e) BY DEF SameTokens, Same
<1>3. \A w : Coming(c, w) => Coming(e, w) BY DEF Coming, Comes, Same
<1>4. QED BY <1>1, <1>2, <1>3 DEF Calm

\* One more operation that is no description
LEMMA ComesAppend ==
  ASSUME NEW s \in Seq(Steps), NEW o \in Steps, Kind(o) \notin {"taken", "heard"},
         NEW c, NEW w, Comes(c, w, s)
  PROVE  Comes(c, w, Append(s, o))
<1> DEFINE t == Append(s, o)
<1>1. \A m, i : AddedAfter(s, m, i) => AddedAfter(t, m, i) BY AddedAppend
<1>2. At(t, "taken") = At(s, "taken") /\ At(t, "heard") = At(s, "heard") BY KindAppend
<1>3. \A i \in At(s, "taken") \cup At(s, "heard") : t[i] = s[i] BY KindAppend
<1> HIDE DEF t
<1>4. Comes(c, w, t) BY <1>1, <1>2, <1>3 DEF Comes
<1>5. QED BY <1>4 DEF t

\* An operation that was no description is done.
LEMMA ComesTail ==
  ASSUME NEW s \in Seq(Steps), s # <<>>, Kind(Head(s)) \notin {"taken", "heard"}, Head(s).op # "add",
         NEW c, NEW w, Comes(c, w, s)
  PROVE  Comes(c, w, Tail(s))
<1> DEFINE t == Tail(s)
<1>1. \A k, j : j \in At(t, k) => j \in Nat \ {0} /\ j + 1 \in At(s, k) /\ t[j] = s[j + 1]
  BY KindTail
<1>2. \A m : \A i \in Nat : AddedAfter(s, m, i + 1) => AddedAfter(t, m, i) BY AddedTail
<1>3. \A m : AddedAfter(s, m, 0) => AddedAfter(t, m, 0) BY AddedTail
<1> HIDE DEF t
<1>4. ASSUME NEW i \in At(t, "taken") \cup At(t, "heard"), ~Next1(w, t[i].id), t[i].id \notin c.queue
      PROVE  AddedAfter(t, t[i].id, i)
  <2>1. i \in Nat /\ i + 1 \in At(s, "taken") \cup At(s, "heard") /\ t[i] = s[i + 1] BY <1>1
  <2>2. AddedAfter(s, t[i].id, i + 1) BY <1>4, <2>1 DEF Comes
  <2>3. QED BY <1>2, <2>1, <2>2
<1>5. ASSUME NEW i \in At(t, "heard"), c.answering, w # <<>>, w[1].type = "candidate" PROVE w[1].id = t[i].id
  <2>1. i + 1 \in At(s, "heard") /\ t[i] = s[i + 1] BY <1>1
  <2>2. w[1].id = s[i + 1].id BY <1>5, <2>1 DEF Comes
  <2>3. QED BY <2>1, <2>2
<1>6. \A n \in 1 .. MaxOffers :
        n = c.agreed \/ (c.sig = "remote" /\ n = c.offer)
          => Next1(w, n) \/ n \in c.added \/ AddedAfter(t, n, 0)
  BY <1>3 DEF Comes
<1>7. Comes(c, w, t) BY <1>4, <1>5, <1>6 DEF Comes
<1>8. QED BY <1>7 DEF t

LEMMA ComesSame ==
  ASSUME NEW c, NEW e, Same(c, e), NEW w, NEW s, Comes(c, w, s)
  PROVE  Comes(e, w, s)
BY DEF Comes, Same

LEMMA NewMaker ==
  ASSUME NEW c \in PeerSessions, NEW e \in PeerSessions, NEW n, Chain(c, n), Same(c, e),
         NEW o \in Makers, ~c.making, c.sig = "stable", o.op = "negotiate" => c.ops = <<>>,
         e.ops = Append(c.ops, o), e.making
  PROVE  Calm(c, e, n)
<1>1. c.ops \in Seq(Steps) /\ o \in Steps /\ Kind(o) = "make" /\ o.op \notin {"rollback", "add"}
  BY Kinds DEF PeerSessions, Steps, Makers
<1>2. /\ \A k : k # "make" => At(e.ops, k) = At(c.ops, k)
      /\ At(e.ops, "make") # {}
      /\ \A k, i : i \in At(c.ops, k) => e.ops[i] = c.ops[i]
  BY <1>1, KindAppend
<1>3. Chain(e, n)
  <2>1. At(c.ops, "make") = {} BY DEF Chain
  <2>2. Ordered(e.ops) BY <1>1, <2>1, OrderedAppend DEF Chain
  <2>3. QED BY <1>2, <2>2 DEF Chain, Same
<1>4. SameTokens(c, e) BY <1>2 DEF SameTokens, Same
<1>5. ASSUME NEW w, Coming(c, w) PROVE Coming(e, w)
  <2>1. Comes(c, w, Append(c.ops, o)) BY <1>1, <1>5, ComesAppend DEF Coming
  <2>2. QED BY <2>1, ComesSame DEF Coming
<1>6. QED BY <1>3, <1>4, <1>5 DEF Calm

\* The operation at the head makes no offer after all.
LEMMA MakerGone ==
  ASSUME NEW c \in PeerSessions, NEW e \in PeerSessions, NEW n, Chain(c, n), Same(c, e),
         c.ops # <<>>, Kind(Head(c.ops)) = "make", c.sig # "stable",
         e.ops = Tail(c.ops), ~e.making
  PROVE  Calm(c, e, n)
<1>1. c.ops \in Seq(Steps) /\ Ordered(c.ops) BY DEF PeerSessions, Chain
<1>2. /\ \A k : k # "make" => (At(e.ops, k) = {} <=> At(c.ops, k) = {})
      /\ Ordered(e.ops) /\ At(e.ops, "make") = {}
      /\ \A k, j : j \in At(e.ops, k) => j + 1 \in At(c.ops, k) /\ e.ops[j] = c.ops[j + 1]
      /\ Head(c.ops) \in Steps
  <2> DEFINE t == Tail(c.ops)
  <2>1. /\ \A k : k # "make" => (At(t, k) = {} <=> At(c.ops, k) = {})
        /\ Ordered(t) /\ At(t, "make") = {}
        /\ \A k, j : j \in At(t, k) => j + 1 \in At(c.ops, k) /\ t[j] = c.ops[j + 1]
        /\ Head(c.ops) \in Steps
    BY <1>1, KindTail
  <2> HIDE DEF t
  <2>2. e.ops = t BY DEF t
  <2>3. QED BY <2>1, <2>2
<1>3. Chain(e, n) BY <1>2 DEF Chain, Same
<1>4. SameTokens(c, e) BY <1>2 DEF SameTokens, Same
<1>5. Head(c.ops).op # "add" BY <1>2, Kinds
<1>6. ASSUME NEW w, Coming(c, w) PROVE Coming(e, w)
  <2>1. Comes(c, w, Tail(c.ops)) BY <1>1, <1>5, <1>6, ComesTail DEF Coming
  <2>2. QED BY <2>1, ComesSame DEF Coming
<1>7. QED BY <1>3, <1>4, <1>6 DEF Calm

\* The offer is made, and is to be set next.
LEMMA MakerNext ==
  ASSUME NEW c \in PeerSessions, NEW e \in PeerSessions, NEW n, Chain(c, n), Same(c, e),
         c.ops # <<>>, Kind(Head(c.ops)) = "make", NEW o \in Makers, o.op = "offer",
         e.ops = Append(Tail(c.ops), o), e.making = c.making, e.fired => c.fired
  PROVE  Calm(c, e, n)
<1> DEFINE s == Tail(c.ops)
<1>1. c.ops \in Seq(Steps) /\ Ordered(c.ops) /\ o \in Steps /\ Kind(o) = "make"
  BY Kinds DEF PeerSessions, Steps, Chain
<1>2. /\ \A k : k # "make" => (At(s, k) = {} <=> At(c.ops, k) = {})
      /\ Ordered(s) /\ At(s, "make") = {} /\ At(c.ops, "make") # {}
      /\ \A k, j : j \in At(s, k) => j + 1 \in At(c.ops, k) /\ s[j] = c.ops[j + 1]
      /\ Head(c.ops) \in Steps /\ s \in Seq(Steps)
  BY <1>1, KindTail
<1> HIDE DEF s
<1>3. e.ops = Append(s, o) BY DEF s
<1>4. /\ \A k : k # "make" => At(e.ops, k) = At(s, k)
      /\ At(e.ops, "make") = {Len(s) + 1} /\ e.ops[Len(s) + 1] = o
      /\ \A k, i : i \in At(s, k) => e.ops[i] = s[i]
  <2> DEFINE r == Append(s, o)
  <2>1. /\ \A k : k # "make" => At(r, k) = At(s, k)
        /\ At(r, "make") = {Len(s) + 1} /\ r[Len(s) + 1] = o
        /\ \A k, i : i \in At(s, k) => r[i] = s[i]
    BY <1>1, <1>2, KindAppend
  <2> HIDE DEF r
  <2>2. e.ops = r BY <1>3 DEF r
  <2>3. QED BY <2>1, <2>2
<1>5. Ordered(e.ops) BY <1>1, <1>2, <1>3, OrderedAppend
<1>6. Chain(e, n) BY <1>2, <1>4, <1>5 DEF Chain, Same
<1>7. SameTokens(c, e)
  <2>1. \A k \in {"taken", "heard"} : \A j \in At(e.ops, k) : \E i \in At(c.ops, k) : e.ops[j] = c.ops[i]
    <3>1. SUFFICES ASSUME NEW k \in {"taken", "heard"}, NEW j \in At(e.ops, k)
                   PROVE  \E i \in At(c.ops, k) : e.ops[j] = c.ops[i]
      OBVIOUS
    <3>2. j \in At(s, k) BY <1>4, <3>1
    <3>3. j + 1 \in At(c.ops, k) /\ s[j] = c.ops[j + 1] /\ e.ops[j] = s[j] BY <1>2, <1>4, <3>2
    <3>4. QED BY <3>3
  <2>2. QED BY <1>2, <1>4, <2>1 DEF SameTokens, Same
<1>8. Head(c.ops).op # "add" BY <1>2, Kinds
<1>9. ASSUME NEW w, Coming(c, w) PROVE Coming(e, w)
  <2>1. Comes(c, w, s) BY <1>1, <1>8, <1>9, ComesTail DEF Coming, s
  <2>2. Comes(c, w, Append(s, o)) BY <1>1, <1>2, <2>1, ComesAppend
  <2>3. QED BY <1>3, <2>2, ComesSame DEF Coming
<1>10. QED BY <1>6, <1>7, <1>9 DEF Calm

LEMMA TwoEnds ==
  /\ Other("polite") = "impolite" /\ Other("impolite") = "polite"
  /\ Ends = {"polite", "impolite"} /\ "polite" # "impolite"
  /\ \A p \in Ends : Other(p) \in Ends /\ Other(p) # p /\ Other(Other(p)) = p /\ Ends = {p, Other(p)}
BY DEF Other, Ends

\* Nothing comes nearer.
LEMMA Unmoved ==
  ASSUME NEW w \in Seq(Signals)
  PROVE  Nearer(w, w, 0)
<1>1. \A t, i : i \in OnWire(w, t) => i \in Nat \ {0} BY Positions
<1>2. QED BY <1>1 DEF Nearer

LEMMA CalmStep ==
  ASSUME NegInv, NEW p \in Ends, NEW e \in PeerSessions, Calm(pc[p], e, offers),
         pc' = [pc EXCEPT ![p] = e], wire' = wire, offers' = offers, crossed' = crossed,
         kicks' \in 0 .. MaxKicks
  PROVE  NegInv'
<1>1. NegotiationTyped /\ Skeleton /\ (\A o \in Ends : Chain(pc[o], offers) /\ Paired(wire[o]))
  BY DEF NegInv
<1>2. pc'[p] = e /\ \A o \in Ends \ {p} : pc'[o] = pc[o] BY <1>1 DEF NegotiationTyped
<1>3. NegotiationTyped' BY <1>1 DEF NegotiationTyped
<1>4. \A o \in Ends : Chain(pc'[o], offers') /\ Paired(wire'[o]) BY <1>1, <1>2 DEF Calm
<1>5. Skeleton'
  <2>1. Nearer(wire[p], wire'[p], 0) BY <1>1, Unmoved DEF NegotiationTyped
  <2>2. pc'[Other(p)] = pc[Other(p)] BY <1>2, TwoEnds
  <2>3. SameTokens(pc[p], pc'[p]) BY <1>2 DEF Calm
  <2>4. QED BY <1>1, <2>1, <2>2, <2>3, QuietStep
<1>6. ~crossed' => \A o \in Ends : Coming(pc'[o], wire'[o]) BY <1>2 DEF Calm, NegInv
<1>7. QED BY <1>3, <1>4, <1>5, <1>6 DEF NegInv

-----------------------------------------------------------------------------
LEMMA NeededKeeps ==
  ASSUME NegInv, NEW p \in Ends, NegotiationNeeded(p)
  PROVE  NegInv'
<1> DEFINE c == pc[p]
           fires == [c EXCEPT !.fired = TRUE]
           e == IF fires.making THEN fires ELSE Then([fires EXCEPT !.making = TRUE], Op("negotiate"))
<1>1. c \in PeerSessions /\ Chain(c, offers) BY DEF NegInv, NegotiationTyped
<1>2. pc' = [pc EXCEPT ![p] = e] /\ UNCHANGED <<wire, offers, kicks, crossed>> /\ c.ops = <<>> /\ c.sig = "stable"
  BY <1>1 DEF NegotiationNeeded, NegInv, NegotiationTyped
<1>3. e \in PeerSessions /\ Calm(c, e, offers)
  <2>1. CASE c.making
    <3>1. e = [c EXCEPT !.fired = TRUE] BY <1>1, <2>1 DEF PeerSessions
    <3>2. e \in PeerSessions /\ Same(c, e) /\ e.ops = c.ops /\ e.making = c.making
      BY <1>1, <3>1 DEF PeerSessions, Same
    <3> HIDE DEF c, e
    <3>3. QED BY <1>1, <2>1, <3>2, SameOps
  <2>2. CASE ~c.making
    <3>1. e = [c EXCEPT !.fired = TRUE, !.making = TRUE, !.ops = Append(c.ops, Op("negotiate"))]
      BY <1>1, <2>2 DEF PeerSessions, Then
    <3>2. Op("negotiate") \in Makers /\ Op("negotiate").op = "negotiate" BY DEF Op, Makers
    <3>3. Append(c.ops, Op("negotiate")) \in Seq(Steps) BY <1>1, <3>2 DEF PeerSessions, Steps
    <3>4. e \in PeerSessions /\ Same(c, e) /\ e.ops = Append(c.ops, Op("negotiate")) /\ e.making
      BY <1>1, <3>1, <3>3 DEF PeerSessions, Same
    <3> HIDE DEF c, e
    <3>5. QED BY <1>1, <1>2, <2>2, <3>2, <3>4, NewMaker
  <2>3. QED BY <2>1, <2>2
<1>4. kicks' \in 0 .. MaxKicks BY <1>2 DEF NegInv, NegotiationTyped
<1> HIDE DEF e
<1>5. QED BY <1>2, <1>3, <1>4, CalmStep

LEMMA EnsuredCalm ==
  ASSUME NEW c \in PeerSessions, Chain(c, offers), NEW restarts \in BOOLEAN
  PROVE  Ensured(c, restarts) \in PeerSessions /\ Calm(c, Ensured(c, restarts), offers)
<1> DEFINE e == Ensured(c, restarts)
<1>1. CASE c.making \/ c.open \/ c.sig # "stable"
  <2>1. Ensured(c, restarts) = c BY <1>1 DEF Ensured
  <2>2. Same(c, c) BY DEF Same
  <2>3. QED BY <2>1, <2>2, SameOps
<1>2. CASE ~(c.making \/ c.open \/ c.sig # "stable")
  <2>1. PICK need \in SUBSET {"channels", "restart"} :
          /\ c.need \subseteq need
          /\ e = [c EXCEPT !.need = need, !.making = TRUE, !.ops = Append(c.ops, Op("create"))]
    <3>1. e = Then([(IF restarts THEN RestartIce(c) ELSE c) EXCEPT !.making = TRUE], Op("create"))
      BY <1>2 DEF Ensured
    <3>2. RestartIce(c) = [c EXCEPT !.need = IF c.agreed > 0 \/ c.sig = "local" THEN c.need \cup {"restart"} ELSE c.need]
      BY DEF RestartIce
    <3>3. c.need \in SUBSET {"channels", "restart"} BY DEF PeerSessions
    <3>4. CASE restarts
      <4> DEFINE need == IF c.agreed > 0 \/ c.sig = "local" THEN c.need \cup {"restart"} ELSE c.need
      <4>1. need \in SUBSET {"channels", "restart"} /\ c.need \subseteq need BY <3>3
      <4>2. e = [c EXCEPT !.need = need, !.making = TRUE, !.ops = Append(c.ops, Op("create"))]
        BY <3>1, <3>2, <3>4 DEF PeerSessions, Then
      <4> HIDE DEF need
      <4>3. QED BY <4>1, <4>2
    <3>5. CASE ~restarts
      <4>1. e = [c EXCEPT !.need = c.need, !.making = TRUE, !.ops = Append(c.ops, Op("create"))]
        BY <3>1, <3>5 DEF PeerSessions, Then
      <4>2. QED BY <3>3, <4>1
    <3>6. QED BY <3>4, <3>5
  <2>2. Op("create") \in Makers /\ Op("create").op # "negotiate" BY DEF Op, Makers
  <2>3. Append(c.ops, Op("create")) \in Seq(Steps) BY <2>2 DEF PeerSessions, Steps
  <2>4. e \in PeerSessions /\ Same(c, e) /\ e.ops = Append(c.ops, Op("create")) /\ e.making
    BY <2>1, <2>3 DEF PeerSessions, Same
  <2> HIDE DEF e
  <2>5. Calm(c, e, offers) BY <1>2, <2>2, <2>4, NewMaker
  <2>6. QED BY <2>4, <2>5 DEF e
<1>3. QED BY <1>1, <1>2

LEMMA StartsKeeps ==
  ASSUME NegInv, NEW p \in Ends, Starts(p)
  PROVE  NegInv'
<1> DEFINE c == pc[p]
           begun == [c EXCEPT !.started = TRUE]
           e == IF p = "impolite" \/ (begun.sig = "stable" /\ ~begun.has) THEN Ensured(begun, FALSE) ELSE begun
<1>1. c \in PeerSessions /\ Chain(c, offers) BY DEF NegInv, NegotiationTyped
<1>2. pc' = [pc EXCEPT ![p] = e] /\ UNCHANGED <<wire, offers, kicks, crossed>>
  BY <1>1 DEF Starts, NegInv, NegotiationTyped
<1>3. begun \in PeerSessions /\ Same(c, begun) /\ begun.ops = c.ops /\ begun.making = c.making /\ begun.fired = c.fired
  BY <1>1 DEF PeerSessions, Same
<1>4. kicks' \in 0 .. MaxKicks BY <1>2 DEF NegInv, NegotiationTyped
<1> HIDE DEF c, begun
<1>5. Calm(c, begun, offers) BY <1>1, <1>3, SameOps
<1>6. e \in PeerSessions /\ Calm(c, e, offers)
  <2>1. Chain(begun, offers) BY <1>5 DEF Calm
  <2>2. Ensured(begun, FALSE) \in PeerSessions /\ Calm(begun, Ensured(begun, FALSE), offers)
    BY <1>3, <2>1, EnsuredCalm
  <2>3. \A d : Calm(begun, d, offers) => Calm(c, d, offers)
    BY <1>3, <1>5 DEF Calm, SameTokens, Same
  <2>4. QED BY <1>3, <1>5, <2>2, <2>3
<1> HIDE DEF e
<1>7. QED BY <1>2, <1>4, <1>6, CalmStep DEF c

LEMMA KickKeeps ==
  ASSUME NegInv, NEW p \in Ends, Kick(p)
  PROVE  NegInv'
<1>1. PICK restarts \in BOOLEAN : pc' = [pc EXCEPT ![p] = Ensured(@, restarts /\ @.agreed > 0)]
  BY DEF Kick
<1>2. kicks < MaxKicks /\ kicks' = kicks + 1 /\ UNCHANGED <<wire, offers, crossed>> BY DEF Kick
<1>3. pc[p] \in PeerSessions /\ Chain(pc[p], offers) /\ kicks \in 0 .. MaxKicks BY DEF NegInv, NegotiationTyped
<1>4. PICK hard \in BOOLEAN : hard <=> restarts /\ pc[p].agreed > 0 OBVIOUS
<1>5. pc' = [pc EXCEPT ![p] = Ensured(pc[p], hard)]
  <2>1. hard = (restarts /\ pc[p].agreed > 0) BY <1>1, <1>4
  <2>2. QED BY <1>1, <2>1
<1>6. kicks' \in 0 .. MaxKicks BY <1>2, <1>3, NegotiationAssumption DEF NegotiationAssumption
<1>7. QED BY <1>2, <1>3, <1>5, <1>6, CalmStep, EnsuredCalm

LEMMA RestartKeeps ==
  ASSUME NegInv, NEW p \in Ends, Restart(p)
  PROVE  NegInv'
<1> DEFINE c == pc[p]
           e == RestartIce(c)
<1>1. c \in PeerSessions /\ Chain(c, offers) /\ kicks \in 0 .. MaxKicks BY DEF NegInv, NegotiationTyped
<1>2. pc' = [pc EXCEPT ![p] = e] /\ UNCHANGED <<wire, offers, crossed>> /\ kicks' = kicks + 1 /\ kicks < MaxKicks
  BY DEF Restart
<1>3. e \in PeerSessions /\ Same(c, e) /\ e.ops = c.ops /\ e.making = c.making /\ e.fired = c.fired
  BY <1>1 DEF RestartIce, PeerSessions, Same
<1>4. kicks' \in 0 .. MaxKicks BY <1>1, <1>2, NegotiationAssumption DEF NegotiationAssumption
<1> HIDE DEF e
<1>5. QED BY <1>1, <1>2, <1>3, <1>4, SameOps, CalmStep

LEMMA ChannelsOpenKeeps ==
  ASSUME NegInv, NEW p \in Ends, ChannelsOpen(p)
  PROVE  NegInv'
<1> DEFINE c == pc[p]
           e == [c EXCEPT !.open = TRUE]
<1>1. c \in PeerSessions /\ Chain(c, offers) /\ kicks \in 0 .. MaxKicks BY DEF NegInv, NegotiationTyped
<1>2. pc' = [pc EXCEPT ![p] = e] /\ UNCHANGED <<wire, offers, kicks, crossed>> BY DEF ChannelsOpen
<1>3. e \in PeerSessions /\ Same(c, e) /\ e.ops = c.ops /\ e.making = c.making /\ e.fired = c.fired
  BY <1>1 DEF PeerSessions, Same
<1> HIDE DEF e
<1>4. QED BY <1>1, <1>2, <1>3, SameOps, CalmStep

LEMMA CreatesKeeps ==
  ASSUME NegInv, NEW p \in Ends, pc[p].ops # <<>>, Creates(p), kicks' = kicks
  PROVE  NegInv'
<1> DEFINE c == pc[p]
           e == IF c.sig = "stable" THEN Then(Popped(c), Op("offer")) ELSE [Popped(c) EXCEPT !.making = FALSE]
<1>1. /\ c \in PeerSessions /\ Chain(c, offers) /\ kicks \in 0 .. MaxKicks
      /\ c.ops \in Seq(Steps) /\ Ordered(c.ops)
  BY DEF NegInv, NegotiationTyped, Chain, PeerSessions
<1>2. pc' = [pc EXCEPT ![p] = e] /\ UNCHANGED <<wire, offers, crossed>> /\ Head(c.ops).op = "create"
  BY DEF Creates
<1>3. Tail(c.ops) \in Seq(Steps) /\ Head(c.ops) \in Steps BY <1>1, KindTail
<1>4. Kind(Head(c.ops)) = "make" BY <1>2, <1>3, Kinds
<1>5. CASE c.sig = "stable"
  <2>1. e = [c EXCEPT !.ops = Append(Tail(c.ops), Op("offer"))] BY <1>1, <1>5 DEF Then, Popped, PeerSessions
  <2>2. Op("offer") \in Makers /\ Op("offer").op = "offer" BY DEF Op, Makers
  <2>3. Append(Tail(c.ops), Op("offer")) \in Seq(Steps) BY <1>3, <2>2 DEF Steps
  <2>4. /\ e \in PeerSessions /\ Same(c, e) /\ e.ops = Append(Tail(c.ops), Op("offer"))
        /\ e.making = c.making /\ e.fired = c.fired
    BY <1>1, <2>1, <2>3 DEF PeerSessions, Same
  <2> HIDE DEF e
  <2>5. Calm(c, e, offers) BY <1>1, <1>4, <2>2, <2>4, MakerNext
  <2>6. QED BY <1>1, <1>2, <2>4, <2>5, CalmStep
<1>6. CASE c.sig # "stable"
  <2>1. e = [c EXCEPT !.ops = Tail(c.ops), !.making = FALSE] BY <1>1, <1>6 DEF Popped, PeerSessions
  <2>2. e \in PeerSessions /\ Same(c, e) /\ e.ops = Tail(c.ops) /\ ~e.making
    BY <1>1, <1>3, <2>1 DEF PeerSessions, Same
  <2> HIDE DEF e
  <2>3. Calm(c, e, offers) BY <1>1, <1>4, <1>6, <2>2, MakerGone
  <2>4. QED BY <1>1, <1>2, <2>2, <2>3, CalmStep
<1>7. QED BY <1>5, <1>6

LEMMA RefusedKeeps ==
  ASSUME NegInv, NEW p \in Ends, pc[p].ops # <<>>, SetsOffer(p), pc[p].sig = "remote", kicks' = kicks
  PROVE  NegInv'
<1> DEFINE c == pc[p]
           e == [Popped(c) EXCEPT !.making = FALSE]
<1>1. /\ c \in PeerSessions /\ Chain(c, offers) /\ kicks \in 0 .. MaxKicks
      /\ c.ops \in Seq(Steps) /\ Ordered(c.ops)
  BY DEF NegInv, NegotiationTyped, Chain, PeerSessions
<1>2. pc' = [pc EXCEPT ![p] = e] /\ UNCHANGED <<wire, offers, crossed>> /\ Head(c.ops).op = "offer"
  BY DEF SetsOffer
<1>3. Tail(c.ops) \in Seq(Steps) /\ Head(c.ops) \in Steps BY <1>1, KindTail
<1>4. Kind(Head(c.ops)) = "make" BY <1>2, <1>3, Kinds
<1>5. e = [c EXCEPT !.ops = Tail(c.ops), !.making = FALSE] BY <1>1 DEF Popped, PeerSessions
<1>6. e \in PeerSessions /\ Same(c, e) /\ e.ops = Tail(c.ops) /\ ~e.making
  BY <1>1, <1>3, <1>5 DEF PeerSessions, Same
<1> HIDE DEF e
<1>7. Calm(c, e, offers) BY <1>1, <1>4, <1>6, MakerGone
<1>8. QED BY <1>1, <1>2, <1>6, <1>7, CalmStep

-----------------------------------------------------------------------------
AddsTo(c, m) ==
  [c EXCEPT !.ops = Tail(@) \o m.next, !.added = @ \cup (m.ids \cap {c.offer, c.agreed})]

\* Candidates are added; an answer that waited for them is next.
LEMMA AddsKeeps ==
  ASSUME NegInv, NEW p \in Ends, pc[p].ops # <<>>, Adds(p), kicks' = kicks
  PROVE  NegInv'
<1> DEFINE c == pc[p]
           m == Head(c.ops)
           known == {c.offer, c.agreed}
           s == Tail(c.ops)
           t == s \o m.next
           e == AddsTo(c, m)
<1>1. /\ c \in PeerSessions /\ Chain(c, offers) /\ kicks \in 0 .. MaxKicks
      /\ c.ops \in Seq(Steps) /\ Ordered(c.ops)
  BY DEF NegInv, NegotiationTyped, Chain, PeerSessions
<1>2. pc' = [pc EXCEPT ![p] = e] /\ UNCHANGED <<wire, offers, crossed>> /\ m.op = "add"
  BY DEF Adds, AddsTo
<1>3. /\ s \in Seq(Steps) /\ m \in Steps /\ Ordered(s)
      /\ \A k : k # Kind(m) => (At(s, k) = {} <=> At(c.ops, k) = {})
      /\ Kind(m) = "owed" => At(s, "owed") = {} /\ At(c.ops, "owed") # {}
      /\ \A k, j : j \in At(s, k) => j \in Nat /\ j + 1 \in At(c.ops, k) /\ s[j] = c.ops[j + 1]
  <2>1. Kind(m) = "owed" => At(s, "owed") = {} BY <1>1, KindTail
  <2>2. Kind(m) = "owed" => At(c.ops, "owed") # {} BY <1>1, KindTail
  <2>3. QED BY <1>1, <2>1, <2>2, KindTail
<1>4. m \in Additions /\ Kind(m) = IF m.next # <<>> THEN "owed" ELSE "add" BY <1>2, <1>3, Kinds
<1>5. m.ids \in SUBSET (1 .. MaxOffers) /\ m.next \in {<<>>} \cup {<<r>> : r \in Replies} BY <1>4 DEF Additions
<1> HIDE DEF c, m, s
<1>6. /\ t \in Seq(Steps) /\ Ordered(t)
      /\ \A k : At(t, k) = {} <=> At(c.ops, k) = {} \/ (k = "add" /\ At(t, k) = {})
      /\ \A k \in {"make", "undo", "taken", "heard"} : At(t, k) = At(s, k)
      /\ \A k \in {"make", "undo", "taken", "heard"} : \A j \in At(t, k) : t[j] = s[j]
      /\ \A n, i : AddedAfter(s, n, i) => AddedAfter(t, n, i)
  <2>1. CASE m.next = <<>>
    <3>1. t = s BY <1>3, <2>1
    <3>2. Kind(m) = "add" BY <1>4, <2>1
    <3>3. QED BY <1>3, <3>1, <3>2
  <2>2. CASE m.next # <<>>
    <3>1. PICK r \in Replies : m.next = <<r>> BY <1>5, <2>2
    <3>2. r \in Steps /\ Kind(r) = "owed" /\ r.op = "answer" BY Kinds DEF Steps, Replies
    <3>3. t = Append(s, r) BY <1>3, <3>1, <3>2, AppendIsConcat
    <3>4. Kind(m) = "owed" /\ At(s, "owed") = {} /\ At(c.ops, "owed") # {} BY <1>3, <1>4, <2>2
    <3>5. Ordered(Append(s, r)) BY <1>3, <3>2, <3>4, OrderedAppend
    <3>6. /\ \A k : k # "owed" => At(Append(s, r), k) = At(s, k)
          /\ At(Append(s, r), "owed") # {}
          /\ \A k, i : i \in At(s, k) => Append(s, r)[i] = s[i]
          /\ Append(s, r) \in Seq(Steps)
      BY <1>3, <3>2, KindAppend
    <3>8. \A n, i : AddedAfter(s, n, i) => AddedAfter(Append(s, r), n, i) BY <1>3, <3>2, AddedAppend
    <3> HIDE DEF t
    <3>9. \A k : At(t, k) = {} <=> At(c.ops, k) = {} \/ (k = "add" /\ At(t, k) = {})
      BY <1>3, <3>3, <3>4, <3>6
    <3>10. QED BY <3>3, <3>5, <3>6, <3>8, <3>9
  <2>3. QED BY <2>1, <2>2
<1> HIDE DEF t
<1>7. /\ e \in PeerSessions /\ e.ops = t /\ e.sig = c.sig /\ e.offer = c.offer /\ e.agreed = c.agreed
      /\ e.has = c.has /\ e.answering = c.answering /\ e.queue = c.queue /\ e.need = c.need
      /\ e.making = c.making /\ e.fired = c.fired /\ e.added = c.added \cup (m.ids \cap known)
  BY <1>1, <1>5, <1>6 DEF PeerSessions, AddsTo, t, s
<1> HIDE DEF e
<1>8. Chain(e, offers)
  <2>1. ASSUME NEW i \in At(t, "make"), t[i].op = "negotiate" PROVE c.sig = "stable"
    <3>1. i + 1 \in At(c.ops, "make") /\ c.ops[i + 1].op = "negotiate" BY <1>3, <1>6, <2>1
    <3>2. QED BY <1>1, <3>1 DEF Chain
  <2>2. \A k \in {"make", "undo", "taken", "heard", "owed"} : At(t, k) = {} <=> At(c.ops, k) = {} BY <1>6
  <2>3. QED BY <1>1, <1>6, <1>7, <2>1, <2>2 DEF Chain
<1>9. SameTokens(c, e)
  <2>1. ASSUME NEW k \in {"taken", "heard"}, NEW j \in At(t, k) PROVE \E i \in At(c.ops, k) : t[j] = c.ops[i]
    BY <1>3, <1>6
  <2>2. \A k \in {"undo", "taken", "heard", "owed"} : At(t, k) = {} <=> At(c.ops, k) = {} BY <1>6
  <2>3. QED BY <1>7, <2>1, <2>2 DEF SameTokens
<1>10. ASSUME NEW w, Coming(c, w) PROVE Coming(e, w)
  <2>1. Comes(c, w, c.ops) BY <1>10 DEF Coming
  <2>2. \A n : \A i \in Nat : AddedAfter(c.ops, n, i + 1) => AddedAfter(s, n, i) BY <1>1, AddedTail DEF s, c
  <2>3. \A n : AddedAfter(c.ops, n, 0) => AddedAfter(s, n, 0) \/ n \in m.ids BY <1>1, AddedTail DEF s, m, c
  <2>4. \A i \in At(t, "taken") \cup At(t, "heard") : i \in At(s, "taken") \cup At(s, "heard") /\ t[i] = s[i]
    BY <1>6
  <2>5. \A n \in 1 .. MaxOffers :
          n = c.agreed \/ (c.sig = "remote" /\ n = c.offer)
            => Next1(w, n) \/ n \in c.added \cup (m.ids \cap known) \/ AddedAfter(t, n, 0)
    BY <1>6, <2>1, <2>3 DEF Comes
  <2>6. \A i \in At(s, "taken") \cup At(s, "heard") :
          Next1(w, s[i].id) \/ s[i].id \in c.queue \/ AddedAfter(s, s[i].id, i)
    <3>1. SUFFICES ASSUME NEW i \in At(s, "taken") \cup At(s, "heard"), ~Next1(w, s[i].id), s[i].id \notin c.queue
                   PROVE  AddedAfter(s, s[i].id, i)
      OBVIOUS
    <3>2. i \in Nat /\ i + 1 \in At(c.ops, "taken") \cup At(c.ops, "heard") /\ s[i] = c.ops[i + 1] BY <1>3
    <3>3. AddedAfter(c.ops, s[i].id, i + 1) BY <2>1, <3>1, <3>2 DEF Comes
    <3>4. QED BY <2>2, <3>2, <3>3
  <2>7. \A i \in At(t, "taken") \cup At(t, "heard") :
          Next1(w, t[i].id) \/ t[i].id \in c.queue \/ AddedAfter(t, t[i].id, i)
    BY <1>6, <2>4, <2>6
  <2>8. \A i \in At(t, "heard") : c.answering /\ w # <<>> /\ w[1].type = "candidate" => w[1].id = t[i].id
    <3>1. SUFFICES ASSUME NEW i \in At(t, "heard"), c.answering, w # <<>>, w[1].type = "candidate"
                   PROVE  w[1].id = t[i].id
      OBVIOUS
    <3>2. i + 1 \in At(c.ops, "heard") /\ t[i] = c.ops[i + 1] BY <1>3, <1>6
    <3>3. w[1].id = c.ops[i + 1].id BY <2>1, <3>1, <3>2 DEF Comes
    <3>4. QED BY <3>2, <3>3
  <2>9. Comes(e, w, t) BY <1>7, <2>5, <2>7, <2>8 DEF Comes
  <2>10. QED BY <1>7, <2>9 DEF Coming
<1>11. Calm(c, e, offers) BY <1>8, <1>9, <1>10 DEF Calm
<1>12. QED BY <1>1, <1>2, <1>7, <1>11, CalmStep DEF c

\* What is left of the wire
LEMMA PairedTail ==
  ASSUME NEW w \in Seq(Signals), w # <<>>, Paired(w)
  PROVE  /\ Paired(Tail(w))
         /\ Tail(w) # <<>> => Tail(w)[1] = w[2]
         /\ w[1].type = "candidate" /\ Tail(w) # <<>> => w[2].type # "candidate"
         /\ w[1].type # "candidate" => Tail(w) # <<>> /\ w[2].type = "candidate" /\ w[2].id = w[1].id
<1> DEFINE v == Tail(w)
<1>1. /\ DOMAIN w = 1 .. Len(w) /\ Len(w) \in Nat /\ Len(w) > 0
      /\ v \in Seq(Signals) /\ Len(v) = Len(w) - 1
      /\ \A i \in 1 .. Len(v) : v[i] = w[i + 1]
  BY HeadTailProperties, EmptySeq
<1>2. DOMAIN v = 1 .. Len(w) - 1 BY <1>1
<1>3. v # <<>> <=> Len(w) > 1
  <2>1. v # <<>> <=> Len(v) > 0 BY <1>1, Positions
  <2>2. QED BY <1>1, <2>1
<1> HIDE DEF v
<1>4. Paired(v)
  <2>1. SUFFICES ASSUME NEW i \in DOMAIN v
                 PROVE  IF v[i].type = "candidate" THEN i + 1 \in DOMAIN v => v[i + 1].type # "candidate"
                        ELSE i + 1 \in DOMAIN v /\ v[i + 1].type = "candidate" /\ v[i + 1].id = v[i].id
    BY DEF Paired
  <2>2. i \in Nat /\ i + 1 \in DOMAIN w /\ v[i] = w[i + 1] BY <1>1, <1>2
  <2>3. i + 1 \in DOMAIN v <=> i + 1 + 1 \in DOMAIN w BY <1>1, <1>2, <2>2
  <2>4. i + 1 \in DOMAIN v => v[i + 1] = w[i + 1 + 1] BY <1>1, <1>2, <2>2
  <2>5. QED BY <2>2, <2>3, <2>4 DEF Paired
<1>5. v # <<>> => v[1] = w[2] /\ 1 + 1 \in DOMAIN w BY <1>1, <1>3
<1>6. 1 \in DOMAIN w /\ (1 + 1 \in DOMAIN w => v # <<>>) BY <1>1, <1>3
<1>7. 1 + 1 = 2 OBVIOUS
<1>8. QED BY <1>4, <1>5, <1>6, <1>7 DEF v, Paired

LEMMA PairedAppend ==
  ASSUME NEW w \in Seq(Signals), NEW m \in Signals, NEW n \in Signals, m.type # "candidate",
         n.type = "candidate", n.id = m.id, Paired(w)
  PROVE  Paired(w \o <<m, n>>)
<1> DEFINE v == w \o <<m, n>>
<1>1. /\ \A i \in DOMAIN w : v[i] = w[i]
      /\ v[Len(w) + 1] = m /\ v[Len(w) + 2] = n
      /\ DOMAIN v = 1 .. Len(w) + 2 /\ DOMAIN w = 1 .. Len(w) /\ Len(w) \in Nat
  BY OnAppend
<1> HIDE DEF v
<1>2. ASSUME NEW i \in DOMAIN v
      PROVE  IF v[i].type = "candidate" THEN i + 1 \in DOMAIN v => v[i + 1].type # "candidate"
             ELSE i + 1 \in DOMAIN v /\ v[i + 1].type = "candidate" /\ v[i + 1].id = v[i].id
  <2>1. i \in 1 .. Len(w) + 2 BY <1>1
  <2>2. CASE i = Len(w) + 1
    <3>1. i + 1 = Len(w) + 2 BY <1>1, <2>2
    <3>2. QED BY <1>1, <2>2, <3>1
  <2>3. CASE i = Len(w) + 2
    <3>1. i + 1 \notin DOMAIN v BY <1>1, <2>3
    <3>2. QED BY <1>1, <2>3, <3>1
  <2>4. CASE i \in 1 .. Len(w) - 1
    <3>1. i \in DOMAIN w /\ i + 1 \in DOMAIN w /\ i + 1 \in DOMAIN v BY <1>1, <2>4
    <3>2. QED BY <1>1, <3>1 DEF Paired
  <2>5. CASE i = Len(w) /\ Len(w) > 0
    <3>1. i \in DOMAIN w /\ i + 1 \notin DOMAIN w BY <1>1, <2>5
    <3>2. w[i].type = "candidate" BY <3>1 DEF Paired
    <3>3. v[i] = w[i] /\ v[i + 1] = m BY <1>1, <2>5, <3>1
    <3>4. QED BY <3>2, <3>3
  <2>6. QED BY <1>1, <2>1, <2>2, <2>3, <2>4, <2>5
<1>3. Paired(v) BY <1>2 DEF Paired
<1>4. QED BY <1>3 DEF v

\* The other end, to which a description is sent
LEMMA ComingLonger ==
  ASSUME NEW w \in Seq(Signals), NEW m \in Signals, NEW n \in Signals, m.type # "candidate",
         n.type = "candidate", NEW c, Coming(c, w)
  PROVE  Coming(c, w \o <<m, n>>)
<1> DEFINE v == w \o <<m, n>>
<1>1. /\ \A i \in DOMAIN w : v[i] = w[i]
      /\ v[Len(w) + 1] = m
      /\ DOMAIN v = 1 .. Len(w) + 2 /\ DOMAIN w = 1 .. Len(w) /\ Len(w) \in Nat
      /\ v \in Seq(Signals)
  BY OnAppend
<1>2. w # <<>> => 1 \in DOMAIN w BY <1>1, EmptySeq
<1>3. w = <<>> => v[1] = m BY <1>1
<1>4. v # <<>> BY <1>1, EmptySeq
<1> HIDE DEF v
<1>5. \A k : Next1(w, k) => Next1(v, k) BY <1>1, <1>2, <1>4 DEF Next1
<1>6. v[1].type = "candidate" => w # <<>> /\ w[1] = v[1] BY <1>1, <1>2, <1>3
<1>7. Comes(c, v, c.ops) BY <1>5, <1>6 DEF Coming, Comes
<1>8. QED BY <1>7 DEF v, Coming

\* A candidate comes.
LEMMA NearerTail ==
  ASSUME NEW w \in Seq(Signals), w # <<>>, Head(w).type = "candidate"
  PROVE  Nearer(w, Tail(w), 1)
<1>1. /\ \A t, i : i \in OnWire(Tail(w), t) <=> i \in Nat \ {0} /\ i + 1 \in OnWire(w, t)
      /\ \A i \in DOMAIN Tail(w) : Tail(w)[i] = w[i + 1]
      /\ \A t : 1 \in OnWire(w, t) <=> t = Head(w).type
      /\ \A t, i : i \in OnWire(w, t) => i \in Nat \ {0} /\ i \in DOMAIN w
  BY OnTail
<1>2. \A t, i : i \in OnWire(Tail(w), t) => i \in DOMAIN Tail(w) BY DEF OnWire
<1>3. \A t \in {"offer", "answer"} : \A i \in OnWire(w, t) : i \in Nat /\ i > 1
  <2>1. SUFFICES ASSUME NEW t \in {"offer", "answer"}, NEW i \in OnWire(w, t) PROVE i \in Nat /\ i > 1 OBVIOUS
  <2>2. i # 1 BY <1>1
  <2>3. QED BY <1>1, <2>2
<1>4. QED BY <1>1, <1>2, <1>3 DEF Nearer

\* Only what is pending or is to be taken is asked for.
LEMMA CandidateComes ==
  ASSUME NEW c \in PeerSessions, NEW w \in Seq(Signals), w # <<>>, Head(w).type = "candidate", Paired(w),
         Chain(c, offers), Coming(c, w), At(c.ops, "heard") # {} => c.sig = "local",
         \A i \in At(c.ops, "heard") : c.ops[i].id = c.offer,
         NEW e \in PeerSessions,
         IF MustWait(c) THEN e = [c EXCEPT !.queue = c.queue \cup {Head(w).id}]
         ELSE e = [c EXCEPT !.ops = Append(c.ops, [op |-> "add", ids |-> {Head(w).id}, next |-> <<>>])]
  PROVE  Coming(e, Tail(w))
<1> DEFINE n == Head(w).id
           v == Tail(w)
           s == c.ops
           t == e.ops
<1>1. Comes(c, w, s) /\ s \in Seq(Steps) BY DEF Coming, PeerSessions
<1>2. w[1] = Head(w) /\ n \in 1 .. MaxOffers BY OnTail DEF Signals
<1>3. \A k : Next1(w, k) => k = n BY <1>2 DEF Next1
<1>4. ~(v # <<>> /\ v[1].type = "candidate") BY <1>2, PairedTail
<1> HIDE DEF v, n
<1>5. CASE MustWait(c)
  <2>1. /\ e.ops = s /\ e.sig = c.sig /\ e.offer = c.offer /\ e.agreed = c.agreed /\ e.answering = c.answering
        /\ e.added = c.added /\ e.queue = c.queue \cup {n}
    BY <1>5 DEF PeerSessions, n
  <2>2. ASSUME NEW i \in At(s, "taken") \cup At(s, "heard") PROVE s[i].id \in e.queue \/ AddedAfter(s, s[i].id, i)
    BY <1>1, <1>3, <2>1 DEF Comes
  <2>3. ASSUME NEW k \in 1 .. MaxOffers, k = c.agreed \/ (c.sig = "remote" /\ k = c.offer)
        PROVE  k \in c.added \/ AddedAfter(s, k, 0)
    <3>1. c.has
      <4>1. c.agreed \in Nat BY DEF PeerSessions
      <4>2. QED BY <2>3, <4>1 DEF Chain
    <3>2. c.answering BY <1>5, <3>1 DEF MustWait
    <3>3. PICK i \in At(s, "heard") : TRUE BY <3>2 DEF Chain
    <3>4. w[1].id = c.offer /\ c.sig = "local" BY <1>1, <1>2, <3>2, <3>3 DEF Comes
    <3>5. n = c.offer /\ c.agreed < c.offer BY <1>2, <3>4 DEF Chain, n
    <3>6. c.agreed \in Nat /\ c.offer \in Nat BY DEF PeerSessions
    <3>7. ~Next1(w, k) BY <1>3, <2>3, <3>4, <3>5, <3>6
    <3>8. QED BY <1>1, <2>3, <3>7 DEF Comes
  <2>4. Comes(e, v, s) BY <1>4, <2>1, <2>2, <2>3 DEF Comes
  <2>5. QED BY <2>1, <2>4 DEF Coming, v
<1>6. CASE ~MustWait(c)
  <2> DEFINE o == [op |-> "add", ids |-> {n}, next |-> <<>>]
             r == Append(s, o)
  <2>1. o \in Steps /\ Kind(o) = "add" /\ o.op = "add" /\ o.ids = {n} BY <1>2, Kinds DEF Steps, Additions
  <2>2. /\ e.ops = r /\ e.sig = c.sig /\ e.offer = c.offer /\ e.agreed = c.agreed /\ e.answering = c.answering
        /\ e.added = c.added /\ e.queue = c.queue /\ ~c.answering
    BY <1>6 DEF PeerSessions, n, MustWait
  <2> HIDE DEF o
  <2>3. /\ \A m, i : AddedAfter(s, m, i) => AddedAfter(r, m, i)
        /\ \A m, i : i \in 0 .. Len(s) /\ m \in o.ids => AddedAfter(r, m, i)
    BY <1>1, <2>1, AddedAppend
  <2>4. /\ At(r, "taken") = At(s, "taken") /\ At(r, "heard") = At(s, "heard")
        /\ \A k, i : i \in At(s, k) => i \in 1 .. Len(s) /\ r[i] = s[i]
        /\ Len(s) \in Nat
    BY <1>1, <2>1, KindAppend
  <2> HIDE DEF r
  <2>5. ASSUME NEW i \in At(r, "taken") \cup At(r, "heard") PROVE r[i].id \in e.queue \/ AddedAfter(r, r[i].id, i)
    <3>1. i \in 1 .. Len(s) /\ i \in At(s, "taken") \cup At(s, "heard") /\ r[i] = s[i] BY <2>4, <2>5
    <3>2. i \in 0 .. Len(s) BY <2>4, <3>1
    <3>3. r[i].id = n => AddedAfter(r, r[i].id, i) BY <2>1, <2>3, <3>2
    <3>4. QED BY <1>1, <1>3, <2>2, <2>3, <3>1, <3>3 DEF Comes
  <2>6. ASSUME NEW k \in 1 .. MaxOffers, k = c.agreed \/ (c.sig = "remote" /\ k = c.offer)
        PROVE  k \in c.added \/ AddedAfter(r, k, 0)
    <3>1. k = n => AddedAfter(r, k, 0) BY <2>1, <2>3, <2>4
    <3>2. QED BY <1>1, <1>3, <2>3, <2>6, <3>1 DEF Comes
  <2>7. Comes(e, v, r) BY <1>4, <2>2, <2>5, <2>6 DEF Comes
  <2>8. QED BY <2>2, <2>7 DEF Coming, v
<1>7. QED BY <1>5, <1>6

LEMMA CandidateKeeps ==
  ASSUME NegInv, NEW p \in Ends, wire[p] # <<>>, Head(wire[p]).type = "candidate",
         ReceiveCandidate(p, Head(wire[p])), wire' = [wire EXCEPT ![p] = Tail(@)], UNCHANGED <<offers, kicks>>
  PROVE  NegInv'
<1> DEFINE c == pc[p]
           w == wire[p]
           n == Head(w).id
           o == [op |-> "add", ids |-> {n}, next |-> <<>>]
           e == IF MustWait(c) THEN [c EXCEPT !.queue = c.queue \cup {n}]
                ELSE [c EXCEPT !.ops = Append(c.ops, o)]
<1>1. /\ c \in PeerSessions /\ Chain(c, offers) /\ c.ops \in Seq(Steps) /\ w \in Seq(Signals) /\ Paired(w)
      /\ pc \in [Ends -> PeerSessions] /\ wire \in [Ends -> Seq(Signals)] /\ NegotiationTyped /\ Skeleton
  BY DEF NegInv, NegotiationTyped, PeerSessions
<1>2. pc' = [pc EXCEPT ![p] = e] /\ crossed' = crossed
  BY <1>1 DEF ReceiveCandidate, Then
<1>3. n \in 1 .. MaxOffers /\ Tail(w) \in Seq(Signals) BY <1>1, OnTail DEF Signals
<1>4. o \in Steps /\ Kind(o) = "add" BY <1>3, Kinds DEF Steps, Additions
<1>5. e \in PeerSessions
  <2>1. Append(c.ops, o) \in Seq(Steps) BY <1>1, <1>4
  <2> HIDE DEF o, n
  <2>2. QED BY <1>1, <1>3, <2>1 DEF PeerSessions
<1>6. Chain(e, offers) /\ SameTokens(c, e)
  <2>1. CASE MustWait(c)
    <3>1. e = [c EXCEPT !.queue = c.queue \cup {n}] BY <2>1
    <3>2. /\ e.ops = c.ops /\ e.sig = c.sig /\ e.offer = c.offer /\ e.agreed = c.agreed
          /\ e.answering = c.answering /\ e.has = c.has /\ e.making = c.making /\ e.fired = c.fired
          /\ e.need = c.need
      BY <1>1, <3>1 DEF PeerSessions
    <3> HIDE DEF e, c
    <3>3. QED BY <1>1, <3>2 DEF Chain, SameTokens
  <2>2. CASE ~MustWait(c)
    <3> DEFINE t == Append(c.ops, o)
    <3>1. e = [c EXCEPT !.ops = t] BY <2>2
    <3>2. /\ e.ops = t /\ e.sig = c.sig /\ e.offer = c.offer /\ e.agreed = c.agreed
          /\ e.answering = c.answering /\ e.has = c.has /\ e.making = c.making /\ e.fired = c.fired
          /\ e.need = c.need
      BY <1>1, <3>1 DEF PeerSessions
    <3>3. Ordered(t)
      <4>1. Ordered(c.ops) BY <1>1 DEF Chain
      <4>2. o.op = "add" OBVIOUS
      <4> HIDE DEF o, c
      <4>3. QED BY <1>1, <1>4, <4>1, <4>2, OrderedAppend
    <3> HIDE DEF e, c, o
    <3>4. /\ \A k : k # "add" => At(t, k) = At(c.ops, k)
          /\ \A k, i : i \in At(c.ops, k) => t[i] = c.ops[i]
      BY <1>1, <1>4, KindAppend
    <3> HIDE DEF t
    <3>5. Chain(e, offers)
      <4>1. /\ At(t, "make") = At(c.ops, "make") /\ At(t, "taken") = At(c.ops, "taken")
            /\ At(t, "undo") = At(c.ops, "undo") /\ At(t, "owed") = At(c.ops, "owed")
            /\ At(t, "heard") = At(c.ops, "heard")
        BY <3>4
      <4>2. \A i \in At(t, "make") : t[i].op = "negotiate" => c.sig = "stable" BY <1>1, <3>4, <4>1 DEF Chain
      <4>3. QED BY <1>1, <3>2, <3>3, <4>1, <4>2 DEF Chain
    <3>6. SameTokens(c, e) BY <3>2, <3>4 DEF SameTokens
    <3>7. QED BY <3>5, <3>6
  <2>3. QED BY <2>1, <2>2
<1> HIDE DEF e
<1>7. pc'[p] = e /\ wire'[p] = Tail(w) /\ \A q \in Ends \ {p} : pc'[q] = pc[q] /\ wire'[q] = wire[q]
  BY <1>1, <1>2
<1>8. NegotiationTyped' BY <1>1, <1>2, <1>3, <1>5 DEF NegotiationTyped
<1>9. \A q \in Ends : Chain(pc'[q], offers') /\ Paired(wire'[q]) BY <1>1, <1>6, <1>7, PairedTail DEF NegInv
<1>10. Skeleton'
  <2>1. pc'[Other(p)] = pc[Other(p)] /\ wire'[Other(p)] = wire[Other(p)] BY <1>7, TwoEnds
  <2>2. Nearer(w, wire'[p], 1) BY <1>1, <1>7, NearerTail
  <2>3. 1 \in {0, 1} OBVIOUS
  <2>4. SameTokens(pc[p], pc'[p]) BY <1>6, <1>7
  <2>5. QED BY <1>1, <1>2, <2>1, <2>2, <2>3, <2>4, QuietStep
<1>11. ASSUME ~crossed' PROVE \A q \in Ends : Coming(pc'[q], wire'[q])
  <2>1. Coming(c, w) BY <1>2, <1>11 DEF NegInv
  <2>2. At(c.ops, "heard") # {} => c.sig = "local" BY <1>1 DEF Skeleton, InOnePlace, Held, Heard
  <2>3. \A i \in At(c.ops, "heard") : c.ops[i].id = c.offer BY <1>1 DEF Skeleton, Named
  <2>4. IF MustWait(c) THEN e = [c EXCEPT !.queue = c.queue \cup {n}]
        ELSE e = [c EXCEPT !.ops = Append(c.ops, o)]
    BY DEF e
  <2>5. Coming(e, Tail(w)) BY <1>1, <1>5, <2>1, <2>2, <2>3, <2>4, CandidateComes
  <2>6. QED BY <1>2, <1>7, <1>11, <2>5 DEF NegInv
<1>12. QED BY <1>8, <1>9, <1>10, <1>11 DEF NegInv

\* An answer is taken from the wire into the chain.
LEMMA HeardSkeleton ==
  ASSUME NegotiationTyped, Skeleton, NEW p \in Ends, wire[p] # <<>>, Head(wire[p]).type = "answer",
         wire'[p] = Tail(wire[p]), wire'[Other(p)] = wire[Other(p)], pc'[Other(p)] = pc[Other(p)],
         pc'[p].sig = pc[p].sig, pc'[p].offer = pc[p].offer, pc'[p].agreed = pc[p].agreed,
         pc'[p].making = pc[p].making, pc'[p].answering,
         \A k : k # "heard" => At(pc'[p].ops, k) = At(pc[p].ops, k),
         \A i \in At(pc[p].ops, "taken") : pc'[p].ops[i] = pc[p].ops[i],
         At(pc'[p].ops, "heard") # {},
         \A i \in At(pc'[p].ops, "heard") : pc'[p].ops[i].id = Head(wire[p]).id,
         crossed' = crossed
  PROVE  Skeleton'
<1> DEFINE q == Other(p)
           w == wire[p]
           v == wire'[p]
<1>1. q \in Ends /\ Other(q) = p /\ p # q /\ Ends = {p, q} BY TwoEnds
<1>2. w \in Seq(Signals) BY DEF NegotiationTyped
<1>3. /\ \A t, i : i \in OnWire(v, t) <=> i \in Nat \ {0} /\ i + 1 \in OnWire(w, t)
      /\ \A i \in DOMAIN v : i \in Nat \ {0} /\ v[i] = w[i + 1]
      /\ 1 \in OnWire(w, "answer") /\ 1 \notin OnWire(w, "offer")
      /\ \A t, i : i \in OnWire(w, t) => i \in Nat \ {0}
      /\ w[1] = Head(w)
  <2>1. v = Tail(w) OBVIOUS
  <2>2. QED BY <1>2, <2>1, OnTail
<1>4. \A t, i : i \in OnWire(v, t) => i \in DOMAIN v BY DEF OnWire
<1>5. OnWire(w, "answer") = {1}
  <2>1. AtMostOne(OnWire(w, "answer")) BY DEF Skeleton, InOnePlace
  <2> HIDE DEF w
  <2>2. QED BY <1>3, <2>1 DEF AtMostOne
<1>6. OnWire(v, "answer") = {}
  <2>1. SUFFICES ASSUME NEW i \in OnWire(v, "answer") PROVE FALSE OBVIOUS
  <2>2. i \in Nat \ {0} /\ i + 1 = 1 BY <1>3, <1>5
  <2>3. QED BY <2>2
<1>7. \A i \in OnWire(w, "offer") : i - 1 \in OnWire(v, "offer")
  <2>1. SUFFICES ASSUME NEW i \in OnWire(w, "offer") PROVE i - 1 \in OnWire(v, "offer") OBVIOUS
  <2>2. i \in Nat \ {0, 1} BY <1>3
  <2>3. i - 1 \in Nat \ {0} /\ i - 1 + 1 = i BY <2>2
  <2>4. QED BY <1>3, <2>3
<1>8. \A i \in OnWire(v, "offer") : i \in Nat \ {0} /\ i + 1 \in OnWire(w, "offer") /\ v[i] = w[i + 1] BY <1>3, <1>4
<1>9. OnWire(v, "offer") = {} <=> OnWire(w, "offer") = {} BY <1>7, <1>8
<1>10. Answered(p) /\ ~Taken(p) /\ ~Remote(p) /\ ~Heard(p) /\ pc[p].sig = "local"
  BY <1>5 DEF Skeleton, InOnePlace, Answered, Held
<1>11. /\ \A o \in Ends : (Taken(o)' <=> Taken(o)) /\ (Remote(o)' <=> Remote(o)) /\ ((Sent(o) # {})' <=> Sent(o) # {})
       /\ (Answered(q)' <=> Answered(q)) /\ (Heard(q)' <=> Heard(q))
       /\ ~Answered(p)' /\ Heard(p)'
       /\ \A o \in Ends : pc'[o].sig = pc[o].sig /\ pc'[o].offer = pc[o].offer /\ pc'[o].agreed = pc[o].agreed
                            /\ pc'[o].making = pc[o].making /\ At(pc'[o].ops, "undo") = At(pc[o].ops, "undo")
  <2>1. OnWire(wire'[q], "answer") = OnWire(wire[q], "answer") /\ OnWire(wire'[q], "offer") = OnWire(wire[q], "offer") OBVIOUS
  <2>2. QED BY <1>1, <1>6, <1>9, <2>1 DEF Taken, Remote, Answered, Heard, Sent
<1>12. \A o \in Ends : (Held(o)' <=> Held(o)) /\ (Back(o)' <=> Back(o)) BY <1>1, <1>10, <1>11 DEF Held, Back
<1> HIDE DEF q, w, v
<1>13. \A o \in Ends : InOnePlace(o)'
  <2>1. AtMostOne(OnWire(wire'[p], "answer")) BY <1>6 DEF AtMostOne, v
  <2>2. AtMostOne(OnWire(wire'[q], "answer")) BY <1>1 DEF Skeleton, InOnePlace, q
  <2>3. InOnePlace(p)' BY <1>10, <1>11, <1>12, <2>1 DEF Skeleton, InOnePlace
  <2>4. InOnePlace(q)' BY <1>1, <1>10, <1>11, <1>12, <2>2 DEF Skeleton, InOnePlace
  <2>5. QED BY <1>1, <2>3, <2>4
<1>14. \A o \in Ends : Named(o)'
  <2>1. Named(p)'
    <3>1. Head(wire[p]).id = pc[p].offer BY <1>1, <1>3, <1>5 DEF Skeleton, Named, w
    <3>2. \A i \in At(pc'[p].ops, "heard") : pc'[p].ops[i].id = pc'[p].offer BY <3>1
    <3>3. \A i \in At(pc'[q].ops, "taken") : FALSE BY <1>10, <1>11 DEF Taken, q
    <3>4. \A i \in OnWire(wire'[p], "answer") : FALSE BY <1>6 DEF v
    <3>5. ~Remote(p)' BY <1>10, <1>11
    <3>6. QED BY <3>2, <3>3, <3>4, <3>5 DEF Named, q
  <2>2. Named(q)'
    <3>1. \A i \in At(pc'[p].ops, "taken") : pc'[p].ops[i].id = pc'[q].offer /\ (pc'[p].ops[i].waits \/ crossed')
      BY <1>1, <1>11 DEF Skeleton, Named, q
    <3>2. Remote(q)' => pc'[p].offer = pc'[q].offer /\ (At(pc'[p].ops, "owed") # {} \/ crossed')
      BY <1>1, <1>11 DEF Skeleton, Named, q
    <3>3. \A i \in OnWire(wire'[q], "answer") : wire'[q][i].id = pc'[q].offer BY <1>1, <1>11 DEF Skeleton, Named, q
    <3>4. \A i \in At(pc'[q].ops, "heard") : pc'[q].ops[i].id = pc'[q].offer BY <1>1, <1>11 DEF Skeleton, Named, q
    <3>5. QED BY <1>1, <3>1, <3>2, <3>3, <3>4 DEF Named
  <2>3. QED BY <1>1, <2>1, <2>2
<1>15. CASE p = "polite"
  <2>1. q = "impolite" BY <1>15, TwoEnds DEF q
  <2>2. Sent("impolite") = OnWire(w, "offer") /\ Sent("impolite")' = OnWire(v, "offer") BY <1>15, TwoEnds DEF Sent, w, v
  <2>3. Firm'
    <3>1. AtMostOne(Sent("impolite"))' BY <1>8, <2>2 DEF Skeleton, Firm, AtMostOne
    <3>2. \A i \in OnWire(v, "offer") : v[i].id = pc["impolite"].offer BY <1>8, <1>15, <2>2 DEF Skeleton, Firm, w
    <3>3. Sent("impolite")' # {} => pc["impolite"].sig = "local" /\ ~Held("impolite")
      BY <1>11, <1>1, <2>1 DEF Skeleton, Firm
    <3>4. "polite" \in Ends /\ "impolite" \in Ends BY TwoEnds
    <3>5. ~Answered("polite")' /\ wire'["polite"] = v BY <1>11, <1>15 DEF v
    <3>6. \A j : j \notin OnWire(v, "answer") BY <1>6
    <3>7. pc'["impolite"].sig = "local" => Sent("impolite")' # {} \/ Held("impolite")'
      BY <1>11, <1>12, <3>4 DEF Skeleton, Firm
    <3>8. At(pc'["impolite"].ops, "undo") = {} BY <1>11, <3>4 DEF Skeleton, Firm
    <3>9. Heard("impolite")' => pc'["impolite"].answering BY <1>11, <2>1 DEF Skeleton, Firm, q
    <3>10. \A i \in Sent("impolite")' :
             /\ pc'["impolite"].sig = "local" /\ ~Held("impolite")'
             /\ wire'["polite"][i].id = pc'["impolite"].offer
             /\ \A j \in OnWire(wire'["polite"], "answer") : j < i
      BY <1>11, <1>12, <2>2, <3>2, <3>3, <3>4, <3>5, <3>6
    <3>11. QED BY <3>1, <3>5, <3>7, <3>8, <3>9, <3>10 DEF Firm
  <2>4. Yielding'
    <3>1. Sent("polite")' = Sent("polite") /\ wire'["impolite"] = wire["impolite"]
      BY <1>1, <1>15, <2>1, TwoEnds DEF Sent, q
    <3>2. \A i : Behind(i)' <=> Behind(i) BY <3>1 DEF Behind
    <3>3. Outbid' <=> Outbid BY <1>1, <1>11, <1>15, <2>1 DEF Outbid
    <3>4. Sent("polite") = {} BY <1>10, <1>15 DEF Skeleton, Yielding, Held
    <3>5. QED BY <1>1, <1>11, <1>12, <1>15, <2>1, <3>1, <3>2, <3>3, <3>4 DEF Skeleton, Yielding
  <2>5. QED BY <2>3, <2>4, <1>13, <1>14, <1>11, <1>12, TwoEnds DEF Skeleton, Matching
<1>16. CASE p = "impolite"
  <2>1. q = "polite" BY <1>16, TwoEnds DEF q
  <2>2. Sent("polite") = OnWire(w, "offer") /\ Sent("polite")' = OnWire(v, "offer") BY <1>16, TwoEnds DEF Sent, w, v
  <2>3. Firm'
    <3>1. Sent("impolite")' = Sent("impolite") /\ wire'["polite"] = wire["polite"]
      BY <1>1, <1>16, <2>1, TwoEnds DEF Sent, q
    <3>2. QED BY <1>1, <1>11, <1>12, <1>16, <2>1, <3>1 DEF Skeleton, Firm
  <2>4. Yielding'
    <3>1. \A i \in Nat : ~Behind(i + 1) /\ ~Behind(i)' BY <1>5, <1>6, <1>16 DEF Behind, w, v
    <3>2. \A i \in OnWire(v, "offer") : i \in Nat \ {0} /\ i + 1 \in Sent("polite") /\ ~Stale(i + 1)
      BY <1>8, <1>10, <1>16, <2>2, <3>1 DEF Stale
    <3>3. \A i \in OnWire(v, "offer") : ~Held("polite") /\ pc["polite"].sig = "local" /\ v[i].id = pc["polite"].offer
      BY <1>8, <1>16, <3>1, <3>2 DEF Skeleton, Yielding, w
    <3>4. \A i, k \in OnWire(v, "offer") : ~(i < k)
      <4>1. SUFFICES ASSUME NEW i \in OnWire(v, "offer"), NEW k \in OnWire(v, "offer"), i < k PROVE FALSE OBVIOUS
      <4>2. i + 1 \in Sent("polite") /\ k + 1 \in Sent("polite") /\ i + 1 < k + 1 BY <3>2, <4>1
      <4>3. PICK j \in OnWire(wire["impolite"], "answer") : i + 1 < j BY <4>2 DEF Skeleton, Yielding
      <4>4. j = 1 /\ i \in Nat BY <1>5, <1>16, <3>2 DEF w
      <4>5. QED BY <4>3, <4>4
    <3>5. (\A i \in OnWire(v, "offer") : Behind(i)') => Sent("polite") = {} BY <1>9, <2>2, <3>1, <3>2
    <3>6. Outbid' <=> Outbid BY <1>1, <1>11, <1>16, <2>1 DEF Outbid
    <3>7. pc["polite"].sig = "local" /\ ~Held("polite") /\ (\A i \in OnWire(v, "offer") : Behind(i)') => Outbid'
      BY <3>5, <3>6 DEF Skeleton, Yielding
    <3>8. \A o \in Ends : pc'[o].sig = pc[o].sig /\ pc'[o].offer = pc[o].offer BY <1>11
    <3>9. "polite" \in Ends /\ "impolite" \in Ends BY TwoEnds
    <3>10. ~(Back("polite") /\ Back("impolite"))' BY <1>12, <3>9 DEF Skeleton, Yielding
    <3>11. wire'["impolite"] = v BY <1>16 DEF v
    <3>12. QED BY <1>12, <2>2, <3>3, <3>4, <3>7, <3>8, <3>9, <3>10, <3>11 DEF Yielding
  <2>5. QED BY <2>3, <2>4, <1>13, <1>14, <1>11, <1>12, TwoEnds DEF Skeleton, Matching
<1>17. QED BY <1>15, <1>16 DEF Ends

\* The description that came, and the candidate that comes next
LEMMA DescriptionComes ==
  ASSUME NEW c \in PeerSessions, NEW w \in Seq(Signals), w # <<>>, Head(w).type # "candidate", Paired(w),
         Coming(c, w), NEW e, NEW o \in Steps, Kind(o) \in {"taken", "heard"}, o.id = Head(w).id,
         NEW s \in Seq(Steps), e.ops = Append(s, o),
         At(s, "taken") = At(c.ops, "taken"), At(s, "heard") = At(c.ops, "heard"),
         \A i \in At(s, "taken") \cup At(s, "heard") : s[i] = c.ops[i],
         \A m, i : AddedAfter(c.ops, m, i) => AddedAfter(s, m, i),
         e.sig = c.sig, e.offer = c.offer, e.agreed = c.agreed, e.added = c.added, e.queue = c.queue,
         e.answering => Kind(o) = "heard" /\ At(c.ops, "heard") = {}
  PROVE  Coming(e, Tail(w))
<1> DEFINE v == Tail(w)
           t == Append(s, o)
<1>1. Comes(c, w, c.ops) BY DEF Coming
<1>2. v # <<>> /\ v[1].type = "candidate" /\ v[1].id = o.id /\ w[1].type # "candidate"
  BY PairedTail, OnTail
<1>3. \A k : ~Next1(w, k) BY <1>2 DEF Next1
<1>4. Next1(v, o.id) BY <1>2 DEF Next1
<1>5. \A m, i : AddedAfter(c.ops, m, i) => AddedAfter(t, m, i) BY AddedAppend
<1>6. /\ \A k, i : i \in At(t, k) <=> i \in At(s, k) \/ (i = Len(s) + 1 /\ Kind(o) = k)
      /\ t[Len(s) + 1] = o
      /\ \A k, i : i \in At(s, k) => t[i] = s[i]
  BY AtAppend, KindAppend
<1> HIDE DEF v, t
<1>7. ASSUME NEW i \in At(t, "taken") \cup At(t, "heard")
      PROVE  Next1(v, t[i].id) \/ t[i].id \in c.queue \/ AddedAfter(t, t[i].id, i)
  <2>1. CASE i = Len(s) + 1 BY <1>4, <1>6, <2>1
  <2>2. CASE i \in At(s, "taken") \cup At(s, "heard")
    <3>1. t[i] = c.ops[i] /\ i \in At(c.ops, "taken") \cup At(c.ops, "heard") BY <1>6, <2>2
    <3>2. QED BY <1>1, <1>3, <1>5, <3>1 DEF Comes
  <2>3. QED BY <1>6, <1>7, <2>1, <2>2
<1>8. ASSUME NEW i \in At(t, "heard"), e.answering PROVE v[1].id = t[i].id
  <2>1. i = Len(s) + 1 BY <1>6, <1>8
  <2>2. QED BY <1>2, <1>6, <2>1
<1>9. Comes(e, v, t) BY <1>1, <1>3, <1>5, <1>7, <1>8 DEF Comes
<1>10. QED BY <1>9 DEF Coming, v, t

LEMMA AnswerComesKeeps ==
  ASSUME NegInv, NEW p \in Ends, wire[p] # <<>>, Head(wire[p]).type = "answer",
         ReceiveAnswer(p, Head(wire[p])), wire' = [wire EXCEPT ![p] = Tail(@)], UNCHANGED <<offers, kicks>>
  PROVE  NegInv'
<1> DEFINE c == pc[p]
           w == wire[p]
           m == Head(w)
           o == [op |-> "remote", type |-> "answer", id |-> m.id, restart |-> m.restart, waits |-> TRUE]
           t == Append(c.ops, o)
           e == [c EXCEPT !.answering = TRUE, !.ops = t]
<1>1. /\ c \in PeerSessions /\ Chain(c, offers) /\ c.ops \in Seq(Steps) /\ w \in Seq(Signals) /\ Paired(w)
      /\ pc \in [Ends -> PeerSessions] /\ wire \in [Ends -> Seq(Signals)] /\ NegotiationTyped /\ Skeleton
      /\ Ordered(c.ops)
  BY DEF NegInv, NegotiationTyped, PeerSessions, Chain
<1>2. pc' = [pc EXCEPT ![p] = e] /\ crossed' = crossed
  BY <1>1 DEF ReceiveAnswer, Then, PeerSessions
<1>3. m \in Signals /\ Tail(w) \in Seq(Signals) /\ 1 \in OnWire(w, "answer") BY <1>1, OnTail
<1>4. o \in Steps /\ Kind(o) = "heard" /\ o.op = "remote" /\ o.id = m.id
  <2>1. o \in Remotes /\ o.type = "answer" BY <1>3 DEF Remotes, Signals
  <2>2. o \in Steps /\ Kind(o) = "heard" BY <2>1, Kinds DEF Steps
  <2>3. QED BY <2>2
<1>5. ~Heard(p) /\ c.sig = "local" /\ At(c.ops, "heard") = {} /\ Answered(p)
  BY <1>1, <1>3 DEF Skeleton, InOnePlace, Answered, Held, Heard
<1>6. At(c.ops, "taken") = {}
  <2>1. SUFFICES ASSUME At(c.ops, "taken") # {} PROVE FALSE OBVIOUS
  <2>2. At(c.ops, "undo") # {} BY <1>1, <1>5, <2>1 DEF Chain
  <2>3. CASE p = "polite"
    <3>1. Taken("impolite") BY <2>1, <2>3, TwoEnds DEF Taken
    <3>2. QED BY <1>1, <1>5, <2>3, <3>1 DEF Skeleton, Firm
  <2>4. CASE p = "impolite" BY <1>1, <2>2, <2>4 DEF Skeleton, Firm
  <2>5. QED BY <2>3, <2>4 DEF Ends
<1>7. /\ t \in Seq(Steps) /\ Ordered(t)
      /\ \A k : k # "heard" => At(t, k) = At(c.ops, k)
      /\ At(t, "heard") = {Len(c.ops) + 1} /\ t[Len(c.ops) + 1] = o
      /\ \A k, i : i \in At(c.ops, k) => t[i] = c.ops[i]
  <2>1. Ordered(t)
    <3> HIDE DEF o, c
    <3>1. QED BY <1>1, <1>4, <1>5, <1>6, OrderedAppend
  <2>2. /\ \A k : k # Kind(o) => At(t, k) = At(c.ops, k)
        /\ \A k, i : i \in At(c.ops, k) => i \in 1 .. Len(c.ops) /\ t[i] = c.ops[i]
        /\ At(c.ops, Kind(o)) = {} => At(t, Kind(o)) = {Len(c.ops) + 1}
        /\ t[Len(c.ops) + 1] = o /\ t \in Seq(Steps)
    <3> HIDE DEF o, c
    <3>1. QED BY <1>1, <1>4, KindAppend
  <2> HIDE DEF o, c, t
  <2>3. QED BY <1>4, <1>5, <2>1, <2>2
<1> HIDE DEF o, t, m
<1>8. /\ e \in PeerSessions /\ e.ops = t /\ e.sig = c.sig /\ e.offer = c.offer /\ e.agreed = c.agreed
      /\ e.answering /\ e.has = c.has /\ e.making = c.making /\ e.fired = c.fired
      /\ e.need = c.need /\ e.queue = c.queue /\ e.added = c.added
  BY <1>1, <1>7 DEF PeerSessions
<1> HIDE DEF e
<1>9. Chain(e, offers)
  <2>1. /\ At(t, "make") = At(c.ops, "make") /\ At(t, "taken") = At(c.ops, "taken")
        /\ At(t, "undo") = At(c.ops, "undo") /\ At(t, "owed") = At(c.ops, "owed")
        /\ At(t, "heard") # {}
    BY <1>7
  <2>2. \A i \in At(t, "make") : t[i].op = "negotiate" => c.sig = "stable" BY <1>1, <1>7, <2>1 DEF Chain
  <2>3. QED BY <1>1, <1>7, <1>8, <2>1, <2>2 DEF Chain
<1>10. pc'[p] = e /\ wire'[p] = Tail(w) /\ \A q \in Ends \ {p} : pc'[q] = pc[q] /\ wire'[q] = wire[q]
  BY <1>1, <1>2
<1>11. NegotiationTyped' BY <1>1, <1>2, <1>3, <1>8 DEF NegotiationTyped
<1>12. \A q \in Ends : Chain(pc'[q], offers') /\ Paired(wire'[q]) BY <1>1, <1>9, <1>10, PairedTail DEF NegInv
<1>13. Skeleton'
  <2>1. pc'[Other(p)] = pc[Other(p)] /\ wire'[Other(p)] = wire[Other(p)] BY <1>10, TwoEnds
  <2>2. \A i \in At(t, "heard") : t[i].id = m.id BY <1>4, <1>7
  <2>3. /\ pc'[p].sig = pc[p].sig /\ pc'[p].offer = pc[p].offer /\ pc'[p].agreed = pc[p].agreed
        /\ pc'[p].making = pc[p].making /\ pc'[p].answering /\ pc'[p].ops = t
    BY <1>8, <1>10
  <2>4. \A i \in At(c.ops, "taken") : t[i] = c.ops[i] BY <1>7
  <2>5. At(t, "heard") # {} BY <1>7
  <2>6. QED BY <1>1, <1>2, <1>7, <1>10, <2>1, <2>2, <2>3, <2>4, <2>5, HeardSkeleton DEF m
<1>14. ASSUME ~crossed' PROVE \A q \in Ends : Coming(pc'[q], wire'[q])
  <2>1. Coming(c, w) BY <1>2, <1>14 DEF NegInv
  <2>2. m.type # "candidate" BY DEF m
  <2>3. Coming(e, Tail(w))
    <3>1. e.ops = Append(c.ops, o) BY <1>8 DEF t
    <3>2. o.id = Head(w).id /\ Kind(o) \in {"taken", "heard"} /\ Head(w).type # "candidate" /\ w # <<>>
      BY <1>4, <2>2 DEF m
    <3>3. e.answering => Kind(o) = "heard" /\ At(c.ops, "heard") = {} BY <1>4, <1>5
    <3>4. \A k, i : AddedAfter(c.ops, k, i) => AddedAfter(c.ops, k, i) OBVIOUS
    <3>5. \A i \in At(c.ops, "taken") \cup At(c.ops, "heard") : c.ops[i] = c.ops[i] OBVIOUS
    <3> HIDE DEF c, w
    <3>6. QED BY <1>1, <1>4, <1>8, <2>1, <3>1, <3>2, <3>3, <3>4, <3>5, DescriptionComes
  <2>4. QED BY <1>2, <1>10, <1>14, <2>3 DEF NegInv
<1>15. QED BY <1>11, <1>12, <1>13, <1>14 DEF NegInv

\* An offer is taken from the wire.
LEMMA OfferGone ==
  ASSUME NEW w \in Seq(Signals), w # <<>>, Head(w).type = "offer"
  PROVE  LET v == Tail(w) IN
         /\ \A t, i : i \in OnWire(v, t) <=> i \in Nat \ {0} /\ i + 1 \in OnWire(w, t)
         /\ \A t, i : i \in OnWire(v, t) => i \in Nat \ {0} /\ i + 1 \in OnWire(w, t) /\ v[i] = w[i + 1]
         /\ \A t, i : i \in OnWire(w, t) => i \in Nat \ {0} /\ (i = 1 \/ i - 1 \in OnWire(v, t))
         /\ OnWire(v, "answer") = {} <=> OnWire(w, "answer") = {}
         /\ \A t : AtMostOne(OnWire(w, t)) => AtMostOne(OnWire(v, t))
         /\ 1 \in OnWire(w, "offer") /\ 1 \notin OnWire(w, "answer")
         /\ AtMostOne(OnWire(w, "offer")) => OnWire(v, "offer") = {}
         /\ w[1] = Head(w)
<1> DEFINE v == Tail(w)
<1>1. /\ \A t, i : i \in OnWire(v, t) <=> i \in Nat \ {0} /\ i + 1 \in OnWire(w, t)
      /\ \A i \in DOMAIN v : i \in Nat \ {0} /\ v[i] = w[i + 1]
      /\ 1 \in OnWire(w, "offer") /\ 1 \notin OnWire(w, "answer")
      /\ \A t, i : i \in OnWire(w, t) => i \in Nat \ {0}
      /\ w[1] = Head(w)
  BY OnTail
<1>2. \A t, i : i \in OnWire(v, t) => i \in DOMAIN v BY DEF OnWire
<1> HIDE DEF v
<1>3. \A t, i : i \in OnWire(v, t) => i \in Nat \ {0} /\ i + 1 \in OnWire(w, t) /\ v[i] = w[i + 1] BY <1>1, <1>2
<1>4. ASSUME NEW t, NEW i \in OnWire(w, t), i # 1 PROVE i - 1 \in OnWire(v, t)
  <2>1. i \in Nat \ {0, 1} BY <1>1, <1>4
  <2>2. i - 1 \in Nat \ {0} /\ i - 1 + 1 = i BY <2>1
  <2>3. QED BY <1>1, <2>2
<1>5. OnWire(v, "answer") = {} <=> OnWire(w, "answer") = {}
  <2>1. ASSUME NEW i \in OnWire(w, "answer") PROVE i - 1 \in OnWire(v, "answer") BY <1>1, <1>4
  <2>2. QED BY <1>3, <2>1
<1>6. ASSUME NEW t, AtMostOne(OnWire(w, t)) PROVE AtMostOne(OnWire(v, t))
  <2>1. SUFFICES ASSUME NEW i \in OnWire(v, t), NEW j \in OnWire(v, t) PROVE i = j BY DEF AtMostOne
  <2>2. i \in Nat /\ j \in Nat /\ i + 1 = j + 1 BY <1>3, <1>6 DEF AtMostOne
  <2>3. QED BY <2>2
<1>7. ASSUME AtMostOne(OnWire(w, "offer")) PROVE OnWire(v, "offer") = {}
  <2>1. SUFFICES ASSUME NEW i \in OnWire(v, "offer") PROVE FALSE OBVIOUS
  <2>2. i \in Nat \ {0} /\ i + 1 = 1 BY <1>1, <1>3, <1>7 DEF AtMostOne
  <2>3. QED BY <2>2
<1>8. QED BY <1>1, <1>3, <1>4, <1>5, <1>6, <1>7 DEF v

\* The impolite end ignores it.
LEMMA IgnoredSkeleton ==
  ASSUME NegotiationTyped, Skeleton, wire["impolite"] # <<>>, Head(wire["impolite"]).type = "offer",
         pc["impolite"].making \/ pc["impolite"].sig # "stable",
         pc["impolite"].making <=> At(pc["impolite"].ops, "make") # {},
         pc' = pc, wire'["impolite"] = Tail(wire["impolite"]), wire'["polite"] = wire["polite"],
         crossed' = (crossed \/ pc["impolite"].answering)
  PROVE  Skeleton'
<1> DEFINE w == wire["impolite"]
           v == wire'["impolite"]
<1>1. "polite" \in Ends /\ "impolite" \in Ends /\ Ends = {"polite", "impolite"}
      /\ Other("polite") = "impolite" /\ Other("impolite") = "polite"
  BY TwoEnds
<1>2. w \in Seq(Signals) BY <1>1 DEF NegotiationTyped
<1>3. /\ \A t, i : i \in OnWire(v, t) <=> i \in Nat \ {0} /\ i + 1 \in OnWire(w, t)
      /\ \A t, i : i \in OnWire(v, t) => i \in Nat \ {0} /\ i + 1 \in OnWire(w, t) /\ v[i] = w[i + 1]
      /\ \A t, i : i \in OnWire(w, t) => i \in Nat \ {0} /\ (i = 1 \/ i - 1 \in OnWire(v, t))
      /\ OnWire(v, "answer") = {} <=> OnWire(w, "answer") = {}
      /\ \A t : AtMostOne(OnWire(w, t)) => AtMostOne(OnWire(v, t))
      /\ 1 \in OnWire(w, "offer") /\ 1 \notin OnWire(w, "answer")
  <2>1. v = Tail(w) /\ w # <<>> /\ Head(w).type = "offer" OBVIOUS
  <2> DEFINE u == Tail(w)
  <2>2. /\ \A t, i : i \in OnWire(u, t) <=> i \in Nat \ {0} /\ i + 1 \in OnWire(w, t)
        /\ \A t, i : i \in OnWire(u, t) => i \in Nat \ {0} /\ i + 1 \in OnWire(w, t) /\ u[i] = w[i + 1]
        /\ \A t, i : i \in OnWire(w, t) => i \in Nat \ {0} /\ (i = 1 \/ i - 1 \in OnWire(u, t))
        /\ OnWire(u, "answer") = {} <=> OnWire(w, "answer") = {}
        /\ \A t : AtMostOne(OnWire(w, t)) => AtMostOne(OnWire(u, t))
        /\ 1 \in OnWire(w, "offer") /\ 1 \notin OnWire(w, "answer")
    <3> HIDE DEF v, w
    <3>1. QED BY <1>2, <2>1, OfferGone
  <2> HIDE DEF u
  <2>3. v = u BY DEF u
  <2> HIDE DEF v, w
  <2>4. QED BY <2>2, <2>3
<1>4. Sent("polite") = OnWire(w, "offer") /\ Sent("polite")' = OnWire(v, "offer")
      /\ Sent("impolite")' = Sent("impolite")
  BY <1>1 DEF Sent
<1>5. \A o \in Ends : /\ (Taken(o)' <=> Taken(o)) /\ (Remote(o)' <=> Remote(o))
                      /\ (Answered(o)' <=> Answered(o)) /\ (Heard(o)' <=> Heard(o))
  BY <1>1, <1>3 DEF Taken, Remote, Answered, Heard
<1>6. \A o \in Ends : (Held(o)' <=> Held(o)) /\ (Back(o)' <=> Back(o)) BY <1>5 DEF Held, Back
<1> HIDE DEF w, v
<1>7. \A o \in Ends : InOnePlace(o)'
  <2>1. \A o \in Ends : AtMostOne(OnWire(wire'[o], "answer"))
    <3>1. AtMostOne(OnWire(v, "answer")) BY <1>1, <1>3 DEF Skeleton, InOnePlace, w
    <3>2. AtMostOne(OnWire(wire'["polite"], "answer")) BY <1>1 DEF Skeleton, InOnePlace
    <3>3. QED BY <1>1, <3>1, <3>2 DEF v
  <2>2. QED BY <1>5, <1>6, <2>1 DEF Skeleton, InOnePlace
<1>8. \A o \in Ends : Named(o)'
  <2>1. \A o \in Ends : \A i \in OnWire(wire'[o], "answer") : wire'[o][i].id = pc[o].offer
    <3>1. \A i \in OnWire(v, "answer") : v[i].id = pc["impolite"].offer BY <1>1, <1>3 DEF Skeleton, Named, w
    <3>2. \A i \in OnWire(wire'["polite"], "answer") : wire'["polite"][i].id = pc["polite"].offer
      BY <1>1 DEF Skeleton, Named
    <3>3. QED BY <1>1, <3>1, <3>2 DEF v
  <2>2. QED BY <1>5, <2>1 DEF Skeleton, Named
<1>9. Firm' BY <1>1, <1>4, <1>5, <1>6 DEF Skeleton, Firm
<1>10. Yielding'
  <2>1. \A i \in Nat : Behind(i)' <=> Behind(i + 1)
    <3>1. SUFFICES ASSUME NEW i \in Nat PROVE Behind(i)' <=> Behind(i + 1) OBVIOUS
    <3>2. ASSUME NEW j \in OnWire(w, "answer"), i + 1 < j PROVE j - 1 \in OnWire(v, "answer") /\ i < j - 1
      BY <1>3, <3>2
    <3>3. ASSUME NEW j \in OnWire(v, "answer"), i < j PROVE j + 1 \in OnWire(w, "answer") /\ i + 1 < j + 1
      BY <1>3, <3>3
    <3>4. QED BY <3>2, <3>3 DEF Behind, v, w
  <2>2. \A i, k \in OnWire(v, "offer") : i < k => \E j \in OnWire(v, "answer") : i < j /\ j < k
    <3>1. SUFFICES ASSUME NEW i \in OnWire(v, "offer"), NEW k \in OnWire(v, "offer"), i < k
                   PROVE  \E j \in OnWire(v, "answer") : i < j /\ j < k
      OBVIOUS
    <3>2. i \in Nat /\ k \in Nat /\ i + 1 \in Sent("polite") /\ k + 1 \in Sent("polite") /\ i + 1 < k + 1
      BY <1>3, <1>4, <3>1
    <3>3. PICK j \in OnWire(w, "answer") : i + 1 < j /\ j < k + 1 BY <3>2 DEF Skeleton, Yielding, w
    <3>4. j \in Nat \ {0} /\ j - 1 \in OnWire(v, "answer") BY <1>3, <3>2, <3>3
    <3>5. i < j - 1 /\ j - 1 < k BY <3>2, <3>3, <3>4
    <3>6. QED BY <3>4, <3>5
  <2>3. \A i \in OnWire(v, "offer") :
          /\ i \in Nat /\ i + 1 \in Sent("polite") /\ ~Held("polite")
          /\ pc["polite"].sig = "local" => Behind(i)' \/ v[i].id = pc["polite"].offer
          /\ pc["polite"].sig # "local" => Stale(i + 1)
    <3>1. SUFFICES ASSUME NEW i \in OnWire(v, "offer")
                   PROVE  /\ i \in Nat /\ i + 1 \in Sent("polite") /\ ~Held("polite")
                          /\ pc["polite"].sig = "local" => Behind(i)' \/ v[i].id = pc["polite"].offer
                          /\ pc["polite"].sig # "local" => Stale(i + 1)
      OBVIOUS
    <3>2. i \in Nat /\ i + 1 \in Sent("polite") /\ v[i] = w[i + 1] BY <1>3, <1>4, <3>1
    <3>3. /\ ~Held("polite")
          /\ pc["polite"].sig = "local" => Behind(i + 1) \/ w[i + 1].id = pc["polite"].offer
          /\ pc["polite"].sig # "local" => Stale(i + 1)
      BY <3>2 DEF Skeleton, Yielding, w
    <3>4. QED BY <2>1, <3>2, <3>3
  <2>4. \A i \in OnWire(v, "offer") : Stale(i + 1) => Stale(i)' BY <1>1, <1>5, <2>1, <2>3 DEF Stale
  <2>5. Outbid => Outbid' BY <1>1, <1>4, <1>5 DEF Outbid
  <2>6. ASSUME pc["polite"].sig = "local", ~Held("polite"), \A i \in OnWire(v, "offer") : Behind(i)'
        PROVE  Outbid'
    <3>1. CASE Behind(1)
      <4>1. ASSUME NEW i \in Sent("polite") PROVE Behind(i)
        <5>1. CASE i = 1 BY <3>1, <5>1
        <5>2. CASE i # 1
          <6>1. i - 1 \in OnWire(v, "offer") /\ i \in Nat \ {0, 1} BY <1>3, <1>4, <4>1, <5>2
          <6>2. i - 1 \in Nat /\ i - 1 + 1 = i BY <6>1
          <6>3. QED BY <2>1, <2>6, <6>1, <6>2
        <5>3. QED BY <5>1, <5>2
      <4>2. QED BY <2>5, <2>6, <4>1 DEF Skeleton, Yielding
    <3>2. CASE ~Behind(1)
      <4>1. ~Answered("impolite")
        <5>1. SUFFICES ASSUME NEW j \in OnWire(w, "answer") PROVE 1 < j BY <3>2 DEF Behind, Answered, w
        <5>2. j \in Nat \ {0, 1} BY <1>3
        <5>3. QED BY <5>2
      <4>2. 1 \in Sent("polite") BY <1>3, <1>4
      <4>3. ~Remote("polite") BY <2>6 DEF Held
      <4>4. pc["impolite"].sig # "remote" BY <1>1, <4>3 DEF Remote
      <4>5. CASE pc["impolite"].sig = "stable" BY <4>5, <1>1 DEF Outbid
      <4>6. CASE pc["impolite"].sig = "local"
        <5>1. Sent("impolite") # {} \/ Held("impolite") BY <4>6 DEF Skeleton, Firm
        <5>2. ~Remote("impolite") BY <1>1, <2>6 DEF Remote
        <5>3. Heard("impolite") => crossed' BY DEF Skeleton, Firm
        <5>4. QED BY <1>1, <1>4, <1>5, <4>1, <5>1, <5>2, <5>3 DEF Outbid, Held
      <4>7. pc["impolite"].sig \in {"stable", "local", "remote"} BY <1>1 DEF NegotiationTyped, PeerSessions
      <4>8. QED BY <4>4, <4>5, <4>6, <4>7
    <3>3. QED BY <3>1, <3>2
  <2>7. OnWire(v, "offer") # {} => Sent("polite") # {} BY <2>3
  <2>8. QED BY <1>1, <1>4, <1>5, <1>6, <2>2, <2>3, <2>4, <2>6, <2>7 DEF Skeleton, Yielding, v
<1>11. Matching' BY <1>1, <1>5, <1>6 DEF Skeleton, Matching
<1>12. QED BY <1>7, <1>8, <1>9, <1>10, <1>11 DEF Skeleton

\* The impolite end, which has none of its own, takes it.
LEMMA TakenSkeletonI ==
  ASSUME NegotiationTyped, Skeleton, wire["impolite"] # <<>>, Head(wire["impolite"]).type = "offer",
         ~pc["impolite"].making, pc["impolite"].sig = "stable",
         pc'["polite"] = pc["polite"], wire'["impolite"] = Tail(wire["impolite"]), wire'["polite"] = wire["polite"],
         pc'["impolite"].sig = "stable", pc'["impolite"].agreed = pc["impolite"].agreed,
         \A k : k # "taken" => At(pc'["impolite"].ops, k) = At(pc["impolite"].ops, k),
         At(pc'["impolite"].ops, "taken") # {},
         \A i \in At(pc'["impolite"].ops, "taken") :
           pc'["impolite"].ops[i].id = Head(wire["impolite"]).id /\ pc'["impolite"].ops[i].waits,
         crossed' = crossed
  PROVE  Skeleton'
<1> DEFINE w == wire["impolite"]
           v == wire'["impolite"]
           e == pc'["impolite"]
<1>1. "polite" \in Ends /\ "impolite" \in Ends /\ Ends = {"polite", "impolite"}
      /\ Other("polite") = "impolite" /\ Other("impolite") = "polite"
  BY TwoEnds
<1>2. w \in Seq(Signals) BY <1>1 DEF NegotiationTyped
<1>3. /\ \A t, i : i \in OnWire(v, t) => i \in Nat \ {0} /\ i + 1 \in OnWire(w, t) /\ v[i] = w[i + 1]
      /\ \A t, i : i \in OnWire(w, t) => i \in Nat \ {0}
      /\ 1 \in OnWire(w, "offer") /\ (OnWire(v, "answer") = {} <=> OnWire(w, "answer") = {})
      /\ w[1] = Head(w)
  <2>1. v = Tail(w) /\ w # <<>> /\ Head(w).type = "offer" OBVIOUS
  <2> DEFINE u == Tail(w)
  <2>2. /\ \A t, i : i \in OnWire(u, t) => i \in Nat \ {0} /\ i + 1 \in OnWire(w, t) /\ u[i] = w[i + 1]
        /\ \A t, i : i \in OnWire(w, t) => i \in Nat \ {0}
        /\ 1 \in OnWire(w, "offer") /\ (OnWire(u, "answer") = {} <=> OnWire(w, "answer") = {})
        /\ w[1] = Head(w)
    <3> HIDE DEF v, w
    <3>1. QED BY <1>2, <2>1, OfferGone
  <2> HIDE DEF u
  <2>3. v = u BY DEF u
  <2> HIDE DEF v, w
  <2>4. QED BY <2>2, <2>3
<1>4. Sent("polite") = OnWire(w, "offer") /\ Sent("polite")' = OnWire(v, "offer") /\ Sent("impolite")' = Sent("impolite")
  BY <1>1 DEF Sent
<1>5. ~Held("impolite") /\ ~Answered("impolite") /\ ~Taken("impolite") /\ ~Remote("impolite") /\ ~Heard("impolite")
      /\ Sent("impolite") = {}
  BY <1>1 DEF Skeleton, InOnePlace, Firm, Held
<1>6. ~Held("polite") /\ pc["polite"].sig = "local"
  BY <1>3, <1>4 DEF Skeleton, Yielding
<1>7. OnWire(w, "answer") = {} /\ OnWire(v, "answer") = {} BY <1>3, <1>5 DEF Answered
<1>8. w[1].id = pc["polite"].offer
  <2>1. ~Behind(1) BY <1>7 DEF Behind
  <2>2. 1 \in Sent("polite") BY <1>3, <1>4
  <2>3. Behind(1) \/ wire["impolite"][1].id = pc["polite"].offer BY <1>6, <2>2 DEF Skeleton, Yielding
  <2>4. QED BY <2>1, <2>3
<1>9. OnWire(v, "offer") = {}
  <2>1. SUFFICES ASSUME NEW i \in OnWire(v, "offer") PROVE FALSE OBVIOUS
  <2>2. i \in Nat \ {0} /\ i + 1 \in OnWire(w, "offer")
    <3> HIDE DEF v, w
    <3>1. QED BY <1>3, <2>1
  <2>3. i + 1 \in Sent("polite") /\ 1 \in Sent("polite") /\ 1 < i + 1
    <3> HIDE DEF v, w
    <3>1. QED BY <1>3, <1>4, <2>2
  <2>4. PICK j \in OnWire(wire["impolite"], "answer") : 1 < j BY <2>3 DEF Skeleton, Yielding
  <2>5. QED BY <1>7, <2>4
<1>10. /\ Taken("polite")' /\ ~Remote("polite")' /\ ~Answered("polite")' /\ ~Heard("polite")'
       /\ ~Taken("impolite")' /\ ~Remote("impolite")' /\ ~Answered("impolite")' /\ ~Heard("impolite")'
  BY <1>1, <1>5, <1>6, <1>7 DEF Taken, Remote, Answered, Heard, Held
<1> HIDE DEF w, v, e
<1>11. /\ e.sig = "stable" /\ e.agreed = pc["impolite"].agreed /\ pc'["impolite"] = e /\ wire'["impolite"] = v
       /\ \A i \in At(e.ops, "taken") : e.ops[i].id = w[1].id /\ e.ops[i].waits
       /\ At(e.ops, "undo") = At(pc["impolite"].ops, "undo")
  BY <1>3 DEF e, v, w
<1>12. \A o \in Ends : InOnePlace(o)'
  <2>1. AtMostOne(OnWire(wire'["polite"], "answer")) /\ AtMostOne(OnWire(wire'["impolite"], "answer"))
    BY <1>1, <1>7, <1>11 DEF Skeleton, InOnePlace, AtMostOne
  <2>2. QED BY <1>1, <1>6, <1>10, <2>1 DEF InOnePlace, Held
<1>13. \A o \in Ends : Named(o)'
  <2>1. Named("polite")' BY <1>1, <1>8, <1>10, <1>11 DEF Named, Answered, Heard
  <2>2. Named("impolite")' BY <1>1, <1>10 DEF Named, Answered, Heard, Taken
  <2>3. QED BY <1>1, <2>1, <2>2
<1>14. Firm'
  <2>1. At(e.ops, "undo") = {} BY <1>11 DEF Skeleton, Firm
  <2>2. QED BY <1>4, <1>5, <1>10, <1>11, <2>1 DEF Firm, AtMostOne
<1>15. Yielding' BY <1>4, <1>9, <1>10 DEF Yielding, Held, Back
<1>16. Matching'
  <2>1. ~Back("polite") /\ ~Back("impolite") BY <1>5, <1>6 DEF Held, Back
  <2>2. ~Back("polite")' /\ ~Back("impolite")' BY <1>10 DEF Back
  <2>3. pc["polite"].agreed = pc["impolite"].agreed BY <1>1, <2>1 DEF Skeleton, Matching
  <2>4. QED BY <1>1, <1>11, <2>2, <2>3 DEF Matching
<1>17. QED BY <1>12, <1>13, <1>14, <1>15, <1>16 DEF Skeleton

\* The polite end takes it, and gives up its own if it has to.
LEMMA TakenSkeletonP ==
  ASSUME NegotiationTyped, Skeleton, wire["polite"] # <<>>, Head(wire["polite"]).type = "offer",
         pc'["impolite"] = pc["impolite"], wire'["polite"] = Tail(wire["polite"]),
         wire'["impolite"] = wire["impolite"],
         pc'["polite"].sig = pc["polite"].sig, pc'["polite"].agreed = pc["polite"].agreed,
         pc'["polite"].offer = pc["polite"].offer,
         \A k : k \notin {"undo", "taken"} => At(pc'["polite"].ops, k) = At(pc["polite"].ops, k),
         \A i \in At(pc["polite"].ops, "heard") : pc'["polite"].ops[i] = pc["polite"].ops[i],
         At(pc'["polite"].ops, "taken") # {},
         \A i \in At(pc'["polite"].ops, "taken") :
           pc'["polite"].ops[i].id = Head(wire["polite"]).id /\ pc'["polite"].ops[i].waits,
         crossed' = crossed
  PROVE  Skeleton'
<1> DEFINE w == wire["polite"]
           v == wire'["polite"]
           e == pc'["polite"]
<1>1. "polite" \in Ends /\ "impolite" \in Ends /\ Ends = {"polite", "impolite"}
      /\ Other("polite") = "impolite" /\ Other("impolite") = "polite"
  BY TwoEnds
<1>2. w \in Seq(Signals) BY <1>1 DEF NegotiationTyped
<1>3. /\ 1 \in OnWire(w, "offer") /\ (OnWire(v, "answer") = {} <=> OnWire(w, "answer") = {})
      /\ \A t, i : i \in OnWire(w, t) => i \in Nat \ {0}
      /\ AtMostOne(OnWire(w, "offer")) => OnWire(v, "offer") = {}
      /\ w[1] = Head(w) /\ 1 \notin OnWire(w, "answer")
  <2>1. v = Tail(w) /\ w # <<>> /\ Head(w).type = "offer" OBVIOUS
  <2> DEFINE u == Tail(w)
  <2>2. /\ 1 \in OnWire(w, "offer") /\ (OnWire(u, "answer") = {} <=> OnWire(w, "answer") = {})
        /\ \A t, i : i \in OnWire(w, t) => i \in Nat \ {0}
        /\ AtMostOne(OnWire(w, "offer")) => OnWire(u, "offer") = {}
        /\ w[1] = Head(w) /\ 1 \notin OnWire(w, "answer")
    <3> HIDE DEF v, w
    <3>1. QED BY <1>2, <2>1, OfferGone
  <2> HIDE DEF u
  <2>3. v = u BY DEF u
  <2> HIDE DEF v, w
  <2>4. QED BY <2>2, <2>3
<1>4. Sent("impolite") = OnWire(w, "offer") /\ Sent("impolite")' = OnWire(v, "offer") /\ Sent("polite")' = Sent("polite")
  BY <1>1 DEF Sent
<1>5. 1 \in Sent("impolite") /\ Sent("impolite")' = {} /\ pc["impolite"].sig = "local" /\ ~Held("impolite")
      /\ w[1].id = pc["impolite"].offer
  <2>1. 1 \in Sent("impolite") BY <1>3, <1>4
  <2>2. pc["impolite"].sig = "local" /\ ~Held("impolite") /\ wire["polite"][1].id = pc["impolite"].offer
    BY <2>1 DEF Skeleton, Firm
  <2>3. AtMostOne(Sent("impolite")) BY DEF Skeleton, Firm
  <2>4. Sent("impolite")' = {}
    <3> HIDE DEF v, w
    <3>1. QED BY <1>3, <1>4, <2>3
  <2>5. QED BY <2>1, <2>2, <2>4
<1>6. OnWire(w, "answer") = {} /\ OnWire(v, "answer") = {}
  <2>1. SUFFICES ASSUME NEW j \in OnWire(w, "answer") PROVE FALSE BY <1>3
  <2>2. j < 1 /\ j \in Nat \ {0} BY <1>3, <1>5 DEF Skeleton, Firm
  <2>3. QED BY <2>2
<1>7. /\ Taken("impolite")' /\ ~Remote("impolite")' /\ ~Answered("impolite")' /\ ~Heard("impolite")'
      /\ (Taken("polite")' <=> Taken("polite")) /\ (Remote("polite")' <=> Remote("polite"))
      /\ ~Answered("polite")' /\ ~Answered("polite") /\ (Heard("polite")' <=> Heard("polite"))
  BY <1>1, <1>5, <1>6 DEF Taken, Remote, Answered, Heard, Held
<1>8. (Held("polite")' <=> Held("polite")) /\ (Back("polite")' <=> Back("polite")) /\ ~Back("impolite")'
      /\ ~Back("impolite")
  BY <1>5, <1>7 DEF Held, Back
<1> HIDE DEF w, v, e
<1>9. /\ e.sig = pc["polite"].sig /\ e.agreed = pc["polite"].agreed /\ e.offer = pc["polite"].offer
      /\ pc'["polite"] = e /\ wire'["polite"] = v
      /\ \A i \in At(e.ops, "taken") : e.ops[i].id = w[1].id /\ e.ops[i].waits
      /\ At(e.ops, "heard") = At(pc["polite"].ops, "heard")
      /\ \A i \in At(e.ops, "heard") : e.ops[i] = pc["polite"].ops[i]
  BY <1>3 DEF e, v, w
<1>10. \A o \in Ends : InOnePlace(o)'
  <2>1. AtMostOne(OnWire(wire'["polite"], "answer")) /\ AtMostOne(OnWire(wire'["impolite"], "answer"))
    BY <1>1, <1>6, <1>9 DEF Skeleton, InOnePlace, AtMostOne
  <2>2. InOnePlace("polite")' BY <1>1, <1>7, <1>8, <1>9, <2>1 DEF Skeleton, InOnePlace
  <2>3. InOnePlace("impolite")' BY <1>1, <1>5, <1>7, <2>1 DEF InOnePlace, Held
  <2>4. QED BY <1>1, <2>2, <2>3
<1>11. \A o \in Ends : Named(o)'
  <2>1. Named("polite")' BY <1>1, <1>7, <1>9 DEF Skeleton, Named, Answered, Heard
  <2>2. Named("impolite")' BY <1>1, <1>5, <1>7, <1>9 DEF Named, Answered, Heard
  <2>3. QED BY <1>1, <2>1, <2>2
<1>12. Firm' BY <1>5, <1>7 DEF Skeleton, Firm, Held, AtMostOne
<1>13. Yielding'
  <2>1. \A i : Behind(i)' <=> Behind(i) BY DEF Behind
  <2>2. \A i \in Sent("polite") : Stale(i) => Stale(i)' BY <1>5, <2>1 DEF Stale, Held
  <2>3. Outbid' BY <1>7 DEF Outbid
  <2>4. QED BY <1>4, <1>5, <1>8, <1>9, <2>1, <2>2, <2>3 DEF Skeleton, Yielding
<1>14. Matching' BY <1>1, <1>8, <1>9 DEF Skeleton, Matching
<1>15. QED BY <1>10, <1>11, <1>12, <1>13, <1>14 DEF Skeleton

LEMMA IgnoredKeeps ==
  ASSUME NegInv, wire["impolite"] # <<>>, Head(wire["impolite"]).type = "offer",
         Collides(pc["impolite"]), pc' = pc, crossed' = (crossed \/ pc["impolite"].answering),
         wire' = [wire EXCEPT !["impolite"] = Tail(@)], UNCHANGED <<offers, kicks>>
  PROVE  NegInv'
<1> DEFINE c == pc["impolite"]
           w == wire["impolite"]
<1>1. "polite" \in Ends /\ "impolite" \in Ends /\ Ends = {"polite", "impolite"} BY TwoEnds
<1>2. /\ c \in PeerSessions /\ Chain(c, offers) /\ w \in Seq(Signals) /\ Paired(w)
      /\ wire \in [Ends -> Seq(Signals)] /\ NegotiationTyped /\ Skeleton
  BY <1>1 DEF NegInv, NegotiationTyped
<1>3. wire'["impolite"] = Tail(w) /\ wire'["polite"] = wire["polite"] /\ Tail(w) \in Seq(Signals)
  BY <1>1, <1>2, OnTail
<1>4. NegotiationTyped'
  <2>1. crossed' \in BOOLEAN BY <1>2 DEF NegotiationTyped, PeerSessions
  <2>2. QED BY <1>2, <1>3, <2>1 DEF NegotiationTyped
<1>5. \A p \in Ends : Chain(pc'[p], offers') /\ Paired(wire'[p]) BY <1>1, <1>2, <1>3, PairedTail DEF NegInv
<1>6. Skeleton' BY <1>2, <1>3, IgnoredSkeleton DEF Collides, Chain
<1>7. ASSUME ~crossed' PROVE \A p \in Ends : Coming(pc'[p], wire'[p])
  <2>1. ~crossed /\ ~c.answering BY <1>7
  <2>2. Comes(c, w, c.ops) BY <1>1, <2>1 DEF NegInv, Coming
  <2>3. \A n : ~Next1(w, n) BY <1>2, OnTail DEF Next1
  <2>4. Coming(c, Tail(w))
    <3> HIDE DEF c, w
    <3>1. QED BY <2>1, <2>2, <2>3 DEF Coming, Comes
  <2>5. QED BY <1>1, <1>3, <2>1, <2>4 DEF NegInv
<1>8. QED BY <1>4, <1>5, <1>6, <1>7 DEF NegInv

-----------------------------------------------------------------------------
\* The operation that takes an offer
LEMMA TheirOffer ==
  ASSUME NEW m \in Signals
  PROVE  LET o == [op |-> "remote", type |-> "offer", id |-> m.id, restart |-> m.restart, waits |-> TRUE] IN
         o \in Steps /\ Kind(o) = "taken" /\ o.op = "remote" /\ o.id = m.id /\ o.waits
<1> DEFINE o == [op |-> "remote", type |-> "offer", id |-> m.id, restart |-> m.restart, waits |-> TRUE]
<1>1. o \in Remotes /\ o.type = "offer" BY DEF Remotes, Signals
<1>2. o \in Steps /\ Kind(o) = "taken" BY <1>1, Kinds DEF Steps
<1>3. QED BY <1>2

\* The offer that comes is in no chain yet.
LEMMA NotTakenYet ==
  ASSUME NegInv, NEW p \in Ends, wire[p] # <<>>, Head(wire[p]).type = "offer",
         p = "impolite" => ~Collides(pc[p])
  PROVE  At(pc[p].ops, "taken") = {} /\ At(pc[p].ops, "undo") = {} /\ pc[p].sig # "remote"
<1>1. "polite" \in Ends /\ "impolite" \in Ends /\ Other("polite") = "impolite" /\ Other("impolite") = "polite"
  BY TwoEnds
<1>2. wire[p] \in Seq(Signals) /\ Skeleton /\ Ordered(pc[p].ops) BY DEF NegInv, NegotiationTyped, Chain
<1>3. 1 \in OnWire(wire[p], "offer") BY <1>2, OnTail
<1>4. At(pc[p].ops, "taken") = {} /\ pc[p].sig # "remote"
  <2>1. CASE p = "impolite"
    <3>1. Sent("polite") # {} BY <1>1, <1>3, <2>1 DEF Sent
    <3>2. ~Held("polite") BY <1>2, <3>1 DEF Skeleton, Yielding
    <3>3. QED BY <1>1, <2>1, <3>2 DEF Held, Taken, Remote
  <2>2. CASE p = "polite"
    <3>1. Sent("impolite") # {} BY <1>1, <1>3, <2>2 DEF Sent
    <3>2. ~Held("impolite") BY <1>2, <3>1 DEF Skeleton, Firm
    <3>3. QED BY <1>1, <2>2, <3>2 DEF Held, Taken, Remote
  <2>3. QED BY <2>1, <2>2 DEF Ends
<1>5. At(pc[p].ops, "undo") = {} BY <1>2, <1>4 DEF Ordered
<1>6. QED BY <1>4, <1>5

LEMMA TakenKeeps ==
  ASSUME NegInv, NEW p \in Ends, wire[p] # <<>>, Head(wire[p]).type = "offer", ~Collides(pc[p]),
         pc' = [pc EXCEPT ![p] =
           Then([@ EXCEPT !.answering = FALSE],
                [op |-> "remote", type |-> "offer", id |-> Head(wire[p]).id,
                 restart |-> Head(wire[p]).restart, waits |-> TRUE])],
         wire' = [wire EXCEPT ![p] = Tail(@)], UNCHANGED <<offers, kicks, crossed>>
  PROVE  NegInv'
<1> DEFINE c == pc[p]
           w == wire[p]
           m == Head(w)
           o == [op |-> "remote", type |-> "offer", id |-> m.id, restart |-> m.restart, waits |-> TRUE]
           t == Append(c.ops, o)
           e == [c EXCEPT !.answering = FALSE, !.ops = t]
<1>1. /\ c \in PeerSessions /\ Chain(c, offers) /\ c.ops \in Seq(Steps) /\ w \in Seq(Signals) /\ Paired(w)
      /\ pc \in [Ends -> PeerSessions] /\ wire \in [Ends -> Seq(Signals)] /\ NegotiationTyped /\ Skeleton
      /\ Ordered(c.ops) /\ w # <<>>
  BY DEF NegInv, NegotiationTyped, PeerSessions, Chain
<1>2. pc' = [pc EXCEPT ![p] = e] /\ crossed' = crossed
  BY <1>1 DEF Then, PeerSessions
<1>3. m \in Signals /\ Tail(w) \in Seq(Signals) BY <1>1, OnTail
<1>4. o \in Steps /\ Kind(o) = "taken" /\ o.op = "remote" /\ o.id = m.id /\ o.waits BY <1>3, TheirOffer
<1>5. c.sig = "stable" /\ ~c.making /\ At(c.ops, "taken") = {} /\ At(c.ops, "undo") = {}
      /\ At(c.ops, "make") = {}
  BY <1>1, NotTakenYet DEF Collides, Chain
<1>6. /\ t \in Seq(Steps) /\ Ordered(t)
      /\ \A k : k # "taken" => At(t, k) = At(c.ops, k)
      /\ At(t, "taken") = {Len(c.ops) + 1} /\ t[Len(c.ops) + 1] = o
      /\ \A k, i : i \in At(c.ops, k) => t[i] = c.ops[i]
  <2>1. Ordered(t)
    <3> HIDE DEF o, c
    <3>1. QED BY <1>1, <1>4, <1>5, OrderedAppend
  <2>2. /\ \A k : k # Kind(o) => At(t, k) = At(c.ops, k)
        /\ \A k, i : i \in At(c.ops, k) => i \in 1 .. Len(c.ops) /\ t[i] = c.ops[i]
        /\ At(c.ops, Kind(o)) = {} => At(t, Kind(o)) = {Len(c.ops) + 1}
        /\ t[Len(c.ops) + 1] = o /\ t \in Seq(Steps)
    <3> HIDE DEF o, c
    <3>1. QED BY <1>1, <1>4, KindAppend
  <2> HIDE DEF o, c, t
  <2>3. QED BY <1>4, <1>5, <2>1, <2>2
<1> HIDE DEF o, t, m
<1>7. /\ e \in PeerSessions /\ e.ops = t /\ e.sig = c.sig /\ e.offer = c.offer /\ e.agreed = c.agreed
      /\ ~e.answering /\ e.has = c.has /\ e.making = c.making /\ e.fired = c.fired
      /\ e.need = c.need /\ e.queue = c.queue /\ e.added = c.added
  BY <1>1, <1>6 DEF PeerSessions
<1> HIDE DEF e
<1>8. Chain(e, offers)
  <2>1. /\ At(t, "make") = {} /\ At(t, "undo") = At(c.ops, "undo") /\ At(t, "owed") = At(c.ops, "owed")
    BY <1>5, <1>6
  <2>2. QED BY <1>1, <1>5, <1>6, <1>7, <2>1 DEF Chain
<1>9. pc'[p] = e /\ wire'[p] = Tail(w) /\ \A q \in Ends \ {p} : pc'[q] = pc[q] /\ wire'[q] = wire[q]
  BY <1>1, <1>2
<1>10. NegotiationTyped' BY <1>1, <1>2, <1>3, <1>7 DEF NegotiationTyped
<1>11. \A q \in Ends : Chain(pc'[q], offers') /\ Paired(wire'[q]) BY <1>1, <1>8, <1>9, PairedTail DEF NegInv
<1>12. Skeleton'
  <2>1. \A i \in At(t, "taken") : t[i].id = m.id /\ t[i].waits BY <1>4, <1>6
  <2>2. pc'[p].sig = c.sig /\ pc'[p].offer = c.offer /\ pc'[p].agreed = c.agreed /\ pc'[p].ops = t
    BY <1>7, <1>9
  <2>3. At(t, "taken") # {} BY <1>6
  <2>4. CASE p = "impolite"
    <3>1. pc'["polite"] = pc["polite"] /\ wire'["polite"] = wire["polite"] BY <1>9, <2>4, TwoEnds
    <3>2. QED BY <1>1, <1>2, <1>5, <1>6, <1>9, <2>1, <2>2, <2>3, <2>4, <3>1, TakenSkeletonI DEF m
  <2>5. CASE p = "polite"
    <3>1. pc'["impolite"] = pc["impolite"] /\ wire'["impolite"] = wire["impolite"] BY <1>9, <2>5, TwoEnds
    <3>2. /\ \A k : k \notin {"undo", "taken"} => At(t, k) = At(c.ops, k)
          /\ \A i \in At(c.ops, "heard") : t[i] = c.ops[i]
      BY <1>6
    <3>3. QED BY <1>1, <1>2, <1>9, <2>1, <2>2, <2>3, <2>5, <3>1, <3>2, TakenSkeletonP DEF m
  <2>6. QED BY <2>4, <2>5 DEF Ends
<1>13. ASSUME ~crossed' PROVE \A q \in Ends : Coming(pc'[q], wire'[q])
  <2>1. Coming(c, w) BY <1>2, <1>13 DEF NegInv
  <2>2. Coming(e, Tail(w))
    <3>1. e.ops = Append(c.ops, o) BY <1>7 DEF t
    <3>2. o.id = Head(w).id /\ Kind(o) \in {"taken", "heard"} /\ Head(w).type # "candidate"
      BY <1>4 DEF m
    <3>3. e.answering => Kind(o) = "heard" /\ At(c.ops, "heard") = {} BY <1>7
    <3>4. \A k, i : AddedAfter(c.ops, k, i) => AddedAfter(c.ops, k, i) OBVIOUS
    <3>5. \A i \in At(c.ops, "taken") \cup At(c.ops, "heard") : c.ops[i] = c.ops[i] OBVIOUS
    <3> HIDE DEF c, w
    <3>6. QED BY <1>1, <1>4, <1>7, <2>1, <3>1, <3>2, <3>3, <3>4, <3>5, DescriptionComes
  <2>3. QED BY <1>2, <1>9, <1>13, <2>2 DEF NegInv
<1>14. QED BY <1>10, <1>11, <1>12, <1>13 DEF NegInv

LEMMA GivesWayKeeps ==
  ASSUME NegInv, wire["polite"] # <<>>, Head(wire["polite"]).type = "offer", Collides(pc["polite"]),
         pc' = [pc EXCEPT !["polite"] =
           Then(Then([@ EXCEPT !.answering = FALSE], Op("rollback")),
                [op |-> "remote", type |-> "offer", id |-> Head(wire["polite"]).id,
                 restart |-> Head(wire["polite"]).restart, waits |-> TRUE])],
         wire' = [wire EXCEPT !["polite"] = Tail(@)], UNCHANGED <<offers, kicks, crossed>>
  PROVE  NegInv'
<1> DEFINE c == pc["polite"]
           w == wire["polite"]
           m == Head(w)
           u == Op("rollback")
           o == [op |-> "remote", type |-> "offer", id |-> m.id, restart |-> m.restart, waits |-> TRUE]
           s == Append(c.ops, u)
           t == Append(s, o)
           e == [c EXCEPT !.answering = FALSE, !.ops = t]
<1>1. "polite" \in Ends /\ "impolite" \in Ends /\ Ends = {"polite", "impolite"} BY TwoEnds
<1>2. /\ c \in PeerSessions /\ Chain(c, offers) /\ c.ops \in Seq(Steps) /\ w \in Seq(Signals) /\ Paired(w)
      /\ pc \in [Ends -> PeerSessions] /\ wire \in [Ends -> Seq(Signals)] /\ NegotiationTyped /\ Skeleton
      /\ Ordered(c.ops) /\ w # <<>>
  BY <1>1 DEF NegInv, NegotiationTyped, PeerSessions, Chain
<1>3. pc' = [pc EXCEPT !["polite"] = e] /\ crossed' = crossed
  BY <1>1, <1>2 DEF Then, PeerSessions
<1>4. m \in Signals /\ Tail(w) \in Seq(Signals) BY <1>2, OnTail
<1>5. o \in Steps /\ Kind(o) = "taken" /\ o.op = "remote" /\ o.id = m.id /\ o.waits BY <1>4, TheirOffer
<1>6. u \in Steps /\ u.op = "rollback" /\ Kind(u) = "undo" BY Kinds DEF Op, Steps
<1>7. At(c.ops, "taken") = {} /\ At(c.ops, "undo") = {} /\ c.sig # "remote"
  BY <1>1, <1>2, NotTakenYet
<1>8. /\ t \in Seq(Steps) /\ Ordered(t)
      /\ \A k, i : i \in At(t, k) <=> \/ i \in At(c.ops, k)
                                      \/ i = Len(c.ops) + 1 /\ k = "undo"
                                      \/ i = Len(c.ops) + 2 /\ k = "taken"
      /\ \A i \in DOMAIN c.ops : t[i] = c.ops[i]
      /\ t[Len(c.ops) + 2] = o
  <2> HIDE DEF o, c, u
  <2>1. QED BY <1>2, <1>5, <1>6, <1>7, OrderedUndo
<1>9. /\ s \in Seq(Steps)
      /\ \A k : k # "undo" => At(s, k) = At(c.ops, k)
      /\ \A k, i : i \in At(c.ops, k) => s[i] = c.ops[i]
      /\ \A k, i : AddedAfter(c.ops, k, i) => AddedAfter(s, k, i)
  <2> HIDE DEF o, c, u
  <2>1. /\ \A k : k # Kind(u) => At(s, k) = At(c.ops, k)
        /\ \A k, i : i \in At(c.ops, k) => s[i] = c.ops[i]
        /\ s \in Seq(Steps)
    BY <1>2, <1>6, KindAppend
  <2>2. \A k, i : AddedAfter(c.ops, k, i) => AddedAfter(s, k, i) BY <1>2, <1>6, AddedAppend
  <2>3. QED BY <1>6, <2>1, <2>2
<1>10. /\ \A k : k \notin {"undo", "taken"} => At(t, k) = At(c.ops, k)
       /\ At(t, "taken") = {Len(c.ops) + 2} /\ At(t, "undo") # {}
       /\ \A k, i : i \in At(c.ops, k) => t[i] = c.ops[i]
  <2>1. \A k, i : i \in At(c.ops, k) => i \in DOMAIN c.ops BY <1>2, Positions
  <2> HIDE DEF o, c, u, s, t
  <2>2. ASSUME NEW k, k \notin {"undo", "taken"} PROVE At(t, k) = At(c.ops, k)
    <3>1. \A i : i \in At(t, k) <=> i \in At(c.ops, k) BY <1>8, <2>2
    <3>2. QED BY <3>1
  <2>3. At(t, "taken") = {Len(c.ops) + 2}
    <3>1. \A i : i \in At(t, "taken") <=> i = Len(c.ops) + 2 BY <1>7, <1>8
    <3>2. QED BY <3>1
  <2>4. At(t, "undo") # {} BY <1>8
  <2>5. QED BY <1>8, <2>1, <2>2, <2>3, <2>4
<1>11. t = Append(s, o) OBVIOUS
<1> HIDE DEF o, t, m, u, s
<1>12. /\ e \in PeerSessions /\ e.ops = t /\ e.sig = c.sig /\ e.offer = c.offer /\ e.agreed = c.agreed
       /\ ~e.answering /\ e.has = c.has /\ e.making = c.making /\ e.fired = c.fired
       /\ e.need = c.need /\ e.queue = c.queue /\ e.added = c.added
  BY <1>2, <1>8 DEF PeerSessions
<1> HIDE DEF e
<1>13. Chain(e, offers)
  <2>1. At(t, "make") = At(c.ops, "make") /\ At(t, "owed") = At(c.ops, "owed") /\ At(t, "undo") # {}
    BY <1>10
  <2>2. \A i \in At(t, "make") : t[i].op = "negotiate" => c.sig = "stable" BY <1>2, <1>10, <2>1 DEF Chain
  <2>3. QED BY <1>2, <1>8, <1>12, <2>1, <2>2 DEF Chain
<1>14. pc'["polite"] = e /\ wire'["polite"] = Tail(w) /\ pc'["impolite"] = pc["impolite"]
       /\ wire'["impolite"] = wire["impolite"]
  BY <1>1, <1>2, <1>3
<1>15. NegotiationTyped' BY <1>1, <1>2, <1>3, <1>4, <1>12 DEF NegotiationTyped
<1>16. \A q \in Ends : Chain(pc'[q], offers') /\ Paired(wire'[q])
  BY <1>1, <1>2, <1>13, <1>14, PairedTail DEF NegInv
<1>17. Skeleton'
  <2>1. \A i \in At(t, "taken") : t[i].id = m.id /\ t[i].waits BY <1>5, <1>8, <1>10
  <2>2. pc'["polite"].sig = c.sig /\ pc'["polite"].offer = c.offer /\ pc'["polite"].agreed = c.agreed
        /\ pc'["polite"].ops = t
    BY <1>12, <1>14
  <2>3. At(t, "taken") # {} BY <1>10
  <2>4. \A i \in At(c.ops, "heard") : t[i] = c.ops[i] BY <1>10
  <2>5. QED BY <1>2, <1>3, <1>10, <1>14, <2>1, <2>2, <2>3, <2>4, TakenSkeletonP DEF m
<1>18. ASSUME ~crossed' PROVE \A q \in Ends : Coming(pc'[q], wire'[q])
  <2>1. Coming(c, w) BY <1>1, <1>3, <1>18 DEF NegInv
  <2>2. Coming(e, Tail(w))
    <3>1. e.ops = Append(s, o) BY <1>11, <1>12
    <3>2. o.id = Head(w).id /\ Kind(o) \in {"taken", "heard"} /\ Head(w).type # "candidate"
      BY <1>5 DEF m
    <3>3. e.answering => Kind(o) = "heard" /\ At(c.ops, "heard") = {} BY <1>12
    <3>4. At(s, "taken") = At(c.ops, "taken") /\ At(s, "heard") = At(c.ops, "heard") BY <1>9
    <3>5. \A i \in At(s, "taken") \cup At(s, "heard") : s[i] = c.ops[i] BY <1>9, <3>4
    <3> HIDE DEF c, w
    <3>6. QED BY <1>2, <1>5, <1>9, <1>12, <2>1, <3>1, <3>2, <3>3, <3>4, <3>5, DescriptionComes
  <2>3. QED BY <1>1, <1>3, <1>14, <1>18, <2>2 DEF NegInv
<1>19. QED BY <1>15, <1>16, <1>17, <1>18 DEF NegInv

LEMMA ReceiveKeeps ==
  ASSUME NegInv, NEW p \in Ends, Receive(p)
  PROVE  NegInv'
<1> DEFINE m == Head(wire[p])
<1>1. /\ wire[p] # <<>> /\ wire' = [wire EXCEPT ![p] = Tail(@)] /\ UNCHANGED <<offers, kicks>>
      /\ CASE m.type = "offer"     -> ReceiveOffer(p, m)
           [] m.type = "answer"    -> ReceiveAnswer(p, m)
           [] m.type = "candidate" -> ReceiveCandidate(p, m)
  BY DEF Receive
<1>2. m.type \in {"offer", "answer", "candidate"}
  <2>1. wire[p] \in Seq(Signals) BY DEF NegInv, NegotiationTyped
  <2>2. m \in Signals BY <1>1, <2>1, OnTail
  <2>3. QED BY <2>2 DEF Signals
<1>3. CASE m.type = "offer"
  <2>1. ReceiveOffer(p, m) BY <1>1, <1>3
  <2>2. CASE Ignores(p, pc[p])
    <3>1. p = "impolite" /\ Collides(pc[p]) BY <2>2 DEF Ignores
    <3>2. pc' = pc /\ crossed' = (crossed \/ pc[p].answering) BY <2>1, <2>2 DEF ReceiveOffer
    <3>3. QED BY <1>1, <1>3, <3>1, <3>2, IgnoredKeeps
  <2>3. CASE ~Ignores(p, pc[p]) /\ Collides(pc[p])
    <3>1. p = "polite" BY <2>3 DEF Ignores, Ends
    <3>2. /\ pc' = [pc EXCEPT ![p] =
               Then(Then([@ EXCEPT !.answering = FALSE], Op("rollback")),
                    [op |-> "remote", type |-> "offer", id |-> m.id, restart |-> m.restart, waits |-> TRUE])]
          /\ crossed' = crossed
      BY <2>1, <2>3 DEF ReceiveOffer
    <3>3. QED BY <1>1, <1>3, <2>3, <3>1, <3>2, GivesWayKeeps
  <2>4. CASE ~Ignores(p, pc[p]) /\ ~Collides(pc[p])
    <3>1. /\ pc' = [pc EXCEPT ![p] =
               Then([@ EXCEPT !.answering = FALSE],
                    [op |-> "remote", type |-> "offer", id |-> m.id, restart |-> m.restart, waits |-> TRUE])]
          /\ crossed' = crossed
      BY <2>1, <2>4 DEF ReceiveOffer
    <3>2. QED BY <1>1, <1>3, <2>4, <3>1, TakenKeeps
  <2>5. QED BY <2>2, <2>3, <2>4
<1>4. CASE m.type = "answer"
  <2>1. ReceiveAnswer(p, m) BY <1>1, <1>4
  <2>2. QED BY <1>1, <1>4, <2>1, AnswerComesKeeps
<1>5. CASE m.type = "candidate"
  <2>1. ReceiveCandidate(p, m) BY <1>1, <1>5
  <2>2. QED BY <1>1, <1>5, <2>1, CandidateKeeps
<1>6. QED BY <1>2, <1>3, <1>4, <1>5

\* One of the ends makes an offer.
LEMMA OfferSkeleton ==
  ASSUME NegotiationTyped, Skeleton, NEW p \in Ends, pc[p].sig = "stable",
         At(pc[p].ops, "taken") # {} => At(pc[p].ops, "undo") # {},
         pc'[Other(p)] = pc[Other(p)], pc'[p].sig = "local", pc'[p].agreed = pc[p].agreed,
         \A k \in {"undo", "taken", "heard"} : At(pc'[p].ops, k) = {} <=> At(pc[p].ops, k) = {},
         \A j \in At(pc'[p].ops, "taken") : \E i \in At(pc[p].ops, "taken") : pc'[p].ops[j] = pc[p].ops[i],
         NEW m \in Signals, m.type = "offer", m.id = pc'[p].offer, NEW n \in Signals, n.type = "candidate",
         wire'[p] = wire[p], wire'[Other(p)] = wire[Other(p)] \o <<m, n>>, crossed' = crossed
  PROVE  Skeleton'
<1> DEFINE q == Other(p)
           w == wire[q]
           v == wire'[q]
<1>1. q \in Ends /\ Other(q) = p /\ p # q /\ Ends = {p, q} BY TwoEnds
<1>2. w \in Seq(Signals) BY <1>1 DEF NegotiationTyped
<1>3. /\ \A t \in {"offer", "answer"} : \A i : i \in OnWire(v, t) <=> i \in OnWire(w, t) \/ (i = Len(w) + 1 /\ t = "offer")
      /\ \A i \in DOMAIN w : i \in 1 .. Len(w) /\ v[i] = w[i]
      /\ v[Len(w) + 1] = m /\ Len(w) \in Nat
  <2> DEFINE u == w \o <<m, n>>
  <2>1. /\ \A t \in {"offer", "answer"} : \A i : i \in OnWire(u, t) <=> i \in OnWire(w, t) \/ (i = Len(w) + 1 /\ m.type = t)
        /\ \A i \in DOMAIN w : i \in 1 .. Len(w) /\ u[i] = w[i]
        /\ u[Len(w) + 1] = m /\ Len(w) \in Nat
    <3> HIDE DEF w
    <3>1. QED BY <1>2, OnAppend
  <2>2. v = u OBVIOUS
  <2> HIDE DEF u, v, w
  <2>3. QED BY <2>1, <2>2
<1>4. \A t, i : i \in OnWire(w, t) => i \in 1 .. Len(w) /\ v[i] = w[i]
  <2>1. \A t, i : i \in OnWire(w, t) => i \in DOMAIN w BY DEF OnWire
  <2>2. QED BY <1>3, <2>1
<1>5. OnWire(v, "answer") = OnWire(w, "answer")
  <2>1. \A i : i \in OnWire(v, "answer") <=> i \in OnWire(w, "answer") BY <1>3
  <2>2. QED BY <2>1
<1>6. Len(w) + 1 \in OnWire(v, "offer") /\ \A i \in OnWire(v, "offer") : i \in OnWire(w, "offer") \/ i = Len(w) + 1
  BY <1>3
<1>7. Sent(p) = OnWire(w, "offer") /\ Sent(p)' = OnWire(v, "offer") /\ Sent(q)' = Sent(q) BY <1>1 DEF Sent
<1>8. ~Held(p) /\ ~Taken(p) /\ ~Remote(p) /\ ~Answered(p) /\ ~Heard(p) /\ pc[p].sig # "remote"
  BY DEF Skeleton, InOnePlace, Held
<1>9. /\ ~Taken(p)' /\ ~Remote(p)' /\ ~Answered(p)' /\ ~Heard(p)'
      /\ (Taken(q)' <=> Taken(q)) /\ ~Remote(q)' /\ ~Remote(q) /\ (Answered(q)' <=> Answered(q))
      /\ (Heard(q)' <=> Heard(q))
  BY <1>1, <1>5, <1>8 DEF Taken, Remote, Answered, Heard
<1>10. ~Held(p)' /\ (Held(q)' <=> Held(q)) /\ ~Back(p)' /\ ~Back(p) /\ (Back(q)' <=> Back(q))
  BY <1>8, <1>9 DEF Held, Back
<1> HIDE DEF q, w, v
<1>11. \A o \in Ends : InOnePlace(o)'
  <2>1. AtMostOne(OnWire(wire'[p], "answer")) /\ AtMostOne(OnWire(wire'[q], "answer"))
    BY <1>1, <1>5 DEF Skeleton, InOnePlace, v, w
  <2>2. InOnePlace(p)' BY <1>9, <1>10, <2>1 DEF InOnePlace
  <2>3. pc'[q] = pc[q] BY DEF q
  <2>4. InOnePlace(q)' BY <1>1, <1>9, <1>10, <2>1, <2>3 DEF Skeleton, InOnePlace
  <2>5. QED BY <1>1, <2>2, <2>4
<1>12. \A o \in Ends : Named(o)'
  <2>1. Named(p)' BY <1>1, <1>9 DEF Named, Taken, Answered, Heard
  <2>2. Named(q)'
    <3>1. \A i \in At(pc'[p].ops, "taken") : pc'[p].ops[i].id = pc[q].offer /\ (pc'[p].ops[i].waits \/ crossed)
      BY <1>1 DEF Skeleton, Named
    <3>2. \A i \in OnWire(v, "answer") : v[i].id = pc[q].offer BY <1>1, <1>4, <1>5 DEF Skeleton, Named, w
    <3>3. \A i \in At(pc[q].ops, "heard") : pc[q].ops[i].id = pc[q].offer BY <1>1 DEF Skeleton, Named
    <3>4. pc'[q] = pc[q] /\ wire'[q] = v BY DEF q, v
    <3>5. QED BY <1>1, <1>9, <3>1, <3>2, <3>3, <3>4 DEF Named
  <2>3. QED BY <1>1, <2>1, <2>2
<1>17. Matching'
  <2>1. pc'[q] = pc[q] /\ pc'[p].agreed = pc[p].agreed BY DEF q
  <2>2. Back(q) => pc[p].agreed = pc[q].offer BY <1>1 DEF Skeleton, Matching
  <2>3. ~Back(q) => pc[p].agreed = pc[q].agreed BY <1>1, <1>10, TwoEnds DEF Skeleton, Matching
  <2>4. \A o \in Ends : Back(o)' => pc'[Other(o)].agreed = pc'[o].offer BY <1>1, <1>10, <2>1, <2>2
  <2>5. ~Back(q)' => pc'[p].agreed = pc'[q].agreed BY <1>10, <2>1, <2>3
  <2>6. ~Back(q)' => pc'["polite"].agreed = pc'["impolite"].agreed BY <1>1, <2>5, TwoEnds
  <2>7. QED BY <1>1, <2>4, <2>6 DEF Matching
<1>13. "polite" \in Ends /\ "impolite" \in Ends BY TwoEnds
<1>14. CASE p = "impolite"
  <2>1. q = "polite" BY <1>14, TwoEnds DEF q
  <2>2. OnWire(w, "offer") = {} /\ OnWire(v, "offer") = {Len(w) + 1}
    <3>1. Sent(p) = {} BY <1>14 DEF Skeleton, Firm
    <3>2. QED BY <1>3, <1>6, <1>7, <3>1
  <2>3. ~Taken(q) BY <1>1, <1>14 DEF Skeleton, Firm, Taken
  <2>4. Firm'
    <3>1. \A j \in OnWire(wire'["polite"], "answer") : j < Len(w) + 1
      <4>1. wire'["polite"] = v BY <2>1 DEF v
      <4>2. \A j \in OnWire(w, "answer") : j < Len(w) + 1 BY <1>3, <1>4
      <4>3. QED BY <1>5, <4>1, <4>2
    <3>2. Sent("impolite")' = {Len(w) + 1} BY <1>7, <1>14, <2>2
    <3>3. wire'["polite"][Len(w) + 1].id = pc'["impolite"].offer BY <1>3, <1>14, <2>1 DEF v
    <3>4. At(pc'["impolite"].ops, "undo") = {} BY <1>14 DEF Skeleton, Firm
    <3>5. QED BY <1>9, <1>10, <1>14, <3>1, <3>2, <3>3, <3>4 DEF Firm, AtMostOne
  <2>5. Yielding'
    <3>1. Sent("polite")' = Sent("polite") /\ wire'["impolite"] = wire["impolite"] /\ pc'["polite"] = pc["polite"]
      BY <1>7, <1>14, <2>1 DEF q
    <3>2. \A i : Behind(i)' <=> Behind(i) BY <3>1 DEF Behind
    <3>3. Outbid'
      <4>1. Sent("impolite")' # {} BY <1>7, <1>14, <2>2
      <4>2. QED BY <4>1 DEF Outbid
    <3>4. Sent("polite") # {} => pc["polite"].sig = "local" BY <1>14 DEF Skeleton, Yielding
    <3>5. pc'["impolite"].sig = "local" BY <1>14
    <3>6. \A i, k \in Sent("polite") : i < k => \E j \in OnWire(wire["impolite"], "answer") : i < j /\ j < k
      BY DEF Skeleton, Yielding
    <3>7. \A i \in Sent("polite") : ~Held("polite")
            /\ (Behind(i) \/ wire["impolite"][i].id = pc["polite"].offer)
      BY <3>4 DEF Skeleton, Yielding
    <3>8. ~Held("polite") => ~Held("polite")' BY <1>10, <2>1
    <3>9. ~Back("impolite")' BY <1>10, <1>14
    <3>10. QED BY <3>1, <3>2, <3>3, <3>4, <3>5, <3>6, <3>7, <3>8, <3>9 DEF Yielding
  <2>6. QED BY <1>11, <1>12, <1>17, <2>4, <2>5 DEF Skeleton
<1>15. CASE p = "polite"
  <2>1. q = "impolite" BY <1>15, TwoEnds DEF q
  <2>2. Firm'
    <3>1. Sent("impolite")' = Sent("impolite") /\ wire'["polite"] = wire["polite"]
          /\ pc'["impolite"] = pc["impolite"]
      BY <1>7, <1>15, <2>1 DEF q
    <3>2. (Held("impolite")' <=> Held("impolite")) /\ (Heard("impolite")' <=> Heard("impolite"))
          /\ ~Answered("polite")'
      BY <1>9, <1>10, <1>15, <2>1
    <3>3. QED BY <3>1, <3>2 DEF Skeleton, Firm
  <2>3. Yielding'
    <3>1. Sent("polite") = OnWire(w, "offer") /\ Sent("polite")' = OnWire(v, "offer") /\ wire'["impolite"] = v
          /\ wire["impolite"] = w /\ pc'["impolite"] = pc["impolite"]
      BY <1>7, <1>15, <2>1 DEF v, w, q
    <3>2. \A i : Behind(i)' <=> Behind(i) BY <1>5, <3>1 DEF Behind
    <3>3. ASSUME NEW i \in OnWire(w, "offer") PROVE pc["impolite"].sig = "local" /\ Behind(i)
      <4>1. Stale(i) BY <1>15, <3>1, <3>3 DEF Skeleton, Yielding
      <4>2. ~Remote("impolite") BY <1>9, <2>1
      <4>3. ~(Taken("impolite") /\ At(pc["polite"].ops, "undo") = {})
        BY <1>15, TwoEnds DEF Taken
      <4>4. QED BY <4>1, <4>2, <4>3 DEF Stale
    <3>4. \A i, k \in OnWire(v, "offer") : i < k => \E j \in OnWire(v, "answer") : i < j /\ j < k
      <4>1. SUFFICES ASSUME NEW i \in OnWire(v, "offer"), NEW k \in OnWire(v, "offer"), i < k
                     PROVE  \E j \in OnWire(v, "answer") : i < j /\ j < k
        OBVIOUS
      <4>2. i \in OnWire(w, "offer")
        <5>1. i \in OnWire(w, "offer") \/ i = Len(w) + 1 BY <1>6, <4>1
        <5>2. k \in 1 .. Len(w) + 1 BY <1>3, <1>4, <1>6, <4>1
        <5>3. QED BY <1>3, <4>1, <5>1, <5>2
      <4>3. CASE k \in OnWire(w, "offer")
        <5>1. \E j \in OnWire(w, "answer") : i < j /\ j < k BY <3>1, <4>1, <4>2, <4>3 DEF Skeleton, Yielding
        <5>2. QED BY <1>5, <5>1
      <4>4. CASE k = Len(w) + 1
        <5>1. PICK j \in OnWire(w, "answer") : i < j BY <3>1, <3>3, <4>2 DEF Behind
        <5>2. j < k BY <1>3, <1>4, <4>4, <5>1
        <5>3. QED BY <1>5, <5>1, <5>2
      <4>5. QED BY <1>6, <4>1, <4>3, <4>4
    <3>5. \A i \in OnWire(v, "offer") : Behind(i)' \/ v[i].id = pc'["polite"].offer
      <4>1. SUFFICES ASSUME NEW i \in OnWire(v, "offer"), i \notin OnWire(w, "offer") PROVE v[i].id = pc'["polite"].offer
        BY <3>2, <3>3
      <4>2. i = Len(w) + 1 BY <1>6, <4>1
      <4>3. QED BY <1>3, <1>15, <4>2
    <3>6. \E i \in OnWire(v, "offer") : ~Behind(i)'
      <4>1. ASSUME NEW j \in OnWire(w, "answer") PROVE ~(Len(w) + 1 < j) BY <1>3, <1>4, <4>1
      <4>2. PICK i \in OnWire(v, "offer") : i = Len(w) + 1 BY <1>6
      <4>3. ~Behind(i)' BY <1>5, <3>1, <4>1, <4>2 DEF Behind
      <4>4. QED BY <4>3
    <3>7. pc'["polite"].sig = "local" /\ ~Held("polite")' /\ ~Back("polite")' BY <1>10, <1>15
    <3>8. QED BY <1>6, <3>1, <3>4, <3>5, <3>6, <3>7 DEF Yielding
  <2>4. QED BY <1>11, <1>12, <1>17, <2>2, <2>3 DEF Skeleton
<1>16. QED BY <1>14, <1>15 DEF Ends

\* More offers were made.
LEMMA ChainMore ==
  ASSUME NEW c \in PeerSessions, NEW n \in Nat, Chain(c, n)
  PROVE  Chain(c, n + 1)
<1>1. c.agreed \in Nat /\ c.offer \in Nat BY DEF PeerSessions
<1>2. QED BY <1>1 DEF Chain

LEMMA OffersKeeps ==
  ASSUME NegInv, NEW p \in Ends, pc[p].ops # <<>>, Kind(Head(pc[p].ops)) = "make", pc[p].sig = "stable",
         Offers(p, Popped(pc[p])), crossed' = crossed, kicks' = kicks
  PROVE  NegInv'
<1> DEFINE c == pc[p]
           q == Other(p)
           w == wire[q]
           s == Tail(c.ops)
           d == Popped(c)
           e == [c EXCEPT !.ops = s, !.sig = "local", !.offer = offers + 1, !.offered = c.need, !.making = FALSE]
           m == [type |-> "offer", id |-> offers + 1, restart |-> "restart" \in c.need]
           n == [type |-> "candidate", id |-> offers + 1, restart |-> FALSE]
           v == w \o <<m, n>>
<1>1. /\ c \in PeerSessions /\ Chain(c, offers) /\ c.ops \in Seq(Steps) /\ Ordered(c.ops)
      /\ pc \in [Ends -> PeerSessions] /\ wire \in [Ends -> Seq(Signals)] /\ NegotiationTyped /\ Skeleton
      /\ q \in Ends /\ p # q /\ Ends = {p, q} /\ w \in Seq(Signals) /\ Paired(w) /\ offers \in 0 .. MaxOffers
      /\ Chain(pc[q], offers) /\ pc[q] \in PeerSessions
  <2>1. q \in Ends /\ p # q /\ Ends = {p, q} BY TwoEnds
  <2>2. QED BY <2>1 DEF NegInv, NegotiationTyped, PeerSessions, Chain
<1>2. offers < MaxOffers /\ offers' = offers + 1 BY DEF Offers
<1>3. offers + 1 \in 1 .. MaxOffers /\ offers' \in 0 .. MaxOffers
  BY <1>1, <1>2, NegotiationAssumption DEF NegotiationAssumption
<1>4. m \in Signals /\ n \in Signals BY <1>3 DEF Signals
<1>5. pc' = [pc EXCEPT ![p] = e]
  <2>1. pc' = [pc EXCEPT ![p] = [d EXCEPT !.sig = "local", !.offer = offers + 1, !.offered = d.need, !.making = FALSE]]
    BY DEF Offers
  <2>2. [d EXCEPT !.sig = "local", !.offer = offers + 1, !.offered = d.need, !.making = FALSE] = e
    BY <1>1 DEF Popped, PeerSessions
  <2>3. QED BY <2>1, <2>2
<1>6. wire' = [wire EXCEPT ![q] = v]
  <2>1. d.need = c.need BY <1>1 DEF Popped, PeerSessions
  <2>2. wire' = [wire EXCEPT ![q] = @ \o <<[type |-> "offer", id |-> offers + 1, restart |-> "restart" \in d.need], n>>]
    BY DEF Offers, Signal
  <2>3. QED BY <2>1, <2>2
<1>7. /\ s \in Seq(Steps) /\ Ordered(s)
      /\ \A k : k # "make" => (At(s, k) = {} <=> At(c.ops, k) = {})
      /\ At(s, "make") = {}
      /\ \A k, j : j \in At(s, k) => j + 1 \in At(c.ops, k) /\ s[j] = c.ops[j + 1]
      /\ 1 \in At(c.ops, "make") /\ Head(c.ops) \in Steps
  <2> HIDE DEF c
  <2>1. c.ops # <<>> /\ Kind(Head(c.ops)) = "make" BY DEF c
  <2>2. QED BY <1>1, <2>1, KindTail
<1>8. At(c.ops, "taken") # {} => At(c.ops, "undo") # {}
  <2>1. SUFFICES ASSUME NEW i \in At(c.ops, "taken"), At(c.ops, "undo") = {} PROVE FALSE OBVIOUS
  <2>2. i < 1 /\ i \in Nat \ {0}
    <3>1. i \in Nat \ {0} BY <1>1, <2>1, Positions
    <3>2. QED BY <1>1, <1>7, <2>1, <3>1 DEF Ordered
  <2>3. QED BY <2>2
<1>9. Paired(v) /\ v \in Seq(Signals) /\ \A b : Coming(b, w) => Coming(b, v)
  <2>1. m.type # "candidate" /\ n.type = "candidate" /\ n.id = m.id OBVIOUS
  <2> HIDE DEF m, n, w
  <2>2. Paired(v) BY <1>1, <1>4, <2>1, PairedAppend
  <2>3. v \in Seq(Signals) BY <1>1, <1>4, <2>1, OnAppend
  <2>4. \A b : Coming(b, w) => Coming(b, v) BY <1>1, <1>4, <2>1, ComingLonger
  <2>5. QED BY <2>2, <2>3, <2>4
<1>10. m.type = "offer" /\ m.id = offers + 1 /\ n.type = "candidate" OBVIOUS
<1> HIDE DEF m, n, s, d
<1>11. /\ e \in PeerSessions /\ e.ops = s /\ e.sig = "local" /\ e.offer = offers + 1 /\ e.agreed = c.agreed
       /\ e.answering = c.answering /\ e.has = c.has /\ ~e.making /\ e.fired = c.fired
       /\ e.need = c.need /\ e.queue = c.queue /\ e.added = c.added
  <2>1. offers + 1 \in 0 .. MaxOffers BY <1>3
  <2>2. c.need \in SUBSET {"channels", "restart"} BY <1>1 DEF PeerSessions
  <2>3. e \in PeerSessions
    <3> HIDE DEF c
    <3>1. QED BY <1>1, <1>7, <2>1, <2>2 DEF PeerSessions
  <2> HIDE DEF c
  <2>4. QED BY <1>1, <2>3 DEF PeerSessions
<1> HIDE DEF e
<1>12. pc'[p] = e /\ wire'[p] = wire[p] /\ pc'[q] = pc[q] /\ wire'[q] = v
  BY <1>1, <1>5, <1>6
<1>13. Chain(e, offers')
  <2>1. /\ At(s, "taken") = {} <=> At(c.ops, "taken") = {}
        /\ At(s, "undo") = {} <=> At(c.ops, "undo") = {}
        /\ At(s, "heard") = {} <=> At(c.ops, "heard") = {}
        /\ At(s, "owed") = {} <=> At(c.ops, "owed") = {}
    BY <1>7
  <2>2. At(c.ops, "owed") = {} BY <1>1 DEF Chain
  <2>3. /\ c.agreed = 0 => "channels" \in c.need
        /\ c.answering => At(c.ops, "heard") # {}
        /\ c.agreed > 0 => c.has
        /\ c.agreed <= offers /\ c.agreed \in Nat /\ offers \in Nat
    BY <1>1 DEF Chain, PeerSessions
  <2> HIDE DEF c
  <2>4. QED BY <1>2, <1>7, <1>8, <1>11, <2>1, <2>2, <2>3 DEF Chain
<1>14. NegotiationTyped' BY <1>1, <1>3, <1>5, <1>6, <1>9, <1>11 DEF NegotiationTyped
<1>15. \A o \in Ends : Chain(pc'[o], offers') /\ Paired(wire'[o])
  <2>1. Chain(pc[q], offers') BY <1>1, <1>2, ChainMore
  <2>2. Paired(wire[p]) BY DEF NegInv
  <2>3. QED BY <1>1, <1>9, <1>12, <1>13, <2>1, <2>2
<1>16. Skeleton'
  <2>1. \A k \in {"undo", "taken", "heard"} : At(pc'[p].ops, k) = {} <=> At(pc[p].ops, k) = {}
    BY <1>7, <1>11, <1>12
  <2>2. \A j \in At(pc'[p].ops, "taken") : \E i \in At(pc[p].ops, "taken") : pc'[p].ops[j] = pc[p].ops[i]
    BY <1>7, <1>11, <1>12
  <2>3. pc'[p].sig = "local" /\ pc'[p].agreed = pc[p].agreed /\ m.id = pc'[p].offer BY <1>10, <1>11, <1>12
  <2>4. QED BY <1>1, <1>4, <1>8, <1>10, <1>12, <2>1, <2>2, <2>3, OfferSkeleton
<1>17. ASSUME ~crossed' PROVE \A o \in Ends : Coming(pc'[o], wire'[o])
  <2>1. Coming(c, wire[p]) /\ Coming(pc[q], w) BY <1>1, <1>17 DEF NegInv
  <2>2. Comes(c, wire[p], s)
    <3>1. Head(c.ops).op # "add" BY <1>7, Kinds
    <3>2. c.ops # <<>> /\ Kind(Head(c.ops)) \notin {"taken", "heard"} OBVIOUS
    <3> HIDE DEF c
    <3>3. QED BY <1>1, <2>1, <3>1, <3>2, ComesTail DEF Coming, s
  <2>3. Comes(e, wire[p], s)
    <3>1. c.sig # "remote" OBVIOUS
    <3> HIDE DEF c
    <3>2. QED BY <1>11, <2>2, <3>1 DEF Comes
  <2>4. QED BY <1>1, <1>9, <1>11, <1>12, <2>1, <2>3 DEF Coming
<1>18. QED BY <1>14, <1>15, <1>16, <1>17 DEF NegInv

LEMMA NegotiatesKeeps ==
  ASSUME NegInv, NEW p \in Ends, pc[p].ops # <<>>, Negotiates(p), kicks' = kicks
  PROVE  NegInv'
<1>1. pc[p].ops \in Seq(Steps) /\ Chain(pc[p], offers) BY DEF NegInv, NegotiationTyped, PeerSessions
<1>2. Head(pc[p].ops).op = "negotiate" /\ Offers(p, Popped(pc[p])) /\ crossed' = crossed BY DEF Negotiates
<1>3. Head(pc[p].ops) \in Steps /\ Head(pc[p].ops) = pc[p].ops[1]
      /\ 1 \in At(pc[p].ops, Kind(Head(pc[p].ops)))
  BY <1>1, KindTail
<1>4. Kind(Head(pc[p].ops)) = "make" BY <1>2, <1>3, Kinds
<1>5. pc[p].sig = "stable" BY <1>1, <1>2, <1>3, <1>4 DEF Chain
<1>6. QED BY <1>2, <1>4, <1>5, OffersKeeps

LEMMA SetsOfferKeeps ==
  ASSUME NegInv, NEW p \in Ends, pc[p].ops # <<>>, SetsOffer(p), kicks' = kicks
  PROVE  NegInv'
<1>1. pc[p] \in PeerSessions /\ pc[p].ops \in Seq(Steps) /\ Chain(pc[p], offers)
  BY DEF NegInv, NegotiationTyped, PeerSessions
<1>2. CASE pc[p].sig = "remote" BY <1>2, RefusedKeeps
<1>3. CASE pc[p].sig # "remote"
  <2>1. Head(pc[p].ops).op = "offer" /\ Offers(p, Popped(pc[p])) /\ crossed' = crossed
    BY <1>3 DEF SetsOffer
  <2>2. Head(pc[p].ops) \in Steps /\ 1 \in At(pc[p].ops, Kind(Head(pc[p].ops))) BY <1>1, KindTail
  <2>3. Kind(Head(pc[p].ops)) = "make" BY <2>1, <2>2, Kinds
  <2>4. pc[p].sig # "local" BY <1>1, <2>2, <2>3 DEF Chain
  <2>5. pc[p].sig = "stable" BY <1>1, <1>3, <2>4 DEF PeerSessions
  <2>6. QED BY <2>1, <2>3, <2>5, OffersKeeps
<1>4. QED BY <1>2, <1>3

\* The polite end has given up its own.
LEMMA UndoneSkeleton ==
  ASSUME NegotiationTyped, Skeleton, Chain(pc["impolite"], offers),
         pc'["impolite"] = pc["impolite"], wire' = wire, crossed => crossed',
         pc'["polite"].sig = "stable", pc'["polite"].agreed = pc["polite"].agreed,
         At(pc["polite"].ops, "taken") # {}, At(pc'["polite"].ops, "taken") # {},
         At(pc'["polite"].ops, "undo") = {},
         At(pc["polite"].ops, "heard") = {}, At(pc'["polite"].ops, "heard") = {},
         \A j \in At(pc'["polite"].ops, "taken") : \E i \in At(pc["polite"].ops, "taken") :
           /\ pc'["polite"].ops[j].id = pc["polite"].ops[i].id
           /\ pc["polite"].ops[i].waits \/ crossed => pc'["polite"].ops[j].waits \/ crossed'
  PROVE  Skeleton'
<1>1. "polite" \in Ends /\ "impolite" \in Ends /\ Ends = {"polite", "impolite"}
      /\ Other("polite") = "impolite" /\ Other("impolite") = "polite"
  BY TwoEnds
<1>2. Taken("impolite") /\ Taken("impolite")' /\ ~Heard("polite") BY <1>1 DEF Taken, Heard
<1>3. ~Remote("impolite") /\ ~Answered("impolite") /\ ~Heard("impolite") /\ pc["impolite"].sig = "local"
  BY <1>1, <1>2 DEF Skeleton, InOnePlace, Held
<1>4. ~Taken("polite") /\ ~Remote("polite") /\ ~Answered("polite")
  <2>1. At(pc["impolite"].ops, "undo") = {} BY DEF Skeleton, Firm
  <2>2. ~Taken("polite") BY <1>1, <1>3, <2>1 DEF Chain, Taken
  <2>3. ~Answered("polite") BY <1>2 DEF Skeleton, Firm
  <2>4. QED BY <1>1, <1>3, <2>2, <2>3 DEF Remote
<1>5. /\ Taken("impolite")' /\ ~Remote("impolite")' /\ ~Answered("impolite")' /\ ~Heard("impolite")'
      /\ ~Taken("polite")' /\ ~Remote("polite")' /\ ~Answered("polite")' /\ ~Heard("polite")'
  BY <1>1, <1>2, <1>3, <1>4 DEF Taken, Remote, Answered, Heard
<1>6. Sent("polite")' = Sent("polite") /\ Sent("impolite")' = Sent("impolite") BY DEF Sent
<1>7. \A o \in Ends : InOnePlace(o)'
  <2>1. \A o \in Ends : AtMostOne(OnWire(wire'[o], "answer")) BY DEF Skeleton, InOnePlace
  <2>2. QED BY <1>1, <1>3, <1>5, <2>1 DEF InOnePlace, Held
<1>8. \A o \in Ends : Named(o)'
  <2>1. Named("polite")' BY <1>1, <1>5 DEF Named, Taken, Answered, Heard
  <2>2. Named("impolite")'
    <3>1. \A i \in At(pc["polite"].ops, "taken") :
            pc["polite"].ops[i].id = pc["impolite"].offer /\ (pc["polite"].ops[i].waits \/ crossed)
      BY <1>1 DEF Skeleton, Named
    <3>2. \A j \in At(pc'["polite"].ops, "taken") :
            pc'["polite"].ops[j].id = pc["impolite"].offer /\ (pc'["polite"].ops[j].waits \/ crossed')
      BY <3>1
    <3>3. QED BY <1>1, <1>5, <3>2 DEF Named, Answered, Heard
  <2>3. QED BY <1>1, <2>1, <2>2
<1>9. Firm' BY <1>2, <1>5, <1>6 DEF Skeleton, Firm, Held
<1>10. Yielding'
  <2>1. \A i : Stale(i)' BY <1>3, <1>5 DEF Stale
  <2>2. \A i, k \in Sent("polite") : i < k => \E j \in OnWire(wire["impolite"], "answer") : i < j /\ j < k
    BY DEF Skeleton, Yielding
  <2>3. QED BY <1>3, <1>5, <1>6, <2>1, <2>2 DEF Yielding, Held, Back
<1>11. Matching'
  <2>1. pc["polite"].agreed = pc["impolite"].agreed BY <1>1, <1>2, <1>3, <1>4 DEF Skeleton, Matching, Back
  <2>2. QED BY <1>1, <1>5, <2>1 DEF Matching, Back
<1>12. QED BY <1>7, <1>8, <1>9, <1>10, <1>11 DEF Skeleton

LEMMA RollsBackKeeps ==
  ASSUME NegInv, NEW p \in Ends, pc[p].ops # <<>>, RollsBack(p), kicks' = kicks
  PROVE  NegInv'
<1> DEFINE c == pc["polite"]
           s == Tail(c.ops)
<1>1. "polite" \in Ends /\ "impolite" \in Ends /\ Ends = {"polite", "impolite"}
      /\ Other("polite") = "impolite" /\ Other("impolite") = "polite"
  BY TwoEnds
<1>2. /\ c \in PeerSessions /\ Chain(c, offers) /\ c.ops \in Seq(Steps) /\ Ordered(c.ops)
      /\ pc \in [Ends -> PeerSessions] /\ NegotiationTyped /\ Skeleton
      /\ Chain(pc["impolite"], offers)
  BY <1>1 DEF NegInv, NegotiationTyped, PeerSessions, Chain
<1>3. p = "polite"
  <2>1. SUFFICES ASSUME p = "impolite" PROVE FALSE BY DEF Ends
  <2>2. pc[p].ops \in Seq(Steps) BY <1>2 DEF PeerSessions
  <2>3. Head(pc[p].ops) \in Steps /\ At(pc[p].ops, Kind(Head(pc[p].ops))) # {} BY <2>2, KindTail
  <2>4. Kind(Head(pc[p].ops)) = "undo" BY <2>3, Kinds DEF RollsBack
  <2>5. QED BY <1>2, <2>1, <2>3, <2>4 DEF Skeleton, Firm
<1>4. c.ops # <<>> /\ Head(c.ops).op = "rollback" /\ UNCHANGED <<wire, offers>> BY <1>3 DEF RollsBack
<1>5. /\ s \in Seq(Steps) /\ Ordered(s) /\ Head(c.ops) \in Steps /\ Kind(Head(c.ops)) = "undo"
      /\ \A k : k # "undo" => (At(s, k) = {} <=> At(c.ops, k) = {})
      /\ \A k, j : j \in At(s, k) => j \in Nat \ {0} /\ j + 1 \in At(c.ops, k) /\ s[j] = c.ops[j + 1]
      /\ 1 \in At(c.ops, "undo")
  <2> HIDE DEF c
  <2>1. /\ s \in Seq(Steps) /\ Ordered(s) /\ Head(c.ops) \in Steps
        /\ \A k : k # Kind(Head(c.ops)) => (At(s, k) = {} <=> At(c.ops, k) = {})
        /\ \A k, j : j \in At(s, k) => j \in Nat \ {0} /\ j + 1 \in At(c.ops, k) /\ s[j] = c.ops[j + 1]
        /\ 1 \in At(c.ops, Kind(Head(c.ops)))
    BY <1>2, <1>4, KindTail
  <2>2. Kind(Head(c.ops)) = "undo" BY <1>4, <2>1, Kinds
  <2>3. QED BY <2>1, <2>2
<1>6. At(c.ops, "taken") = {2} /\ At(c.ops, "heard") = {} /\ At(s, "undo") = {} /\ At(s, "taken") = {1}
  <2>1. 1 + 1 \in At(c.ops, "taken") BY <1>2, <1>5 DEF Ordered
  <2>2. At(c.ops, "taken") = {2} BY <1>2, <2>1 DEF Ordered, AtMostOne
  <2>3. \A k, i : i \in At(c.ops, k) => i \in Nat \ {0} BY <1>2, Positions
  <2>4. At(c.ops, "heard") = {}
    <3>1. SUFFICES ASSUME NEW j \in At(c.ops, "heard") PROVE FALSE OBVIOUS
    <3>2. j < 2 /\ j \in Nat \ {0} BY <1>2, <2>2, <2>3 DEF Ordered
    <3>3. j = 1 BY <3>2
    <3>4. QED BY <1>5, <3>1, <3>3 DEF At
  <2>5. At(s, "undo") = {}
    <3>1. SUFFICES ASSUME NEW j \in At(s, "undo") PROVE FALSE OBVIOUS
    <3>2. j \in Nat \ {0} /\ j + 1 \in At(c.ops, "undo") BY <1>5
    <3>3. j + 1 + 1 \in At(c.ops, "taken") BY <1>2, <3>2 DEF Ordered
    <3>4. QED BY <2>2, <3>2, <3>3
  <2>6. At(s, "taken") = {1}
    <3>1. At(s, "taken") # {} BY <1>5, <2>2
    <3>2. \A j \in At(s, "taken") : j = 1
      <4>1. SUFFICES ASSUME NEW j \in At(s, "taken") PROVE j = 1 OBVIOUS
      <4>2. j \in Nat /\ j + 1 = 2 BY <1>5, <2>2
      <4>3. QED BY <4>2
    <3>3. QED BY <3>1, <3>2
  <2>7. QED BY <2>2, <2>4, <2>5, <2>6
<1>7. c.sig \in {"stable", "local"}
  <2>1. Taken("impolite") BY <1>1, <1>6 DEF Taken
  <2>2. c.sig # "remote" BY <1>1, <1>2, <2>1 DEF Skeleton, InOnePlace, Remote
  <2>3. QED BY <1>2, <2>2 DEF PeerSessions
<1>8. kicks' \in 0 .. MaxKicks /\ wire' \in [Ends -> Seq(Signals)] /\ offers' \in 0 .. MaxOffers
      /\ \A o \in Ends : Paired(wire'[o])
  BY <1>2, <1>4 DEF NegotiationTyped, NegInv
<1>9. At(s, "make") = {} <=> At(c.ops, "make") = {} BY <1>5
<1>10. At(s, "owed") = {} <=> At(c.ops, "owed") = {} BY <1>5
<1>11. \A i \in At(s, "make") : s[i].op # "negotiate"
  <2>1. SUFFICES ASSUME NEW i \in At(s, "make"), s[i].op = "negotiate" PROVE FALSE OBVIOUS
  <2>2. i \in Nat \ {0} /\ i + 1 \in At(c.ops, "make") /\ c.ops[i + 1].op = "negotiate" BY <1>5, <2>1
  <2>3. i + 1 = 1 BY <1>2, <2>2 DEF Ordered
  <2>4. QED BY <2>2, <2>3
<1>12. CASE c.sig = "local"
  <2> DEFINE e == [c EXCEPT !.ops = s, !.sig = "stable", !.offer = 0, !.fired = FALSE]
  <2>1. pc' = [pc EXCEPT !["polite"] = e] /\ crossed' = crossed
    <3>1. pc' = [pc EXCEPT !["polite"] = Settled(Popped(c), {})] /\ crossed' = crossed
      BY <1>3, <1>12 DEF RollsBack
    <3>2. Settled(Popped(c), {}) = e
      <4>1. c.need \ {} = c.need OBVIOUS
      <4>2. QED BY <1>2, <4>1 DEF Settled, Popped, PeerSessions
    <3>3. QED BY <3>1, <3>2
  <2> HIDE DEF s
  <2>2. /\ e \in PeerSessions /\ e.ops = s /\ e.sig = "stable" /\ e.offer = 0 /\ e.agreed = c.agreed
        /\ e.answering = c.answering /\ e.has = c.has /\ e.making = c.making /\ ~e.fired
        /\ e.need = c.need /\ e.queue = c.queue /\ e.added = c.added
    <3>1. 0 \in 0 .. MaxOffers BY NegotiationAssumption DEF NegotiationAssumption
    <3>2. QED BY <1>2, <1>5, <3>1 DEF PeerSessions
  <2> HIDE DEF e
  <2>3. Chain(e, offers)
    <3>1. At(c.ops, "owed") = {} BY <1>2, <1>12 DEF Chain
    <3>2. offers \in Nat BY <1>2 DEF NegotiationTyped
    <3>3. /\ c.agreed = 0 => "channels" \in c.need
          /\ ~c.answering /\ (c.agreed > 0 => c.has) /\ c.agreed <= offers
          /\ c.making <=> At(c.ops, "make") # {}
      BY <1>2, <1>6 DEF Chain
    <3>4. QED BY <1>5, <1>6, <1>9, <1>10, <1>11, <2>2, <3>1, <3>2, <3>3 DEF Chain
  <2>4. pc'["polite"] = e /\ pc'["impolite"] = pc["impolite"] BY <1>1, <1>2, <2>1
  <2>5. NegotiationTyped' BY <1>2, <1>8, <2>1, <2>2 DEF NegotiationTyped
  <2>6. \A o \in Ends : Chain(pc'[o], offers') /\ Paired(wire'[o]) BY <1>1, <1>2, <1>4, <1>8, <2>3, <2>4
  <2>7. Skeleton'
    <3>1. \A j \in At(s, "taken") : \E i \in At(c.ops, "taken") :
            /\ s[j].id = c.ops[i].id
            /\ c.ops[i].waits \/ crossed => s[j].waits \/ crossed'
      <4>1. s[1] = c.ops[1 + 1] /\ 1 + 1 \in At(c.ops, "taken") BY <1>5, <1>6
      <4>2. QED BY <1>6, <2>1, <4>1
    <3>2. At(s, "heard") = {} /\ At(s, "taken") # {} /\ At(c.ops, "taken") # {} BY <1>5, <1>6
    <3>3. QED BY <1>2, <1>4, <1>6, <2>1, <2>2, <2>4, <3>1, <3>2, UndoneSkeleton
  <2>8. ASSUME ~crossed' PROVE \A o \in Ends : Coming(pc'[o], wire'[o])
    <3>1. Comes(c, wire["polite"], c.ops) BY <1>1, <2>1, <2>8 DEF NegInv, Coming
    <3>2. Comes(c, wire["polite"], s)
      <4>1. Head(c.ops).op # "add" /\ c.ops # <<>> /\ Kind(Head(c.ops)) \notin {"taken", "heard"}
        BY <1>4, <1>5
      <4> HIDE DEF c
      <4>2. QED BY <1>2, <3>1, <4>1, ComesTail DEF s
    <3>3. Comes(e, wire["polite"], s)
      <4> HIDE DEF c
      <4>1. QED BY <2>2, <3>2 DEF Comes
    <3>4. QED BY <1>1, <1>4, <2>1, <2>2, <2>4, <2>8, <3>3 DEF Coming, NegInv
  <2>9. QED BY <2>5, <2>6, <2>7, <2>8 DEF NegInv
<1>13. CASE c.sig = "stable"
  <2> DEFINE r == [s EXCEPT ![1].waits = FALSE]
             e == [c EXCEPT !.ops = r]
  <2>1. pc' = [pc EXCEPT !["polite"] = e] /\ crossed' = TRUE
    <3>1. pc' = [pc EXCEPT !["polite"] = [Popped(c) EXCEPT !.ops[1].waits = FALSE]] /\ crossed' = TRUE
      BY <1>3, <1>13 DEF RollsBack
    <3>2. [Popped(c) EXCEPT !.ops[1].waits = FALSE] = e BY <1>2 DEF Popped, PeerSessions
    <3>3. QED BY <3>1, <3>2
  <2> HIDE DEF s
  <2>2. s[1] \in Remotes /\ s[1].type = "offer" /\ 1 \in DOMAIN s /\ Len(s) \in Nat /\ DOMAIN s = 1 .. Len(s)
    <3>1. 1 \in At(s, "taken") BY <1>6
    <3>2. 1 \in DOMAIN s /\ Len(s) \in Nat /\ DOMAIN s = 1 .. Len(s) BY <1>5, <3>1, Positions
    <3>3. s[1] \in Steps /\ Kind(s[1]) = "taken" BY <1>5, <3>1, <3>2 DEF At
    <3>4. s[1] \in Remotes BY <3>3, Kinds
    <3>5. QED BY <3>2, <3>3, <3>4, Kinds
  <2>3. r[1] \in Remotes /\ Kind(r[1]) = "taken" /\ r[1].id = s[1].id /\ r \in Seq(Steps) /\ DOMAIN r = DOMAIN s
        /\ \A i \in DOMAIN s : i # 1 => r[i] = s[i]
    <3>1. r = [s EXCEPT ![1] = [s[1] EXCEPT !.waits = FALSE]] OBVIOUS
    <3>2. [s[1] EXCEPT !.waits = FALSE] \in Remotes /\ [s[1] EXCEPT !.waits = FALSE].type = "offer"
          /\ [s[1] EXCEPT !.waits = FALSE].id = s[1].id
      BY <2>2 DEF Remotes
    <3>3. r[1] = [s[1] EXCEPT !.waits = FALSE] BY <1>5, <2>2, <3>1
    <3>4. Kind(r[1]) = "taken" BY <3>2, <3>3, Kinds
    <3>5. [s[1] EXCEPT !.waits = FALSE] \in Steps BY <3>2 DEF Steps
    <3>6. r \in Seq(Steps) /\ DOMAIN r = DOMAIN s /\ \A i \in DOMAIN s : i # 1 => r[i] = s[i]
      BY <1>5, <2>2, <3>1, <3>5
    <3>7. QED BY <3>2, <3>3, <3>4, <3>6
  <2> HIDE DEF r
  <2>4. \A k : At(r, k) = At(s, k) /\ \A i \in At(s, k) : r[i].op = s[i].op /\ (i # 1 => r[i] = s[i])
    <3>1. ASSUME NEW k PROVE At(r, k) = At(s, k)
      <4>1. \A i \in DOMAIN s : Kind(r[i]) = Kind(s[i])
        <5>1. Kind(s[1]) = "taken" BY <1>6 DEF At
        <5>2. QED BY <2>3, <5>1
      <4>2. QED BY <2>3, <4>1 DEF At
    <3>2. r[1].op = s[1].op BY <2>2, <2>3 DEF Remotes
    <3>3. \A k : \A i \in At(s, k) : i \in DOMAIN s BY DEF At
    <3>4. QED BY <2>3, <3>1, <3>2, <3>3
  <2>5. Ordered(r) BY <1>5, <2>4 DEF Ordered
  <2>6. /\ e \in PeerSessions /\ e.ops = r /\ e.sig = "stable" /\ e.offer = c.offer /\ e.agreed = c.agreed
        /\ e.answering = c.answering /\ e.has = c.has /\ e.making = c.making /\ e.fired = c.fired
        /\ e.need = c.need
    BY <1>2, <1>13, <2>3 DEF PeerSessions
  <2> HIDE DEF e
  <2>7. Chain(e, offers)
    <3>1. At(c.ops, "owed") = {} BY <1>2, <1>13 DEF Chain
    <3>2. At(r, "make") = At(s, "make") /\ At(r, "undo") = {} /\ At(r, "owed") = {} BY <1>6, <1>10, <2>4, <3>1
    <3>3. /\ c.agreed = 0 => "channels" \in c.need
          /\ ~c.answering /\ (c.agreed > 0 => c.has) /\ c.agreed <= offers /\ c.offer <= offers
          /\ c.making <=> At(c.ops, "make") # {}
          /\ c.fired => c.making
      BY <1>2, <1>6, <1>13 DEF Chain
    <3>4. QED BY <1>9, <2>5, <2>6, <3>1, <3>2, <3>3 DEF Chain
  <2>8. pc'["polite"] = e /\ pc'["impolite"] = pc["impolite"] BY <1>1, <1>2, <2>1
  <2>9. NegotiationTyped' BY <1>2, <1>8, <2>1, <2>6 DEF NegotiationTyped
  <2>10. \A o \in Ends : Chain(pc'[o], offers') /\ Paired(wire'[o]) BY <1>1, <1>2, <1>4, <1>8, <2>7, <2>8
  <2>11. Skeleton'
    <3>1. \A j \in At(r, "taken") : \E i \in At(c.ops, "taken") : r[j].id = c.ops[i].id
      <4>1. At(r, "taken") = {1} /\ s[1] = c.ops[1 + 1] /\ 1 + 1 \in At(c.ops, "taken") BY <1>5, <1>6, <2>4
      <4>2. QED BY <2>3, <4>1
    <3>2. At(r, "heard") = {} /\ At(r, "taken") # {} /\ At(r, "undo") = {} BY <1>5, <1>6, <2>4
    <3>3. QED BY <1>2, <1>4, <1>6, <2>1, <2>6, <2>8, <3>1, <3>2, UndoneSkeleton
  <2>12. QED BY <2>1, <2>9, <2>10, <2>11 DEF NegInv
<1>14. QED BY <1>7, <1>12, <1>13

\* What flushing the queue does to a chain
LEMMA FlushedOps ==
  ASSUME NEW c \in PeerSessions, NEW next \in {<<>>} \cup {<<r>> : r \in Replies}, Ordered(c.ops),
         next # <<>> => At(c.ops, "owed") = {}
  PROVE  \E t \in Seq(Steps) :
           /\ Flushed(c, next) = [c EXCEPT !.ops = t, !.queue = {}]
           /\ Ordered(t)
           /\ \A k \in {"make", "undo", "taken", "heard"} : At(t, k) = At(c.ops, k)
           /\ \A k \in {"make", "undo", "taken", "heard"} : \A i \in At(t, k) : t[i] = c.ops[i]
           /\ IF next # <<>> THEN At(t, "owed") # {} ELSE At(t, "owed") = At(c.ops, "owed")
           /\ \A n, i : AddedAfter(c.ops, n, i) => AddedAfter(t, n, i)
           /\ \A n, i : i \in 0 .. Len(c.ops) /\ n \in c.queue => AddedAfter(t, n, i)
<1> DEFINE s == c.ops
           t == Flushed(c, next).ops
<1>1. s \in Seq(Steps) /\ c.queue \in SUBSET (1 .. MaxOffers) BY DEF PeerSessions
<1>2. CASE c.queue = {} /\ next = <<>>
  <2>1. t = s /\ Flushed(c, next) = [c EXCEPT !.ops = t, !.queue = {}]
    <3>1. s \o <<>> = s BY <1>1
    <3>2. QED BY <1>2, <3>1 DEF Flushed, PeerSessions
  <2> HIDE DEF t
  <2>2. QED BY <1>1, <1>2, <2>1
<1>3. CASE c.queue = {} /\ next # <<>>
  <2>1. PICK r \in Replies : next = <<r>> BY <1>3
  <2>2. r \in Steps /\ Kind(r) = "owed" /\ r.op = "answer" BY Kinds DEF Steps, Replies
  <2>3. t = Append(s, r) /\ Flushed(c, next) = [c EXCEPT !.ops = t, !.queue = {}]
    <3>1. s \o <<r>> = Append(s, r) BY <1>1, <2>2, AppendIsConcat
    <3>2. QED BY <1>3, <2>1, <3>1 DEF Flushed, PeerSessions
  <2> HIDE DEF t, s
  <2>4. Ordered(Append(s, r)) BY <1>1, <1>3, <2>2, OrderedAppend DEF s
  <2>5. /\ \A k : k # "owed" => At(Append(s, r), k) = At(s, k)
        /\ At(Append(s, r), "owed") # {}
        /\ \A k, i : i \in At(s, k) => Append(s, r)[i] = s[i]
        /\ Append(s, r) \in Seq(Steps)
    BY <1>1, <2>2, KindAppend
  <2>6. \A n, i : AddedAfter(s, n, i) => AddedAfter(Append(s, r), n, i) BY <1>1, <2>2, AddedAppend
  <2>7. t \in Seq(Steps) /\ Ordered(t) /\ At(t, "owed") # {} BY <2>3, <2>4, <2>5
  <2>8. \A k \in {"make", "undo", "taken", "heard"} : At(t, k) = At(s, k) BY <2>3, <2>5
  <2>9. \A k \in {"make", "undo", "taken", "heard"} : \A i \in At(t, k) : t[i] = s[i] BY <2>3, <2>5, <2>8
  <2>10. \A n, i : AddedAfter(s, n, i) => AddedAfter(t, n, i) BY <2>3, <2>6
  <2>11. \A n : n \notin c.queue BY <1>3
  <2>12. QED BY <1>3, <2>3, <2>7, <2>8, <2>9, <2>10, <2>11 DEF s
<1>4. CASE c.queue # {}
  <2> DEFINE o == [op |-> "add", ids |-> c.queue, next |-> next]
  <2>1. o \in Steps /\ Kind(o) = (IF next # <<>> THEN "owed" ELSE "add") /\ o.op = "add" /\ o.ids = c.queue
    <3>1. o \in Additions BY <1>1 DEF Additions
    <3>2. QED BY <3>1, Kinds DEF Steps
  <2>2. t = Append(s, o) /\ Flushed(c, next) = [c EXCEPT !.ops = t, !.queue = {}]
    BY <1>4 DEF Flushed, Then, PeerSessions
  <2> HIDE DEF t, s, o
  <2>3. Ordered(Append(s, o)) BY <1>1, <2>1, OrderedAppend DEF s
  <2>4. /\ \A k : k # Kind(o) => At(Append(s, o), k) = At(s, k)
        /\ At(Append(s, o), Kind(o)) # {}
        /\ \A k, i : i \in At(s, k) => Append(s, o)[i] = s[i]
        /\ Append(s, o) \in Seq(Steps)
    BY <1>1, <2>1, KindAppend
  <2>5. /\ \A n, i : AddedAfter(s, n, i) => AddedAfter(Append(s, o), n, i)
        /\ \A n, i : i \in 0 .. Len(s) /\ o.op = "add" /\ n \in o.ids => AddedAfter(Append(s, o), n, i)
    BY <1>1, <2>1, AddedAppend
  <2>6. IF next # <<>> THEN At(t, "owed") # {} ELSE At(t, "owed") = At(s, "owed") BY <2>1, <2>2, <2>4
  <2>7. /\ \A k \in {"make", "undo", "taken", "heard"} : At(t, k) = At(s, k)
        /\ \A k \in {"make", "undo", "taken", "heard"} : \A i \in At(t, k) : t[i] = s[i]
    <3>1. \A k \in {"make", "undo", "taken", "heard"} : k # Kind(o)
      <4>1. Kind(o) \in {"owed", "add"} BY <2>1
      <4>2. QED BY <4>1
    <3>2. \A k \in {"make", "undo", "taken", "heard"} : At(t, k) = At(s, k) BY <2>2, <2>4, <3>1
    <3>3. QED BY <2>2, <2>4, <3>2
  <2>8. QED BY <2>1, <2>2, <2>3, <2>4, <2>5, <2>6, <2>7 DEF s
<1>5. QED BY <1>2, <1>3, <1>4

-----------------------------------------------------------------------------
\* The answer is set.
LEMMA AnsweredSkeleton ==
  ASSUME NegotiationTyped, Skeleton, NEW p \in Ends, At(pc[p].ops, "heard") # {},
         pc'[Other(p)] = pc[Other(p)], wire' = wire, crossed' = crossed,
         pc'[p].sig = "stable", pc'[p].agreed = pc[p].offer,
         At(pc'[p].ops, "heard") = {},
         \A k \in {"undo", "taken"} : At(pc'[p].ops, k) = {} <=> At(pc[p].ops, k) = {},
         \A j \in At(pc'[p].ops, "taken") : \E i \in At(pc[p].ops, "taken") : pc'[p].ops[j] = pc[p].ops[i]
  PROVE  Skeleton'
<1> DEFINE q == Other(p)
<1>1. q \in Ends /\ Other(q) = p /\ p # q /\ Ends = {p, q} BY TwoEnds
<1>2. Heard(p) /\ ~Taken(p) /\ ~Remote(p) /\ ~Answered(p) /\ pc[p].sig = "local" /\ ~Heard(p)'
  BY DEF Skeleton, InOnePlace, Held, Heard
<1>3. /\ ~Taken(p)' /\ ~Remote(p)' /\ ~Answered(p)' /\ ~Heard(p)'
      /\ (Taken(q)' <=> Taken(q)) /\ ~Remote(q)' /\ ~Remote(q) /\ (Answered(q)' <=> Answered(q))
      /\ (Heard(q)' <=> Heard(q))
  BY <1>1, <1>2 DEF Taken, Remote, Answered, Heard
<1>4. Held(p) /\ Back(p) /\ ~Held(p)' /\ (Held(q)' <=> Held(q)) /\ ~Back(p)' /\ ~Back(q) /\ ~Back(q)'
  <2>1. Back(p) /\ ~Back(q) BY <1>1, <1>2, TwoEnds DEF Skeleton, Yielding, Back
  <2>2. QED BY <1>2, <1>3, <2>1 DEF Held, Back
<1>5. pc'[q] = pc[q] OBVIOUS
<1>6. Sent("polite")' = Sent("polite") /\ Sent("impolite")' = Sent("impolite") /\ \A i : Behind(i)' <=> Behind(i)
  BY DEF Sent, Behind
<1> HIDE DEF q
<1>7. \A o \in Ends : InOnePlace(o)'
  <2>1. \A o \in Ends : AtMostOne(OnWire(wire'[o], "answer")) BY DEF Skeleton, InOnePlace
  <2>2. QED BY <1>1, <1>3, <1>4, <1>5, <2>1 DEF Skeleton, InOnePlace
<1>8. \A o \in Ends : Named(o)'
  <2>1. Named(p)' BY <1>3 DEF Named, Taken, Answered, Heard
  <2>2. Named(q)'
    <3>1. \A i \in At(pc'[p].ops, "taken") : pc'[p].ops[i].id = pc[q].offer /\ (pc'[p].ops[i].waits \/ crossed)
      BY <1>1 DEF Skeleton, Named
    <3>2. \A i \in OnWire(wire[q], "answer") : wire[q][i].id = pc[q].offer BY <1>1 DEF Skeleton, Named
    <3>3. \A i \in At(pc[q].ops, "heard") : pc[q].ops[i].id = pc[q].offer BY <1>1 DEF Skeleton, Named
    <3>4. QED BY <1>1, <1>3, <1>5, <3>1, <3>2, <3>3 DEF Named
  <2>3. QED BY <1>1, <2>1, <2>2
<1>9. Matching'
  <2>1. pc'[p].agreed = pc[q].agreed BY <1>1, <1>4 DEF Skeleton, Matching, q
  <2>2. pc'["polite"].agreed = pc'["impolite"].agreed BY <1>1, <1>5, <2>1, TwoEnds
  <2>3. QED BY <1>1, <1>4, <2>2 DEF Matching
<1>10. CASE p = "impolite"
  <2>1. q = "polite" BY <1>10, TwoEnds DEF q
  <2>2. Firm'
    <3>1. Sent("impolite") = {} BY <1>4, <1>10 DEF Skeleton, Firm
    <3>2. QED BY <1>3, <1>6, <1>10, <3>1 DEF Skeleton, Firm, AtMostOne
  <2>3. Yielding'
    <3>1. ASSUME NEW i \in Sent("polite") PROVE pc["polite"].sig = "local"
      <4>1. SUFFICES ASSUME Stale(i) PROVE FALSE BY <3>1 DEF Skeleton, Yielding
      <4>2. ~Behind(i) BY <1>2, <1>10 DEF Behind, Answered
      <4>3. QED BY <1>2, <1>10, <4>1, <4>2 DEF Stale
    <3>2. pc["polite"].sig = "local" /\ ~Held("polite") /\ (\A i \in Sent("polite") : Behind(i)) => crossed
      <4>1. ~Taken("impolite") /\ Sent("impolite") = {} /\ pc["impolite"].sig = "local"
        BY <1>2, <1>4, <1>10 DEF Skeleton, Firm
      <4>2. QED BY <4>1 DEF Skeleton, Yielding, Outbid
    <3>3. crossed => Outbid' BY DEF Outbid
    <3>4. (Held("polite")' <=> Held("polite")) /\ ~Back("impolite")' /\ pc'["polite"] = pc["polite"]
      BY <1>4, <1>5, <1>10, <2>1
    <3>5. QED BY <1>6, <3>1, <3>2, <3>3, <3>4 DEF Skeleton, Yielding
  <2>4. QED BY <1>7, <1>8, <1>9, <2>2, <2>3 DEF Skeleton
<1>11. CASE p = "polite"
  <2>1. q = "impolite" BY <1>11, TwoEnds DEF q
  <2>2. Firm' BY <1>3, <1>4, <1>5, <1>6, <1>11, <2>1 DEF Skeleton, Firm
  <2>3. Yielding'
    <3>1. Sent("polite") = {} BY <1>4, <1>11 DEF Skeleton, Yielding
    <3>2. QED BY <1>4, <1>6, <1>11, <3>1 DEF Yielding
  <2>4. QED BY <1>7, <1>8, <1>9, <2>2, <2>3 DEF Skeleton
<1>12. QED BY <1>10, <1>11 DEF Ends

\* Their offer is set.
LEMMA PendingSkeleton ==
  ASSUME NegotiationTyped, Skeleton, NEW p \in Ends, NEW i \in At(pc[p].ops, "taken"), pc[p].sig = "stable",
         At(pc[p].ops, "undo") = {},
         pc'[Other(p)] = pc[Other(p)], wire' = wire, crossed' = crossed,
         pc'[p].sig = "remote", pc'[p].agreed = pc[p].agreed, pc'[p].offer = pc[p].ops[i].id,
         At(pc'[p].ops, "heard") = {}, At(pc'[p].ops, "undo") = {}, At(pc'[p].ops, "taken") = {},
         At(pc'[p].ops, "owed") # {} \/ ~pc[p].ops[i].waits
  PROVE  Skeleton'
<1> DEFINE q == Other(p)
<1>1. q \in Ends /\ Other(q) = p /\ p # q /\ Ends = {p, q} BY TwoEnds
<1>2. Taken(q) /\ ~Remote(q) /\ ~Answered(q) /\ ~Heard(q) /\ pc[q].sig = "local"
  BY <1>1 DEF Skeleton, InOnePlace, Held, Taken
<1>3. ~Held(p) /\ ~Taken(p) /\ ~Remote(p) /\ ~Answered(p) /\ ~Heard(p)
  BY DEF Skeleton, InOnePlace, Held
<1>4. /\ ~Taken(p)' /\ ~Remote(p)' /\ ~Answered(p)' /\ ~Heard(p)'
      /\ ~Taken(q)' /\ Remote(q)' /\ ~Answered(q)' /\ ~Heard(q)'
  BY <1>1, <1>2, <1>3 DEF Taken, Remote, Answered, Heard
<1>5. Held(q) /\ Held(q)' /\ ~Held(p)' /\ \A o \in Ends : ~Back(o) /\ ~Back(o)'
  BY <1>1, <1>2, <1>3, <1>4 DEF Held, Back
<1>6. pc'[q] = pc[q] OBVIOUS
<1>7. Sent("polite")' = Sent("polite") /\ Sent("impolite")' = Sent("impolite") /\ \A k : Behind(k)' <=> Behind(k)
  BY DEF Sent, Behind
<1>8. pc'[p].offer = pc[q].offer /\ (At(pc'[p].ops, "owed") # {} \/ crossed)
  BY <1>1 DEF Skeleton, Named
<1> HIDE DEF q
<1>9. \A o \in Ends : InOnePlace(o)'
  <2>1. \A o \in Ends : AtMostOne(OnWire(wire'[o], "answer")) BY DEF Skeleton, InOnePlace
  <2>2. InOnePlace(q)' BY <1>1, <1>2, <1>4, <1>6, <2>1 DEF InOnePlace
  <2>3. InOnePlace(p)' BY <1>1, <1>4, <1>5, <2>1 DEF InOnePlace
  <2>4. QED BY <1>1, <2>2, <2>3
<1>10. \A o \in Ends : Named(o)'
  <2>1. Named(p)' BY <1>4 DEF Named, Taken, Answered, Heard
  <2>2. Named(q)' BY <1>1, <1>4, <1>6, <1>8 DEF Named, Taken, Answered, Heard
  <2>3. QED BY <1>1, <2>1, <2>2
<1>11. Matching'
  <2>1. pc["polite"].agreed = pc["impolite"].agreed BY <1>5 DEF Skeleton, Matching
  <2>2. pc'["polite"].agreed = pc["polite"].agreed /\ pc'["impolite"].agreed = pc["impolite"].agreed
    BY <1>1, <1>6, TwoEnds
  <2>3. QED BY <1>5, <2>1, <2>2 DEF Matching
<1>12. CASE p = "impolite"
  <2>1. q = "polite" BY <1>12, TwoEnds DEF q
  <2>2. Sent("impolite") = {} BY <1>12 DEF Skeleton, Firm
  <2>3. Firm' BY <1>4, <1>7, <1>12, <2>2 DEF Firm, AtMostOne
  <2>4. Sent("polite") = {} BY <1>5, <2>1 DEF Skeleton, Yielding
  <2>5. Yielding' BY <1>5, <1>7, <2>1, <2>4, TwoEnds DEF Yielding
  <2>6. QED BY <1>9, <1>10, <1>11, <2>3, <2>5 DEF Skeleton
<1>13. CASE p = "polite"
  <2>1. q = "impolite" BY <1>13, TwoEnds DEF q
  <2>2. Sent("impolite") = {} BY <1>5, <2>1 DEF Skeleton, Firm
  <2>3. Firm' BY <1>2, <1>4, <1>5, <1>6, <1>7, <2>1, <2>2 DEF Skeleton, Firm, AtMostOne
  <2>4. \A k : Stale(k)' BY <1>2, <1>4, <1>6, <2>1 DEF Stale
  <2>5. \A k, l \in Sent("polite") : k < l => \E j \in OnWire(wire["impolite"], "answer") : k < j /\ j < l
    BY DEF Skeleton, Yielding
  <2>6. pc'["polite"].sig = "remote" /\ ~Held("polite")' /\ ~Back("polite")' /\ pc'["impolite"].sig = "local"
    BY <1>1, <1>2, <1>5, <1>6, <1>13, <2>1
  <2>7. Yielding' BY <1>7, <2>4, <2>5, <2>6 DEF Yielding
  <2>8. QED BY <1>9, <1>10, <1>11, <2>3, <2>7 DEF Skeleton
<1>14. QED BY <1>12, <1>13 DEF Ends

LEMMA AnswerSetKeeps ==
  ASSUME NegInv, NEW p \in Ends, pc[p].ops # <<>>, SetsRemote(p), Head(pc[p].ops).type = "answer", kicks' = kicks
  PROVE  NegInv'
<1> DEFINE b == pc[p]
           m == Head(b.ops)
           s == Tail(b.ops)
           a == [b EXCEPT !.ops = s, !.answering = FALSE, !.sig = "stable", !.offer = 0, !.fired = FALSE,
                          !.need = b.need \ b.offered, !.agreed = m.id, !.has = TRUE]
           e == Flushed(a, <<>>)
<1>1. /\ b \in PeerSessions /\ Chain(b, offers) /\ b.ops \in Seq(Steps) /\ Ordered(b.ops)
      /\ pc \in [Ends -> PeerSessions] /\ NegotiationTyped /\ Skeleton /\ b.ops # <<>>
      /\ m.op = "remote" /\ m.type = "answer" /\ UNCHANGED <<wire, offers, crossed>>
  BY DEF NegInv, NegotiationTyped, PeerSessions, Chain, SetsRemote
<1>2. /\ s \in Seq(Steps) /\ Ordered(s) /\ m \in Steps /\ Kind(m) = "heard" /\ m \in Remotes
      /\ \A k : k # "heard" => (At(s, k) = {} <=> At(b.ops, k) = {})
      /\ At(s, "heard") = {} /\ 1 \in At(b.ops, "heard") /\ b.ops[1] = m
      /\ \A k, j : j \in At(s, k) => j \in Nat \ {0} /\ j + 1 \in At(b.ops, k) /\ s[j] = b.ops[j + 1]
  <2> HIDE DEF b
  <2>1. /\ s \in Seq(Steps) /\ Ordered(s) /\ m \in Steps
        /\ \A k : k # Kind(m) => (At(s, k) = {} <=> At(b.ops, k) = {})
        /\ Kind(m) \in {"make", "taken", "heard", "owed"} => At(s, Kind(m)) = {}
        /\ 1 \in At(b.ops, Kind(m)) /\ b.ops[1] = m
        /\ \A k, j : j \in At(s, k) => j \in Nat \ {0} /\ j + 1 \in At(b.ops, k) /\ s[j] = b.ops[j + 1]
    BY <1>1, KindTail
  <2> HIDE DEF m, s
  <2>2. m \in Remotes BY <1>1, <2>1, Kinds
  <2>3. Kind(m) = "heard" BY <1>1, <2>2, Kinds
  <2>4. QED BY <2>1, <2>2, <2>3
<1>3. b.sig = "local" /\ m.id = b.offer
  <2>1. Heard(p) BY <1>2 DEF Heard
  <2>2. QED BY <1>1, <1>2, <2>1 DEF Skeleton, InOnePlace, Held, Named
<1>4. pc' = [pc EXCEPT ![p] = e]
  <2> DEFINE c == [Popped(b) EXCEPT !.answering = FALSE]
             answered == [Settled(c, c.offered) EXCEPT !.agreed = m.id, !.has = TRUE]
  <2>1. c.sig = "local" BY <1>1, <1>3 DEF Popped, PeerSessions
  <2>2. pc' = [pc EXCEPT ![p] = Flushed(answered, <<>>)]
    <3>1. pc' = [pc EXCEPT ![p] = IF c.sig = "local" THEN Flushed(answered, <<>>) ELSE c]
      BY <1>1 DEF SetsRemote
    <3> HIDE DEF c, answered
    <3>2. QED BY <2>1, <3>1
  <2>3. answered = a BY <1>1 DEF Settled, Popped, PeerSessions
  <2>4. QED BY <2>2, <2>3
<1>5. /\ a \in PeerSessions /\ a.ops = s /\ a.sig = "stable" /\ a.offer = 0 /\ a.agreed = b.offer /\ a.has
      /\ ~a.answering /\ a.making = b.making /\ ~a.fired /\ a.queue = b.queue /\ a.added = b.added
  <2>1. 0 \in 0 .. MaxOffers BY NegotiationAssumption DEF NegotiationAssumption
  <2>2. m.id \in 0 .. MaxOffers BY <1>1, <1>3 DEF PeerSessions
  <2>3. b.need \ b.offered \in SUBSET {"channels", "restart"} BY <1>1 DEF PeerSessions
  <2> HIDE DEF s, m
  <2>4. a \in PeerSessions BY <1>1, <1>2, <2>1, <2>2, <2>3 DEF PeerSessions
  <2>5. QED BY <1>1, <1>3, <2>4 DEF PeerSessions
<1> HIDE DEF a, m
<1>6. PICK t \in Seq(Steps) :
        /\ e = [a EXCEPT !.ops = t, !.queue = {}]
        /\ Ordered(t)
        /\ \A k \in {"make", "undo", "taken", "heard"} : At(t, k) = At(s, k)
        /\ \A k \in {"make", "undo", "taken", "heard"} : \A i \in At(t, k) : t[i] = s[i]
        /\ At(t, "owed") = At(s, "owed")
        /\ \A n, i : AddedAfter(s, n, i) => AddedAfter(t, n, i)
        /\ \A n, i : i \in 0 .. Len(s) /\ n \in b.queue => AddedAfter(t, n, i)
  <2> HIDE DEF s
  <2>1. <<>> \in {<<>>} \cup {<<r>> : r \in Replies} OBVIOUS
  <2>2. Ordered(a.ops) BY <1>2, <1>5
  <2>3. \E t \in Seq(Steps) :
           /\ Flushed(a, <<>>) = [a EXCEPT !.ops = t, !.queue = {}]
           /\ Ordered(t)
           /\ \A k \in {"make", "undo", "taken", "heard"} : At(t, k) = At(a.ops, k)
           /\ \A k \in {"make", "undo", "taken", "heard"} : \A i \in At(t, k) : t[i] = a.ops[i]
           /\ IF <<>> # <<>> THEN At(t, "owed") # {} ELSE At(t, "owed") = At(a.ops, "owed")
           /\ \A n, i : AddedAfter(a.ops, n, i) => AddedAfter(t, n, i)
           /\ \A n, i : i \in 0 .. Len(a.ops) /\ n \in a.queue => AddedAfter(t, n, i)
    BY <1>5, <2>1, <2>2, FlushedOps
  <2>4. QED BY <1>5, <2>3
<1> HIDE DEF e
<1>7. /\ e \in PeerSessions /\ e.ops = t /\ e.sig = "stable" /\ e.offer = 0 /\ e.agreed = b.offer /\ e.has
      /\ ~e.answering /\ e.making = b.making /\ ~e.fired /\ e.queue = {} /\ e.added = b.added
  <2>1. e \in PeerSessions BY <1>5, <1>6 DEF PeerSessions
  <2>2. QED BY <1>5, <1>6, <2>1 DEF PeerSessions
<1>8. pc'[p] = e /\ \A o \in Ends \ {p} : pc'[o] = pc[o] BY <1>1, <1>4
<1>9. At(t, "make") = {} /\ At(t, "owed") = {} /\ At(t, "heard") = {}
  <2>1. At(b.ops, "make") = {} /\ At(b.ops, "owed") = {} BY <1>1, <1>3 DEF Chain
  <2>2. QED BY <1>2, <1>6, <2>1
<1>10. Chain(e, offers)
  <2>1. ~b.making BY <1>1, <1>3 DEF Chain
  <2>2. b.offer > 0 /\ b.offer <= offers /\ b.offer \in Nat /\ offers \in Nat
    BY <1>1, <1>3 DEF Chain, PeerSessions, NegotiationTyped
  <2> HIDE DEF b
  <2>3. QED BY <1>6, <1>7, <1>9, <2>1, <2>2 DEF Chain
<1>11. NegotiationTyped' BY <1>1, <1>4, <1>7 DEF NegotiationTyped
<1>12. \A o \in Ends : Chain(pc'[o], offers') /\ Paired(wire'[o]) BY <1>1, <1>8, <1>10 DEF NegInv
<1>13. \A k \in {"taken", "heard", "undo"} : \A j : j \in At(t, k) => j \in Nat \ {0} /\ j + 1 \in At(b.ops, k)
  BY <1>2, <1>6
<1>14. \A k \in {"taken", "heard"} : \A j : j \in At(t, k) => t[j] = b.ops[j + 1] BY <1>2, <1>6
<1>15. Skeleton'
  <2>1. pc'[Other(p)] = pc[Other(p)] BY <1>8, TwoEnds
  <2>2. At(b.ops, "heard") # {} BY <1>2
  <2>3. \A k \in {"undo", "taken"} : At(t, k) = {} <=> At(b.ops, k) = {} BY <1>2, <1>6
  <2>4. \A j \in At(t, "taken") : \E i \in At(b.ops, "taken") : t[j] = b.ops[i] BY <1>13, <1>14
  <2>5. QED BY <1>1, <1>7, <1>8, <1>9, <2>1, <2>2, <2>3, <2>4, AnsweredSkeleton
<1>16. ASSUME ~crossed' PROVE \A o \in Ends : Coming(pc'[o], wire'[o])
  <2> DEFINE w == wire[p]
  <2>1. Comes(b, w, b.ops) BY <1>1, <1>16 DEF NegInv, Coming
  <2>2. \A n : \A i \in Nat : AddedAfter(b.ops, n, i + 1) => AddedAfter(s, n, i)
    <3> HIDE DEF b
    <3>1. QED BY <1>1, AddedTail
  <2>3. Len(s) \in Nat BY <1>2
  <2> HIDE DEF w
  <2>4. ASSUME NEW i \in At(t, "taken") PROVE Next1(w, t[i].id) \/ AddedAfter(t, t[i].id, i)
    <3>1. i \in Nat /\ i + 1 \in At(b.ops, "taken") /\ t[i] = b.ops[i + 1] BY <1>13, <1>14
    <3>2. Next1(w, t[i].id) \/ t[i].id \in b.queue \/ AddedAfter(b.ops, t[i].id, i + 1)
      BY <2>1, <3>1 DEF Comes
    <3>3. i \in 0 .. Len(s)
      <4>1. i \in At(s, "taken") BY <1>6, <2>4
      <4>2. i \in 1 .. Len(s) BY <1>2, <4>1, Positions
      <4>3. QED BY <2>3, <4>2
    <3>4. QED BY <1>6, <2>2, <3>1, <3>2, <3>3
  <2>5. Next1(w, b.offer) \/ AddedAfter(t, b.offer, 0)
    <3>1. Next1(w, m.id) \/ m.id \in b.queue \/ AddedAfter(b.ops, m.id, 0 + 1) BY <1>2, <2>1 DEF Comes
    <3>2. 0 \in 0 .. Len(s) /\ 0 \in Nat BY <2>3
    <3>3. QED BY <1>3, <1>6, <2>2, <3>1, <3>2
  <2>6. Comes(e, w, t) BY <1>7, <1>9, <2>4, <2>5 DEF Comes
  <2>7. QED BY <1>1, <1>7, <1>8, <1>16, <2>6 DEF Coming, NegInv, w
<1>17. QED BY <1>11, <1>12, <1>15, <1>16 DEF NegInv

LEMMA OfferSetKeeps ==
  ASSUME NegInv, NEW p \in Ends, pc[p].ops # <<>>, SetsRemote(p), Head(pc[p].ops).type = "offer", kicks' = kicks
  PROVE  NegInv'
<1> DEFINE b == pc[p]
           m == Head(b.ops)
           s == Tail(b.ops)
           a == [b EXCEPT !.ops = s, !.answering = FALSE, !.sig = "remote", !.offer = m.id, !.has = TRUE]
           next == <<[op |-> "answer", restart |-> m.restart]>>
           e == IF m.waits THEN Flushed(a, next) ELSE a
<1>1. /\ b \in PeerSessions /\ Chain(b, offers) /\ b.ops \in Seq(Steps) /\ Ordered(b.ops)
      /\ pc \in [Ends -> PeerSessions] /\ NegotiationTyped /\ Skeleton /\ b.ops # <<>>
      /\ m.op = "remote" /\ m.type = "offer" /\ UNCHANGED <<wire, offers, crossed>>
  BY DEF NegInv, NegotiationTyped, PeerSessions, Chain, SetsRemote
<1>2. /\ s \in Seq(Steps) /\ Ordered(s) /\ m \in Steps /\ Kind(m) = "taken" /\ m \in Remotes
      /\ \A k : k # "taken" => (At(s, k) = {} <=> At(b.ops, k) = {})
      /\ At(s, "taken") = {} /\ 1 \in At(b.ops, "taken") /\ b.ops[1] = m
      /\ \A k, j : j \in At(s, k) => j \in Nat \ {0} /\ j + 1 \in At(b.ops, k) /\ s[j] = b.ops[j + 1]
  <2> HIDE DEF b
  <2>1. /\ s \in Seq(Steps) /\ Ordered(s) /\ m \in Steps
        /\ \A k : k # Kind(m) => (At(s, k) = {} <=> At(b.ops, k) = {})
        /\ Kind(m) \in {"make", "taken", "heard", "owed"} => At(s, Kind(m)) = {}
        /\ 1 \in At(b.ops, Kind(m)) /\ b.ops[1] = m
        /\ \A k, j : j \in At(s, k) => j \in Nat \ {0} /\ j + 1 \in At(b.ops, k) /\ s[j] = b.ops[j + 1]
    BY <1>1, KindTail
  <2> HIDE DEF m, s
  <2>2. m \in Remotes BY <1>1, <2>1, Kinds
  <2>3. Kind(m) = "taken" BY <1>1, <2>2, Kinds
  <2>4. QED BY <2>1, <2>2, <2>3
<1>3. At(b.ops, "undo") = {} /\ At(b.ops, "heard") = {} /\ b.sig = "stable" /\ At(b.ops, "owed") = {}
  <2>1. \A k, i : i \in At(b.ops, k) => i \in Nat \ {0} BY <1>1, Positions
  <2>2. At(b.ops, "undo") = {}
    <3>1. SUFFICES ASSUME NEW i \in At(b.ops, "undo") PROVE FALSE OBVIOUS
    <3>2. i + 1 \in At(b.ops, "taken") /\ i \in Nat \ {0} BY <1>1, <2>1 DEF Ordered
    <3>3. i + 1 = 1 BY <1>1, <1>2, <3>2 DEF Ordered, AtMostOne
    <3>4. QED BY <3>2, <3>3
  <2>3. At(b.ops, "heard") = {}
    <3>1. SUFFICES ASSUME NEW i \in At(b.ops, "heard") PROVE FALSE OBVIOUS
    <3>2. i < 1 /\ i \in Nat \ {0} BY <1>1, <1>2, <2>1 DEF Ordered
    <3>3. QED BY <3>2
  <2>4. b.sig = "stable" BY <1>1, <1>2, <2>2 DEF Chain
  <2>5. QED BY <1>1, <2>2, <2>3, <2>4 DEF Chain
<1>4. pc' = [pc EXCEPT ![p] = e]
  <2> DEFINE c == [Popped(b) EXCEPT !.answering = FALSE]
             theirs == [c EXCEPT !.sig = "remote", !.offer = m.id, !.has = TRUE]
  <2>1. pc' = [pc EXCEPT ![p] = IF m.waits THEN Flushed(theirs, next) ELSE theirs]
    BY <1>1 DEF SetsRemote
  <2>2. theirs = a BY <1>1 DEF Popped, PeerSessions
  <2> HIDE DEF theirs, a
  <2>3. QED BY <2>1, <2>2
<1>5. m.id \in 1 .. MaxOffers /\ m.restart \in BOOLEAN /\ m.waits \in BOOLEAN
  <2> HIDE DEF m
  <2>1. QED BY <1>2 DEF Remotes
<1>6. /\ a \in PeerSessions /\ a.ops = s /\ a.sig = "remote" /\ a.offer = m.id /\ a.agreed = b.agreed /\ a.has
      /\ ~a.answering /\ a.making = b.making /\ a.fired = b.fired /\ a.queue = b.queue /\ a.added = b.added
      /\ a.need = b.need
  <2>1. m.id \in 0 .. MaxOffers BY <1>5
  <2> HIDE DEF s, m
  <2>2. a \in PeerSessions BY <1>1, <1>2, <2>1 DEF PeerSessions
  <2>3. QED BY <1>1, <2>2 DEF PeerSessions
<1> HIDE DEF a, m
<1>7. /\ e \in PeerSessions /\ e.sig = "remote" /\ e.offer = m.id /\ e.agreed = b.agreed /\ e.has
      /\ ~e.answering /\ e.making = b.making /\ e.fired = b.fired /\ e.added = b.added /\ e.need = b.need
      /\ Ordered(e.ops)
      /\ \A k \in {"make", "undo", "taken", "heard"} : At(e.ops, k) = At(s, k)
      /\ \A k \in {"make", "undo", "taken", "heard"} : \A i \in At(e.ops, k) : e.ops[i] = s[i]
      /\ At(e.ops, "owed") # {} \/ ~m.waits
      /\ \A n, i : AddedAfter(s, n, i) => AddedAfter(e.ops, n, i)
      /\ m.waits => \A n, i : i \in 0 .. Len(s) /\ n \in b.queue => AddedAfter(e.ops, n, i)
  <2>1. CASE ~m.waits
    <3>1. e = a BY <2>1
    <3> HIDE DEF s, e
    <3>2. QED BY <1>2, <1>6, <2>1, <3>1
  <2>2. CASE m.waits
    <3>1. e = Flushed(a, next) /\ next # <<>> BY <2>2
    <3>2. next \in {<<>>} \cup {<<r>> : r \in Replies} BY <1>5 DEF Replies
    <3>3. At(s, "owed") = {} BY <1>2, <1>3
    <3> HIDE DEF s, e, next
    <3>4. Ordered(a.ops) /\ At(a.ops, "owed") = {} BY <1>2, <1>6, <3>3
    <3>5. \E t \in Seq(Steps) :
            /\ Flushed(a, next) = [a EXCEPT !.ops = t, !.queue = {}]
            /\ Ordered(t)
            /\ \A k \in {"make", "undo", "taken", "heard"} : At(t, k) = At(a.ops, k)
            /\ \A k \in {"make", "undo", "taken", "heard"} : \A i \in At(t, k) : t[i] = a.ops[i]
            /\ IF next # <<>> THEN At(t, "owed") # {} ELSE At(t, "owed") = At(a.ops, "owed")
            /\ \A n, i : AddedAfter(a.ops, n, i) => AddedAfter(t, n, i)
            /\ \A n, i : i \in 0 .. Len(a.ops) /\ n \in a.queue => AddedAfter(t, n, i)
      BY <1>6, <3>2, <3>4, FlushedOps
    <3>6. PICK t \in Seq(Steps) :
            /\ e = [a EXCEPT !.ops = t, !.queue = {}]
            /\ Ordered(t)
            /\ \A k \in {"make", "undo", "taken", "heard"} : At(t, k) = At(s, k)
            /\ \A k \in {"make", "undo", "taken", "heard"} : \A i \in At(t, k) : t[i] = s[i]
            /\ At(t, "owed") # {}
            /\ \A n, i : AddedAfter(s, n, i) => AddedAfter(t, n, i)
            /\ \A n, i : i \in 0 .. Len(s) /\ n \in b.queue => AddedAfter(t, n, i)
      BY <1>6, <3>1, <3>5
    <3>7. e \in PeerSessions BY <1>6, <3>6 DEF PeerSessions
    <3>8. /\ e.ops = t /\ e.sig = "remote" /\ e.offer = m.id /\ e.agreed = b.agreed /\ e.has
          /\ ~e.answering /\ e.making = b.making /\ e.fired = b.fired /\ e.added = b.added /\ e.need = b.need
      BY <1>6, <3>6, <3>7 DEF PeerSessions
    <3>9. QED BY <3>6, <3>7, <3>8
  <2>3. QED BY <2>1, <2>2
<1> HIDE DEF e
<1>8. pc'[p] = e /\ \A o \in Ends \ {p} : pc'[o] = pc[o] BY <1>1, <1>4
<1>9. At(e.ops, "undo") = {} /\ At(e.ops, "taken") = {} /\ At(e.ops, "heard") = {} BY <1>2, <1>3, <1>7
<1>10. m.id = pc[Other(p)].offer /\ (m.waits \/ crossed) /\ Other(p) \in Ends
  <2>1. Other(p) \in Ends /\ Other(Other(p)) = p BY TwoEnds
  <2>2. Named(Other(p)) BY <1>1, <2>1 DEF Skeleton
  <2>3. QED BY <1>2, <2>1, <2>2 DEF Named
<1>11. Chain(e, offers)
  <2>1. \A i \in At(e.ops, "make") : e.ops[i].op # "negotiate"
    <3>1. SUFFICES ASSUME NEW i \in At(e.ops, "make"), e.ops[i].op = "negotiate" PROVE FALSE OBVIOUS
    <3>2. i \in At(s, "make") /\ s[i].op = "negotiate" BY <1>7, <3>1
    <3>3. i \in Nat \ {0} /\ i + 1 \in At(b.ops, "make") /\ b.ops[i + 1].op = "negotiate" BY <1>2, <3>2
    <3>4. i + 1 = 1 BY <1>1, <3>3 DEF Ordered
    <3>5. QED BY <3>3, <3>4
  <2>2. At(e.ops, "make") = {} <=> At(b.ops, "make") = {} BY <1>2, <1>7
  <2>3. m.id <= offers BY <1>1, <1>10 DEF NegInv, Chain
  <2>4. /\ b.making <=> At(b.ops, "make") # {}
        /\ b.agreed = 0 => "channels" \in b.need
        /\ b.agreed <= offers
    BY <1>1 DEF Chain
  <2>5. m.id > 0 BY <1>5
  <2> HIDE DEF b
  <2>6. QED BY <1>7, <1>9, <2>1, <2>2, <2>3, <2>4, <2>5 DEF Chain
<1>12. NegotiationTyped' BY <1>1, <1>4, <1>7 DEF NegotiationTyped
<1>13. \A o \in Ends : Chain(pc'[o], offers') /\ Paired(wire'[o]) BY <1>1, <1>8, <1>11 DEF NegInv
<1>14. Skeleton'
  <2>1. pc'[Other(p)] = pc[Other(p)] BY <1>8, TwoEnds
  <2>2. pc'[p].offer = pc[p].ops[1].id BY <1>2, <1>7, <1>8
  <2>3. At(pc'[p].ops, "owed") # {} \/ ~pc[p].ops[1].waits BY <1>2, <1>7, <1>8
  <2>4. 1 \in At(pc[p].ops, "taken") BY <1>2
  <2>5. QED BY <1>1, <1>3, <1>7, <1>8, <1>9, <2>1, <2>2, <2>3, <2>4, PendingSkeleton
<1>15. ASSUME ~crossed' PROVE \A o \in Ends : Coming(pc'[o], wire'[o])
  <2> DEFINE w == wire[p]
  <2>1. Comes(b, w, b.ops) /\ m.waits BY <1>1, <1>10, <1>15 DEF NegInv, Coming
  <2>2. /\ \A n : \A i \in Nat : AddedAfter(b.ops, n, i + 1) => AddedAfter(s, n, i)
        /\ \A n : AddedAfter(b.ops, n, 0) => AddedAfter(s, n, 0)
    <3>1. m.op # "add" BY <1>1
    <3> HIDE DEF b
    <3>2. QED BY <1>1, <3>1, AddedTail DEF m
  <2>3. Len(s) \in Nat BY <1>2
  <2> HIDE DEF w
  <2>4. Next1(w, m.id) \/ AddedAfter(e.ops, m.id, 0)
    <3>1. Next1(w, m.id) \/ m.id \in b.queue \/ AddedAfter(b.ops, m.id, 0 + 1) BY <1>2, <2>1 DEF Comes
    <3>2. 0 \in 0 .. Len(s) /\ 0 \in Nat BY <2>3
    <3>3. QED BY <1>7, <2>1, <2>2, <3>1, <3>2
  <2>5. \A n \in 1 .. MaxOffers : n = b.agreed => Next1(w, n) \/ n \in b.added \/ AddedAfter(e.ops, n, 0)
    BY <1>7, <2>1, <2>2 DEF Comes
  <2>6. Comes(e, w, e.ops) BY <1>7, <1>9, <2>4, <2>5 DEF Comes
  <2>7. QED BY <1>1, <1>8, <1>15, <2>6 DEF Coming, NegInv, w
<1>16. QED BY <1>12, <1>13, <1>14, <1>15 DEF NegInv

LEMMA SetsRemoteKeeps ==
  ASSUME NegInv, NEW p \in Ends, pc[p].ops # <<>>, SetsRemote(p), kicks' = kicks
  PROVE  NegInv'
<1>1. pc[p].ops \in Seq(Steps) BY DEF NegInv, NegotiationTyped, PeerSessions
<1>2. Head(pc[p].ops) \in Steps BY <1>1, KindTail
<1>3. Head(pc[p].ops) \in Remotes BY <1>2, Kinds DEF SetsRemote
<1>4. Head(pc[p].ops).type \in {"offer", "answer"} BY <1>3 DEF Remotes
<1>5. QED BY <1>4, OfferSetKeeps, AnswerSetKeeps

\* One of the ends answers the pending offer of the other.
LEMMA AnswerSkeleton ==
  ASSUME NegotiationTyped, Skeleton, NEW p \in Ends, pc[p].sig = "remote",
         pc'[Other(p)] = pc[Other(p)], pc'[p].sig = "stable", pc'[p].agreed = pc[p].offer,
         \A k \in {"undo", "taken", "heard"} : At(pc'[p].ops, k) = {} <=> At(pc[p].ops, k) = {},
         NEW m \in Signals, m.type = "answer", m.id = pc[p].offer, NEW n \in Signals, n.type = "candidate",
         wire'[p] = wire[p], wire'[Other(p)] = wire[Other(p)] \o <<m, n>>, crossed' = crossed
  PROVE  Skeleton'
<1> DEFINE q == Other(p)
           w == wire[q]
           v == wire'[q]
<1>1. q \in Ends /\ Other(q) = p /\ p # q /\ Ends = {p, q} BY TwoEnds
<1>2. w \in Seq(Signals) BY <1>1 DEF NegotiationTyped
<1>3. /\ \A t \in {"offer", "answer"} : \A i : i \in OnWire(v, t) <=> i \in OnWire(w, t) \/ (i = Len(w) + 1 /\ t = "answer")
      /\ \A i \in DOMAIN w : i \in 1 .. Len(w) /\ v[i] = w[i]
      /\ v[Len(w) + 1] = m /\ Len(w) \in Nat
  <2> DEFINE u == w \o <<m, n>>
  <2>1. /\ \A t \in {"offer", "answer"} : \A i : i \in OnWire(u, t) <=> i \in OnWire(w, t) \/ (i = Len(w) + 1 /\ m.type = t)
        /\ \A i \in DOMAIN w : i \in 1 .. Len(w) /\ u[i] = w[i]
        /\ u[Len(w) + 1] = m /\ Len(w) \in Nat
    <3> HIDE DEF w
    <3>1. QED BY <1>2, OnAppend
  <2>2. v = u OBVIOUS
  <2> HIDE DEF u, v, w
  <2>3. QED BY <2>1, <2>2
<1>4. \A t, i : i \in OnWire(w, t) => i \in 1 .. Len(w) /\ v[i] = w[i]
  <2>1. \A t, i : i \in OnWire(w, t) => i \in DOMAIN w BY DEF OnWire
  <2>2. QED BY <1>3, <2>1
<1>5. OnWire(v, "offer") = OnWire(w, "offer")
  <2>1. \A i : i \in OnWire(v, "offer") <=> i \in OnWire(w, "offer") BY <1>3
  <2>2. QED BY <2>1
<1>6. Remote(q) /\ ~Taken(q) /\ ~Answered(q) /\ ~Heard(q) /\ pc[q].sig = "local" /\ pc[p].offer = pc[q].offer
  BY <1>1 DEF Skeleton, InOnePlace, Named, Held, Remote
<1>7. OnWire(v, "answer") = {Len(w) + 1}
  <2>1. OnWire(w, "answer") = {} BY <1>6 DEF Answered
  <2>2. \A i : i \in OnWire(v, "answer") <=> i = Len(w) + 1 BY <1>3, <2>1
  <2>3. QED BY <2>2
<1>8. ~Held(p) /\ ~Taken(p) /\ ~Remote(p) /\ ~Answered(p) /\ ~Heard(p)
  BY DEF Skeleton, InOnePlace, Held
<1>9. /\ ~Taken(p)' /\ ~Remote(p)' /\ ~Answered(p)' /\ ~Heard(p)'
      /\ ~Taken(q)' /\ ~Remote(q)' /\ Answered(q)' /\ ~Heard(q)'
  BY <1>1, <1>6, <1>7, <1>8 DEF Taken, Remote, Answered, Heard
<1>10. Held(q) /\ Held(q)' /\ Back(q)' /\ ~Held(p)' /\ ~Back(p)' BY <1>6, <1>9 DEF Held, Back
<1>11. pc'[q] = pc[q] /\ wire'[q] = v /\ wire[q] = w OBVIOUS
<1> HIDE DEF q, w, v
<1>12. \A o \in Ends : InOnePlace(o)'
  <2>1. AtMostOne(OnWire(wire'[q], "answer")) BY <1>7, <1>11 DEF AtMostOne
  <2>2. AtMostOne(OnWire(wire'[p], "answer")) BY DEF Skeleton, InOnePlace
  <2>3. InOnePlace(q)' BY <1>6, <1>9, <1>11, <2>1 DEF InOnePlace
  <2>4. InOnePlace(p)' BY <1>9, <1>10, <2>2 DEF InOnePlace
  <2>5. QED BY <1>1, <2>3, <2>4
<1>13. \A o \in Ends : Named(o)'
  <2>1. Named(p)' BY <1>9 DEF Named, Taken, Answered, Heard
  <2>2. \A i \in OnWire(v, "answer") : v[i].id = pc'[q].offer BY <1>3, <1>6, <1>7, <1>11
  <2>3. Named(q)' BY <1>9, <1>11, <2>2 DEF Named, Taken, Heard
  <2>4. QED BY <1>1, <2>1, <2>3
<1>14. Matching'
  <2>1. pc'[Other(q)].agreed = pc'[q].offer BY <1>1, <1>6, <1>11
  <2>2. QED BY <1>1, <1>10, <2>1 DEF Matching
<1>15. CASE p = "impolite"
  <2>1. q = "polite" BY <1>15, TwoEnds DEF q
  <2>2. Sent("impolite") = {} /\ At(pc["impolite"].ops, "undo") = {} BY <1>15 DEF Skeleton, Firm
  <2>3. Sent("impolite")' = {} BY <1>5, <1>11, <2>1, <2>2, TwoEnds DEF Sent
  <2>4. Firm' BY <1>9, <1>15, <2>2, <2>3 DEF Firm, AtMostOne
  <2>5. Sent("polite") = {} BY <1>10, <2>1 DEF Skeleton, Yielding
  <2>6. Sent("polite")' = {} BY <1>15, <2>5, TwoEnds DEF Sent
  <2>7. Yielding' BY <1>10, <1>15, <2>1, <2>6 DEF Yielding
  <2>8. QED BY <1>12, <1>13, <1>14, <2>4, <2>7 DEF Skeleton
<1>16. CASE p = "polite"
  <2>1. q = "impolite" BY <1>16, TwoEnds DEF q
  <2>2. Sent("impolite") = {} /\ At(pc["impolite"].ops, "undo") = {}
    BY <1>10, <2>1 DEF Skeleton, Firm
  <2>3. Sent("impolite")' = {} BY <1>16, <2>2, TwoEnds DEF Sent
  <2>4. Firm' BY <1>9, <1>10, <1>11, <2>1, <2>2, <2>3 DEF Firm, AtMostOne
  <2>5. Sent("polite")' = OnWire(w, "offer") BY <1>5, <1>11, <2>1, TwoEnds DEF Sent
  <2>6. Sent("polite") = OnWire(w, "offer") BY <1>11, <2>1, TwoEnds DEF Sent
  <2>7. \A i \in OnWire(w, "offer") : Behind(i)'
    <3>1. \A i \in OnWire(w, "offer") : i < Len(w) + 1 BY <1>3, <1>4
    <3>2. QED BY <1>7, <1>11, <2>1, <3>1 DEF Behind
  <2>8. pc'["impolite"].sig = "local" BY <1>6, <1>11, <2>1
  <2>9. \A i \in Sent("polite")' : Stale(i)' BY <2>5, <2>7, <2>8 DEF Stale
  <2>10. \A i, k \in OnWire(w, "offer") : ~(i < k)
    <3>1. OnWire(wire["impolite"], "answer") = {} BY <1>6, <2>1 DEF Answered
    <3>2. QED BY <2>6, <3>1 DEF Skeleton, Yielding
  <2>11. pc'["polite"].sig = "stable" /\ ~Held("polite")' /\ ~Back("polite")' BY <1>10, <1>16
  <2>12. Yielding' BY <2>5, <2>8, <2>9, <2>10, <2>11 DEF Yielding
  <2>13. QED BY <1>12, <1>13, <1>14, <2>4, <2>12 DEF Skeleton
<1>17. QED BY <1>15, <1>16 DEF Ends

LEMMA SetsAnswerKeeps ==
  ASSUME NegInv, NEW p \in Ends, pc[p].ops # <<>>, SetsAnswer(p), kicks' = kicks
  PROVE  NegInv'
<1> DEFINE c == pc[p]
           q == Other(p)
           w == wire[q]
           s == Tail(c.ops)
           d == Popped(c)
           restart == Head(c.ops).restart
           met == IF restart THEN {"channels", "restart"} ELSE {"channels"}
           e == [c EXCEPT !.ops = s, !.sig = "stable", !.offer = 0, !.fired = FALSE, !.need = c.need \ met,
                          !.agreed = c.offer]
           m == [type |-> "answer", id |-> c.offer, restart |-> restart]
           n == [type |-> "candidate", id |-> c.offer, restart |-> FALSE]
           v == w \o <<m, n>>
<1>1. /\ c \in PeerSessions /\ Chain(c, offers) /\ c.ops \in Seq(Steps) /\ Ordered(c.ops)
      /\ pc \in [Ends -> PeerSessions] /\ wire \in [Ends -> Seq(Signals)] /\ NegotiationTyped /\ Skeleton
      /\ q \in Ends /\ p # q /\ Ends = {p, q} /\ w \in Seq(Signals) /\ Paired(w) /\ offers \in 0 .. MaxOffers
      /\ Chain(pc[q], offers) /\ pc[q] \in PeerSessions
      /\ Head(c.ops).op = "answer" /\ offers' = offers /\ crossed' = crossed
  <2>1. q \in Ends /\ p # q /\ Ends = {p, q} BY TwoEnds
  <2>2. QED BY <2>1 DEF NegInv, NegotiationTyped, PeerSessions, Chain, SetsAnswer, Answers
<1>2. /\ s \in Seq(Steps) /\ Ordered(s)
      /\ \A k : k # "owed" => (At(s, k) = {} <=> At(c.ops, k) = {})
      /\ At(s, "owed") = {}
      /\ \A k, j : j \in At(s, k) => j + 1 \in At(c.ops, k) /\ s[j] = c.ops[j + 1]
      /\ 1 \in At(c.ops, "owed") /\ Head(c.ops) \in Replies /\ Kind(Head(c.ops)) = "owed"
  <2> HIDE DEF c
  <2>1. c.ops # <<>> BY DEF c
  <2>2. Head(c.ops) \in Steps BY <1>1, <2>1, KindTail
  <2>3. Head(c.ops) \in Replies /\ Kind(Head(c.ops)) = "owed" BY <1>1, <2>2, Kinds
  <2>4. QED BY <1>1, <2>1, <2>3, KindTail
<1>3. c.sig = "remote" /\ c.offer > 0 /\ c.has /\ c.offer \in 1 .. MaxOffers /\ restart \in BOOLEAN
  <2>1. c.sig = "remote" /\ c.offer > 0 /\ c.has BY <1>1, <1>2 DEF Chain
  <2>2. c.offer \in 1 .. MaxOffers BY <1>1, <2>1, NegotiationAssumption DEF PeerSessions, NegotiationAssumption
  <2>3. QED BY <1>2, <2>1, <2>2 DEF Replies
<1>4. m \in Signals /\ n \in Signals /\ m.type = "answer" /\ n.type = "candidate" /\ m.id = c.offer /\ n.id = m.id
  BY <1>3 DEF Signals
<1>5. pc' = [pc EXCEPT ![p] = e]
  <2>1. pc' = [pc EXCEPT ![p] = [Settled(d, met) EXCEPT !.agreed = d.offer]] BY DEF SetsAnswer, Answers
  <2>2. [Settled(d, met) EXCEPT !.agreed = d.offer] = e
    <3> HIDE DEF met, s
    <3>1. d = [c EXCEPT !.ops = s] BY <1>1 DEF Popped, PeerSessions, s
    <3> HIDE DEF d
    <3>2. QED BY <1>1, <3>1 DEF Settled, PeerSessions
  <2>3. QED BY <2>1, <2>2
<1>6. wire' = [wire EXCEPT ![q] = v]
  <2>1. d.offer = c.offer BY <1>1 DEF Popped, PeerSessions
  <2>2. wire' = [wire EXCEPT ![q] = @ \o <<[type |-> "answer", id |-> d.offer, restart |-> restart],
                                           [type |-> "candidate", id |-> d.offer, restart |-> FALSE]>>]
    BY DEF SetsAnswer, Answers, Signal
  <2>3. QED BY <2>1, <2>2
<1>7. Paired(v) /\ v \in Seq(Signals) /\ \A b : Coming(b, w) => Coming(b, v)
  <2>1. m.type # "candidate" BY <1>4
  <2> HIDE DEF m, n, w
  <2>2. Paired(v) BY <1>1, <1>4, <2>1, PairedAppend
  <2>3. v \in Seq(Signals) BY <1>1, <1>4, <2>1, OnAppend
  <2>4. \A b : Coming(b, w) => Coming(b, v) BY <1>1, <1>4, <2>1, ComingLonger
  <2>5. QED BY <2>2, <2>3, <2>4
<1> HIDE DEF m, n, s, d, met
<1>8. /\ e \in PeerSessions /\ e.ops = s /\ e.sig = "stable" /\ e.offer = 0 /\ e.agreed = c.offer
      /\ e.answering = c.answering /\ e.has = c.has /\ e.making = c.making /\ ~e.fired
      /\ e.queue = c.queue /\ e.added = c.added
  <2>1. 0 \in 0 .. MaxOffers /\ c.offer \in 0 .. MaxOffers
    BY <1>1, NegotiationAssumption DEF PeerSessions, NegotiationAssumption
  <2>2. c.need \ met \in SUBSET {"channels", "restart"} BY <1>1 DEF PeerSessions
  <2>3. e \in PeerSessions
    <3> HIDE DEF c
    <3>1. QED BY <1>1, <1>2, <2>1, <2>2 DEF PeerSessions
  <2> HIDE DEF c
  <2>4. QED BY <1>1, <2>3 DEF PeerSessions
<1> HIDE DEF e
<1>9. pc'[p] = e /\ wire'[p] = wire[p] /\ pc'[q] = pc[q] /\ wire'[q] = v BY <1>1, <1>5, <1>6
<1>10. Chain(e, offers)
  <2>1. /\ At(s, "make") = {} <=> At(c.ops, "make") = {}
        /\ At(s, "heard") = {} <=> At(c.ops, "heard") = {}
    BY <1>2
  <2>2. /\ c.making <=> At(c.ops, "make") # {}
        /\ c.answering => At(c.ops, "heard") # {}
        /\ c.offer <= offers /\ offers \in Nat
    BY <1>1 DEF Chain
  <2> HIDE DEF c
  <2>3. QED BY <1>2, <1>3, <1>8, <2>1, <2>2 DEF Chain
<1>11. NegotiationTyped' BY <1>1, <1>5, <1>6, <1>7, <1>8 DEF NegotiationTyped
<1>12. \A o \in Ends : Chain(pc'[o], offers') /\ Paired(wire'[o])
  <2>1. Paired(wire[p]) BY DEF NegInv
  <2>2. QED BY <1>1, <1>7, <1>9, <1>10, <2>1
<1>13. Skeleton'
  <2>1. \A k \in {"undo", "taken", "heard"} : At(pc'[p].ops, k) = {} <=> At(pc[p].ops, k) = {}
    BY <1>2, <1>8, <1>9
  <2>2. QED BY <1>1, <1>3, <1>4, <1>8, <1>9, <2>1, AnswerSkeleton
<1>14. ASSUME ~crossed' PROVE \A o \in Ends : Coming(pc'[o], wire'[o])
  <2>1. Coming(c, wire[p]) /\ Coming(pc[q], w) BY <1>1, <1>14 DEF NegInv
  <2>2. Comes(c, wire[p], s)
    <3>1. Head(c.ops).op # "add" /\ Kind(Head(c.ops)) \notin {"taken", "heard"} BY <1>1, <1>2
    <3>2. c.ops # <<>> OBVIOUS
    <3> HIDE DEF c
    <3>3. QED BY <1>1, <2>1, <3>1, <3>2, ComesTail DEF Coming, s
  <2>3. Comes(e, wire[p], s)
    <3> HIDE DEF c
    <3>1. QED BY <1>3, <1>8, <2>2 DEF Comes
  <2>4. QED BY <1>1, <1>7, <1>8, <1>9, <2>1, <2>3 DEF Coming
<1>15. QED BY <1>11, <1>12, <1>13, <1>14 DEF NegInv

LEMMA ExecuteKeeps ==
  ASSUME NegInv, NEW p \in Ends, Execute(p)
  PROVE  NegInv'
<1>1. pc[p].ops # <<>> /\ kicks' = kicks BY DEF Execute
<1>2. CASE Negotiates(p) BY <1>1, <1>2, NegotiatesKeeps
<1>3. CASE Creates(p) BY <1>1, <1>3, CreatesKeeps
<1>4. CASE SetsOffer(p) BY <1>1, <1>4, SetsOfferKeeps
<1>5. CASE RollsBack(p) BY <1>1, <1>5, RollsBackKeeps
<1>6. CASE SetsRemote(p) BY <1>1, <1>6, SetsRemoteKeeps
<1>7. CASE SetsAnswer(p) BY <1>1, <1>7, SetsAnswerKeeps
<1>8. CASE Adds(p) BY <1>1, <1>8, AddsKeeps
<1>9. QED BY <1>2, <1>3, <1>4, <1>5, <1>6, <1>7, <1>8 DEF Execute

LEMMA NegotiationInitInv ==
  ASSUME NegotiationInit
  PROVE  NegInv
<1>1. NewSession \in PeerSessions
  <2>1. 0 \in 0 .. MaxOffers BY NegotiationAssumption DEF NegotiationAssumption
  <2>2. <<>> \in Seq(Steps) OBVIOUS
  <2>3. QED BY <2>1, <2>2 DEF NewSession, PeerSessions
<1>2. \A p \in Ends : pc[p] = NewSession /\ wire[p] = <<>> BY DEF NegotiationInit
<1>3. NegotiationTyped
  <2>1. 0 \in 0 .. MaxOffers /\ 0 \in 0 .. MaxKicks BY NegotiationAssumption DEF NegotiationAssumption
  <2>2. <<>> \in Seq(Signals) OBVIOUS
  <2>3. QED BY <1>1, <2>1, <2>2 DEF NegotiationInit, NegotiationTyped
<1>4. /\ NewSession.sig = "stable" /\ NewSession.ops = <<>> /\ ~NewSession.making /\ ~NewSession.fired
      /\ NewSession.need = {"channels"} /\ NewSession.offer = 0 /\ NewSession.agreed = 0
      /\ ~NewSession.answering /\ NewSession.queue = {} /\ NewSession.added = {}
  BY DEF NewSession
<1>5. DOMAIN <<>> = {} OBVIOUS
<1>6. \A k : At(<<>>, k) = {} /\ OnWire(<<>>, k) = {} BY <1>5 DEF At, OnWire
<1>7. \A p \in Ends : Chain(pc[p], offers) /\ Paired(wire[p])
  <2>1. Ordered(<<>>) BY <1>6 DEF Ordered, AtMostOne
  <2>2. offers = 0 BY DEF NegotiationInit
  <2>3. Chain(NewSession, offers) BY <1>4, <1>6, <2>1, <2>2 DEF Chain
  <2>4. Paired(<<>>) BY <1>5 DEF Paired
  <2>5. QED BY <1>2, <2>3, <2>4
<1>8. \A p \in Ends : /\ ~Taken(p) /\ ~Remote(p) /\ ~Answered(p) /\ ~Heard(p) /\ ~Held(p) /\ ~Back(p)
                      /\ Sent(p) = {} /\ pc[p].sig = "stable" /\ pc[p].agreed = 0
                      /\ At(pc[p].ops, "undo") = {}
  BY <1>2, <1>4, <1>6, TwoEnds DEF Taken, Remote, Answered, Heard, Held, Back, Sent
<1>9. "polite" \in Ends /\ "impolite" \in Ends BY TwoEnds
<1>10. Skeleton
  <2>1. \A p \in Ends : InOnePlace(p) BY <1>2, <1>6, <1>8 DEF InOnePlace, AtMostOne
  <2>2. \A p \in Ends : Named(p) BY <1>8 DEF Named, Taken, Answered, Heard
  <2>3. Firm BY <1>8, <1>9 DEF Firm, AtMostOne
  <2>4. Yielding BY <1>8, <1>9 DEF Yielding
  <2>5. Matching BY <1>8, <1>9 DEF Matching
  <2>6. QED BY <2>1, <2>2, <2>3, <2>4, <2>5 DEF Skeleton
<1>11. \A p \in Ends : Coming(pc[p], wire[p])
  <2>1. \A n \in 1 .. MaxOffers : n # 0 OBVIOUS
  <2>2. QED BY <1>2, <1>4, <1>6, <2>1 DEF Coming, Comes
<1>12. QED BY <1>3, <1>7, <1>10, <1>11 DEF NegInv

LEMMA NegotiationNextInv ==
  ASSUME NegInv, [NegotiationNext]_negotiationVars
  PROVE  NegInv'
<1>1. CASE UNCHANGED negotiationVars
  <2>1. pc' = pc /\ wire' = wire /\ offers' = offers /\ kicks' = kicks /\ crossed' = crossed
    BY <1>1 DEF negotiationVars
  <2>2. NegotiationTyped' BY <2>1 DEF NegInv, NegotiationTyped
  <2>3. \A o \in Ends : Chain(pc'[o], offers') /\ Paired(wire'[o]) BY <2>1 DEF NegInv
  <2>4. \A o \in Ends : /\ Taken(o)' <=> Taken(o)
                        /\ Remote(o)' <=> Remote(o)
                        /\ Answered(o)' <=> Answered(o)
                        /\ Heard(o)' <=> Heard(o)
                        /\ Held(o)' <=> Held(o)
                        /\ Back(o)' <=> Back(o)
                        /\ Sent(o)' = Sent(o)
    BY <2>1 DEF Taken, Remote, Answered, Heard, Held, Back, Sent
  <2>5. \A o \in Ends : InOnePlace(o)' /\ Named(o)' BY <2>1, <2>4 DEF NegInv, Skeleton, InOnePlace, Named
  <2>6. "polite" \in Ends /\ "impolite" \in Ends BY TwoEnds
  <2>7. Firm' BY <2>1, <2>4, <2>6 DEF NegInv, Skeleton, Firm
  <2>8. (\A i : Behind(i)' <=> Behind(i)) /\ (\A i : Stale(i)' <=> Stale(i)) /\ (Outbid' <=> Outbid)
    BY <2>1, <2>4, <2>6 DEF Behind, Stale, Outbid
  <2>9. Yielding' BY <2>1, <2>4, <2>6, <2>8 DEF NegInv, Skeleton, Yielding
  <2>10. Matching' BY <2>1, <2>4 DEF NegInv, Skeleton, Matching
  <2>11. ~crossed' => \A o \in Ends : Coming(pc'[o], wire'[o]) BY <2>1 DEF NegInv
  <2>12. QED BY <2>2, <2>3, <2>5, <2>7, <2>9, <2>10, <2>11 DEF NegInv, Skeleton
<1>2. CASE NegotiationNext
  <2>1. PICK p \in Ends :
          \/ NegotiationNeeded(p) \/ Starts(p) \/ Kick(p) \/ Restart(p)
          \/ Receive(p) \/ Execute(p) \/ ChannelsOpen(p)
    BY <1>2 DEF NegotiationNext
  <2>2. CASE NegotiationNeeded(p) BY <2>2, NeededKeeps
  <2>3. CASE Starts(p) BY <2>3, StartsKeeps
  <2>4. CASE Kick(p) BY <2>4, KickKeeps
  <2>5. CASE Restart(p) BY <2>5, RestartKeeps
  <2>6. CASE Receive(p) BY <2>6, ReceiveKeeps
  <2>7. CASE Execute(p) BY <2>7, ExecuteKeeps
  <2>8. CASE ChannelsOpen(p) BY <2>8, ChannelsOpenKeeps
  <2>9. QED BY <2>1, <2>2, <2>3, <2>4, <2>5, <2>6, <2>7, <2>8
<1>3. QED BY <1>1, <1>2

LEMMA NegotiationHolds == NegotiationSpec => []NegInv
<1>1. NegInv /\ [NegotiationNext]_negotiationVars => NegInv' BY NegotiationNextInv
<1>2. NegotiationInit => NegInv BY NegotiationInitInv
<1>3. QED BY <1>1, <1>2, PTL DEF NegotiationSpec

\* Once all is quiet no offer is pending: the impolite end's would be on its way or
\* held, and the polite end's would be outbid.
LEMMA QuietStable ==
  ASSUME NegInv, Quiet, ~crossed
  PROVE  \A p \in Ends : pc[p].sig = "stable" /\ ~pc[p].fired /\ ~Back(p)
<1>1. \A p \in Ends : wire[p] = <<>> /\ pc[p].ops = <<>> BY DEF Quiet
<1>2. DOMAIN <<>> = {} OBVIOUS
<1>3. \A p \in Ends : \A k : At(pc[p].ops, k) = {} /\ OnWire(wire[p], k) = {} BY <1>1, <1>2 DEF At, OnWire
<1>4. \A p \in Ends : ~Taken(p) /\ ~Answered(p) /\ ~Heard(p) /\ ~Back(p) /\ Sent(p) = {} /\ ~pc[p].making
  BY <1>3, TwoEnds DEF Taken, Answered, Heard, Back, Sent, NegInv, Chain
<1>5. \A p \in Ends : ~Remote(p) BY <1>3, TwoEnds DEF NegInv, Skeleton, Named
<1>6. \A p \in Ends : ~Held(p) BY <1>4, <1>5 DEF Held
<1>7. \A p \in Ends : pc[p].sig # "remote" BY <1>5, TwoEnds DEF Remote
<1>8. "polite" \in Ends /\ "impolite" \in Ends BY TwoEnds
<1>9. pc["impolite"].sig # "local" BY <1>4, <1>6, <1>8 DEF NegInv, Skeleton, Firm
<1>10. pc["polite"].sig # "local"
  <2>1. ~Outbid BY <1>4, <1>8 DEF Outbid
  <2>2. QED BY <1>4, <1>6, <1>8, <2>1 DEF NegInv, Skeleton, Yielding
<1>11. \A p \in Ends : pc[p].sig \in {"stable", "local", "remote"}
  BY DEF NegInv, NegotiationTyped, PeerSessions
<1>12. \A p \in Ends : pc[p].sig = "stable" BY <1>7, <1>9, <1>10, <1>11, TwoEnds
<1>13. \A p \in Ends : ~pc[p].fired BY <1>4, <1>12 DEF NegInv, Chain
<1>14. QED BY <1>4, <1>12, <1>13

\* However offers, answers, candidates and restarts cross, once all is quiet the ends
\* have agreed on one description and have each other's candidates (perfect negotiation
\* of docs/protocol.md:44-46), but for the crossings that the code has no answer to:
\* for any number of offers, negotiations and restarts.
THEOREM OneGaveWayAlways == NegotiationSpec => []OneGaveWay
<1>1. ASSUME NegInv PROVE OneGaveWay
  <2>1. SUFFICES ASSUME Quiet, ~crossed PROVE Agree /\ Reachable BY DEF OneGaveWay, OneGivesWay
  <2>2. \A p \in Ends : pc[p].sig = "stable" /\ ~pc[p].fired /\ ~Back(p) BY <1>1, <2>1, QuietStable
  <2>3. \A p \in Ends : pc[p].agreed \in 1 .. MaxOffers
    <3>1. \A p \in Ends : pc[p].need = {} BY <2>1, <2>2 DEF Quiet
    <3>2. \A p \in Ends : pc[p].agreed # 0 BY <1>1, <3>1 DEF NegInv, Chain
    <3>3. \A p \in Ends : pc[p].agreed \in 0 .. MaxOffers BY <1>1 DEF NegInv, NegotiationTyped, PeerSessions
    <3>4. QED BY <3>2, <3>3, NegotiationAssumption DEF NegotiationAssumption
  <2>4. Agree BY <1>1, <2>2, <2>3 DEF Agree, NegInv, Skeleton, Matching
  <2>5. Reachable
    <3>1. SUFFICES ASSUME NEW p \in Ends PROVE pc[p].agreed \in pc[p].added BY DEF Reachable
    <3>2. wire[p] = <<>> /\ pc[p].ops = <<>> BY <2>1 DEF Quiet
    <3>3. Comes(pc[p], <<>>, <<>>) BY <1>1, <2>1, <3>2 DEF NegInv, Coming
    <3>4. DOMAIN <<>> = {} OBVIOUS
    <3>5. \A n : ~Next1(<<>>, n) /\ ~AddedAfter(<<>>, n, 0) BY <3>4 DEF Next1, AddedAfter
    <3>6. QED BY <2>3, <3>3, <3>5 DEF Comes
  <2>6. QED BY <2>4, <2>5
<1>2. QED BY <1>1, NegotiationHolds, PTL

\* The states the program can be in are well typed; an answer is set only while an
\* offer of theirs is pending.
THEOREM NegotiationTypeAlways == NegotiationSpec => []NegotiationTypeOK
<1>1. ASSUME NegInv PROVE NegotiationTypeOK
  <2>1. NegotiationTyped BY <1>1 DEF NegInv
  <2>2. \A o \in Steps : o.op \in Operations
    BY DEF Steps, Makers, Remotes, Replies, Additions, Operations
  <2>3. ASSUME NEW p \in Ends
        PROVE  /\ pc[p].sig \in {"stable", "local", "remote"}
               /\ \A i \in DOMAIN pc[p].ops : pc[p].ops[i].op \in Operations
               /\ {pc[p].making, pc[p].fired, pc[p].has, pc[p].answering, pc[p].open, pc[p].started}
                    \subseteq BOOLEAN
               /\ {pc[p].need, pc[p].offered} \subseteq SUBSET {"channels", "restart"}
               /\ {pc[p].offer, pc[p].agreed} \subseteq 0 .. MaxOffers
               /\ {pc[p].queue, pc[p].added} \subseteq SUBSET (1 .. MaxOffers)
               /\ \A i \in DOMAIN wire[p] : wire[p][i] \in Signals
    <3>1. pc[p] \in PeerSessions /\ pc[p].ops \in Seq(Steps) /\ wire[p] \in Seq(Signals)
      BY <2>1 DEF NegotiationTyped, PeerSessions
    <3>2. \A i \in DOMAIN pc[p].ops : pc[p].ops[i] \in Steps
      <4> DEFINE s == pc[p].ops
      <4> HIDE DEF s
      <4>1. s \in Seq(Steps) BY <3>1 DEF s
      <4>2. QED BY <4>1 DEF s
    <3>3. \A i \in DOMAIN wire[p] : wire[p][i] \in Signals BY <3>1
    <3>4. QED BY <2>2, <3>1, <3>2, <3>3 DEF PeerSessions
  <2>4. ASSUME NEW p \in Ends, pc[p].ops # <<>>, Head(pc[p].ops).op = "answer" PROVE pc[p].sig = "remote"
    <3> DEFINE s == pc[p].ops
    <3>1. s \in Seq(Steps) BY <2>1 DEF NegotiationTyped, PeerSessions
    <3>2. s # <<>> /\ Head(s).op = "answer" BY <2>4
    <3> HIDE DEF s
    <3>3. Head(s) \in Steps /\ 1 \in At(s, Kind(Head(s))) BY <3>1, <3>2, KindTail
    <3>4. Kind(Head(s)) = "owed" BY <3>2, <3>3, Kinds
    <3>5. QED BY <1>1, <3>3, <3>4 DEF NegInv, Chain, s
  <2>5. QED BY <2>1, <2>3, <2>4 DEF NegotiationTypeOK, NegotiationTyped
<1>2. QED BY <1>1, NegotiationHolds, PTL
=============================================================================
