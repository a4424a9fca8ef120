---------------------------- MODULE OffersProofs ----------------------------
(***************************************************************************)
(* Theorems about Offers, for any stock, messages and history: instalment  *)
(* tables are fair and stand under the labels they belong to; nobody is    *)
(* called for photos that the photo service never denied; what a message   *)
(* names is kept by its answer, and no unit is chosen for the customer     *)
(* among those that the words in play do not tell apart.                   *)
(***************************************************************************)
EXTENDS Offers, TLAPS, FiniteSetTheorems

(* A table may be sent of a unit that has a price, and the entry leaves    *)
(* something to pay.                                                       *)
Payable(s) ==
  /\ s.row.price \in Nat /\ s.entry \in Nat
  /\ s.entry = 0 \/ EntryAccepted(s.row.price, s.entry)
-----------------------------------------------------------------------------
(* The sequences of a turn.                                                *)
LEMMA FunctionIsSeq ==
  ASSUME NEW S, NEW n \in Nat, NEW s \in [1..n -> S]
  PROVE  s \in Seq(S) /\ Len(s) = n
OBVIOUS

LEMMA SeqOverRange ==
  ASSUME NEW S, NEW s \in Seq(S)
  PROVE  s \in Seq(Range(s)) /\ Range(s) \subseteq S
<1>1. s \in [1..Len(s) -> Range(s)] /\ Len(s) \in Nat
  BY DEF Range
<1>2. Range(s) \subseteq S
  BY DEF Range
<1>3. s \in Seq(Range(s))
  BY <1>1, FunctionIsSeq
<1> QED
  BY <1>2, <1>3

LEMMA AppendedRange ==
  ASSUME NEW s, NEW x, s \in Seq(Range(s))
  PROVE  /\ Append(s, x) \in Seq(Range(Append(s, x)))
         /\ Range(Append(s, x)) = Range(s) \cup {x}
<1> DEFINE S == Range(s) \cup {x}
           a == Append(s, x)
<1>1. s \in Seq(S)
  <2>1. \A i \in 1..Len(s) : s[i] \in S
    BY DEF Range
  <2> QED
    BY <2>1
<1>2. a \in Seq(S) /\ Len(a) = Len(s) + 1 /\ DOMAIN a = 1..(Len(s) + 1) /\ a[Len(s) + 1] = x
      /\ \A i \in 1..Len(s) : a[i] = s[i]
  BY <1>1
<1>3. Len(s) \in Nat /\ DOMAIN s = 1..Len(s)
  BY <1>1
<1>4. S \subseteq Range(a)
  <2>1. x \in Range(a)
    BY <1>2, <1>3 DEF Range
  <2>2. \A i \in 1..Len(s) : s[i] \in Range(a)
    BY <1>2, <1>3 DEF Range
  <2>3. \A v \in Range(s) : \E i \in 1..Len(s) : v = s[i]
    BY <1>3 DEF Range
  <2> QED
    BY <2>1, <2>2, <2>3
<1>5. a \in Seq(Range(a)) /\ Range(a) \subseteq S
  BY <1>2, SeqOverRange
<1> QED
  BY <1>4, <1>5

LEMMA TailRange ==
  ASSUME NEW s, s \in Seq(Range(s)), s # <<>>
  PROVE  /\ Tail(s) \in Seq(Range(Tail(s))) /\ Range(Tail(s)) \subseteq Range(s)
         /\ Len(s) \in Nat \ {0} /\ s[1] \in Range(s)
         /\ Len(s) # 1 => Tail(s) # <<>>
<1>1. Tail(s) \in Seq(Range(s)) /\ Len(Tail(s)) = Len(s) - 1
  OBVIOUS
<1>2. Len(s) \in Nat \ {0} /\ DOMAIN s = 1..Len(s)
  OBVIOUS
<1>3. s[1] \in Range(s)
  BY <1>2 DEF Range
<1>4. Tail(s) \in Seq(Range(Tail(s))) /\ Range(Tail(s)) \subseteq Range(s)
  BY <1>1, SeqOverRange
<1>5. Len(s) # 1 => Tail(s) # <<>>
  <2>1. Len(<<>>) = 0
    OBVIOUS
  <2>2. Len(s) # 1 => Len(Tail(s)) # 0
    BY <1>1, <1>2
  <2> QED
    BY <2>1, <2>2
<1> QED
  BY <1>2, <1>3, <1>4, <1>5

LEMMA SingleRange ==
  ASSUME NEW x
  PROVE  /\ <<x>> \in Seq(Range(<<x>>)) /\ Range(<<x>>) = {x} /\ <<x>> # <<>>
         /\ <<>> \in Seq(Range(<<>>)) /\ Range(<<>>) = {}
BY DEF Range

LEMMA SeqOfSet ==
  ASSUME NEW S, IsFiniteSet(S), S # {}
  PROVE  /\ SetToSeq(S) \in Seq(Range(SetToSeq(S))) /\ Range(SetToSeq(S)) \subseteq S
         /\ SetToSeq(S) # <<>>
<1> DEFINE n == Cardinality(S)
<1>1. n \in Nat /\ n # 0 /\ ExistsBijection(1..n, S)
  BY FS_CardinalityType, FS_EmptySet
<1>2. \E f \in [1..n -> S] : IsInjective(f)
  BY <1>1 DEF ExistsBijection, Bijection, Injection
<1>3. SetToSeq(S) \in [1..n -> S]
  BY <1>2 DEF SetToSeq
<1>4. SetToSeq(S) \in Seq(S) /\ Len(SetToSeq(S)) = n
  BY <1>1, <1>3, SMTT(30)
<1> QED
  <2>1. SetToSeq(S) # <<>>
    BY <1>1, <1>4
  <2> HIDE DEF n
  <2> QED
    BY <1>4, <2>1, SeqOverRange
-----------------------------------------------------------------------------
(* The arithmetic of the instalments: fees are below the whole and grow    *)
(* with the number of instalments.                                         *)
LEMMA FeesGrow ==
  /\ \A n \in Counts : FIXED_INSTALLMENT_RATES[n] \in 1..9999
  /\ \A n \in Counts : n > 1 => FIXED_INSTALLMENT_RATES[n - 1] < FIXED_INSTALLMENT_RATES[n]
<1>1. \A n \in Counts : n \in {1, 2, 3, 4, 5, 6, 7, 8, 9, 10, 11, 12, 13, 14, 15, 16, 17, 18}
  BY DEF Counts
<1> QED
  BY <1>1, SMTT(30) DEF FIXED_INSTALLMENT_RATES

(* A fraction rounded to whole cents.                                      *)
LEMMA RoundedBounds ==
  ASSUME NEW a \in Nat, NEW b \in Nat \ {0}
  PROVE  /\ Rounded(a, b) \in Nat
         /\ 2 * b * Rounded(a, b) <= 2 * a + b
         /\ 2 * a + b < 2 * b * Rounded(a, b) + 2 * b
<1> DEFINE d == 2 * b
           m == 2 * a + b
<1>1. d \in Nat \ {0} /\ m \in Nat
  OBVIOUS
<1>2. m \div d \in Nat /\ d * (m \div d) <= m /\ m < d * (m \div d) + d
  <2> HIDE DEF d, m
  <2> QED
    BY <1>1, SMT
<1> QED
  BY <1>1, <1>2 DEF Rounded

(* A product, as far as the proofs multiply.                               *)
Times(k, x) == k * x

LEMMA IsProduct ==
  \A k, x : k \in Int /\ x \in Int => /\ Times(k, x) \in Int /\ Times(k, x) = Times(x, k)
                                      /\ Times(k, 1) = k /\ Times(k, 10000) = 10000 * k
BY SMT DEF Times

LEMMA Distributes ==
  \A k, x, y : k \in Int /\ x \in Int /\ y \in Int => Times(k, x + y) = Times(k, x) + Times(k, y)
BY SMT DEF Times

LEMMA Monotone ==
  \A k, x, y : k \in Nat /\ x \in Int /\ y \in Int /\ x <= y => Times(k, x) <= Times(k, y)
BY SMT DEF Times

(* t is the amount a divided by b and rounded, to half a unit.             *)
Rounds(t, a, b) ==
  t \in Nat /\ 2 * Times(b, t) <= 2 * a + b /\ 2 * a + b < 2 * Times(b, t) + 2 * b

LEMMA IsRounded ==
  \A a, b : a \in Nat /\ b \in Nat \ {0} => Rounds(Rounded(a, b), a, b)
<1> SUFFICES ASSUME NEW a \in Nat, NEW b \in Nat \ {0}
             PROVE  Rounds(Rounded(a, b), a, b)
  OBVIOUS
<1>1. Rounded(a, b) \in Nat
  BY RoundedBounds
<1>2. 2 * b * Rounded(a, b) <= 2 * a + b
  BY RoundedBounds
<1>3. 2 * a + b < 2 * b * Rounded(a, b) + 2 * b
  BY RoundedBounds
<1>4. PICK t \in Nat : t = Rounded(a, b)
  BY <1>1
<1>5. 2 * b * t = 2 * Times(b, t) /\ Times(b, t) \in Int
  BY DEF Times
<1>6. 2 * Times(b, t) <= 2 * a + b /\ 2 * a + b < 2 * Times(b, t) + 2 * b
  BY <1>2, <1>3, <1>4, <1>5
<1> QED
  BY <1>4, <1>6 DEF Rounds

(* A lower fee, a lower or equal price.                                    *)
LEMMA LowerFee ==
  \A a, b, c, t, u :
    /\ a \in Nat /\ b \in Nat /\ c \in Nat /\ b < c
    /\ Rounds(t, a, b) /\ Rounds(u, a, c)
    => t >= u
<1> SUFFICES ASSUME NEW a \in Nat, NEW b \in Nat, NEW c \in Nat, b < c,
                    NEW t, NEW u, Rounds(t, a, b), Rounds(u, a, c)
             PROVE  t >= u
  OBVIOUS
<1>1. /\ t \in Nat /\ u \in Nat
      /\ 2 * a + b < 2 * Times(b, t) + 2 * b /\ 2 * Times(c, u) <= 2 * a + c
  BY DEF Rounds
<1> SUFFICES ASSUME t + 1 <= u PROVE FALSE
  BY <1>1
<1>2. Times(b, t + 1) <= Times(b, u) /\ Times(b, t + 1) = Times(b, t) + b
  BY <1>1, IsProduct, Distributes, Monotone
<1>3. PICK v \in Nat : u = v + 1
  <2>1. u - 1 \in Nat /\ u = (u - 1) + 1
    BY <1>1
  <2> QED
    BY <2>1
<1>4. Times(v, b + 1) <= Times(v, c)
  BY Monotone
<1>5. Times(v, b + 1) = Times(v, b) + v /\ Times(v, b) = Times(b, v) /\ Times(v, c) = Times(c, v)
  BY IsProduct, Distributes
<1>6. Times(b, u) = Times(b, v) + b /\ Times(c, u) = Times(c, v) + c
  BY <1>3, IsProduct, Distributes
<1>7. /\ Times(b, t) \in Int /\ Times(b, v) \in Int /\ Times(c, v) \in Int
  BY <1>1, IsProduct
<1> QED
  BY <1>1, <1>2, <1>4, <1>5, <1>6, <1>7

(* The price of n instalments is the price over what the fee leaves of it. *)
LEMMA IsTotal ==
  ASSUME NEW n \in Counts
  PROVE  \E b \in Nat :
           /\ 0 < b /\ b <= 10000 /\ FIXED_INSTALLMENT_RATES[n] = 10000 - b
           /\ \A p : p \in Nat => Rounds(Total(p, n), 10000 * p, b)
<1>1. PICK f \in 1..9999 : f = FIXED_INSTALLMENT_RATES[n]
  BY FeesGrow
<1>2. PICK b \in Nat : 0 < b /\ b <= 10000 /\ b = 10000 - f /\ f = 10000 - b
  OBVIOUS
<1>3. ASSUME NEW p \in Nat
      PROVE  Rounds(Total(p, n), 10000 * p, b)
  <2>1. PICK a \in Nat : a = p * 10000 /\ a = 10000 * p
    OBVIOUS
  <2>2. Total(p, n) = Rounded(a, b)
    BY <1>1, <1>2, <2>1 DEF Total
  <2>3. Rounds(Rounded(a, b), a, b)
    BY <1>2, IsRounded
  <2> QED
    BY <2>1, <2>2, <2>3
<1> QED
  BY <1>1, <1>2, <1>3

(* More instalments cost no less, and the price is the least.              *)
LEMMA FeesAreFees ==
  ASSUME NEW p \in Nat, NEW n \in Counts
  PROVE  /\ Total(p, n) \in Nat /\ Total(p, n) >= p
         /\ n > 1 => Total(p, n) >= Total(p, n - 1)
<1>1. PICK b \in Nat :
         b <= 10000 /\ FIXED_INSTALLMENT_RATES[n] = 10000 - b /\ Rounds(Total(p, n), 10000 * p, b)
  BY IsTotal
<1>2. PICK t \in Nat : t = Total(p, n) /\ 20000 * p + b < 2 * Times(b, t) + 2 * b
  BY <1>1 DEF Rounds
<1>3. t >= p
  <2> SUFFICES ASSUME t + 1 <= p PROVE FALSE
    OBVIOUS
  <2>1. Times(b, t + 1) <= Times(b, p) /\ Times(b, t + 1) = Times(b, t) + b
    BY IsProduct, Distributes, Monotone
  <2>2. Times(p, b) <= Times(p, 10000)
    BY <1>1, Monotone
  <2>3. Times(p, b) = Times(b, p) /\ Times(p, 10000) = 10000 * p
    BY IsProduct
  <2>4. Times(b, t) \in Int /\ Times(b, p) \in Int
    BY IsProduct
  <2> QED
    BY <1>2, <2>1, <2>2, <2>3, <2>4
<1>4. ASSUME n > 1
      PROVE  Total(p, n) >= Total(p, n - 1)
  <2>1. n - 1 \in Counts
    BY <1>4 DEF Counts
  <2>2. PICK c \in Nat :
          FIXED_INSTALLMENT_RATES[n - 1] = 10000 - c /\ Rounds(Total(p, n - 1), 10000 * p, c)
    BY <2>1, IsTotal
  <2>3. 10000 - c < 10000 - b
    BY <1>1, <1>4, <2>2, FeesGrow
  <2>4. b < c
    BY <2>3
  <2>5. Rounds(Total(p, n), 10000 * p, b) /\ Rounds(Total(p, n - 1), 10000 * p, c)
    BY <1>1, <2>2
  <2>6. 10000 * p \in Nat
    OBVIOUS
  <2> QED
    BY <2>4, <2>5, <2>6, LowerFee
<1> QED
  BY <1>2, <1>3, <1>4

(* A part paid at once is not charged.                                     *)
LEMMA EntrySaves ==
  ASSUME NEW p \in Nat, NEW e \in Nat, e <= p, NEW n \in Counts
  PROVE  e + Total(p - e, n) <= Total(p, n)
<1>1. PICK b \in Nat : b <= 10000 /\ \A q : q \in Nat => Rounds(Total(q, n), 10000 * q, b)
  BY IsTotal
<1>2. PICK d \in Nat : d = p - e
  OBVIOUS
<1>3. PICK t \in Nat : t = Total(p, n) /\ 20000 * p + b < 2 * Times(b, t) + 2 * b
  BY <1>1 DEF Rounds
<1>4. PICK u \in Nat : u = Total(d, n) /\ 2 * Times(b, u) <= 20000 * d + b
  BY <1>1 DEF Rounds
<1>5. e + u <= t
  <2> SUFFICES ASSUME t + 1 <= e + u PROVE FALSE
    OBVIOUS
  <2>1. Times(b, t + 1) <= Times(b, e + u)
    BY Monotone
  <2>2. Times(b, t + 1) = Times(b, t) + b /\ Times(b, e + u) = Times(b, e) + Times(b, u)
    BY IsProduct, Distributes
  <2>3. Times(e, b) <= Times(e, 10000)
    BY <1>1, Monotone
  <2>4. Times(e, b) = Times(b, e) /\ Times(e, 10000) = 10000 * e
    BY IsProduct
  <2>5. Times(b, t) \in Int /\ Times(b, e) \in Int /\ Times(b, u) \in Int
    BY IsProduct
  <2> QED
    BY <1>2, <1>3, <1>4, <2>1, <2>2, <2>3, <2>4, <2>5
<1> QED
  BY <1>2, <1>3, <1>4, <1>5

(* The parcels make up the whole, to a rounding cent each.                 *)
LEMMA ParcelsMakeTotal ==
  ASSUME NEW p \in Nat, NEW n \in Counts
  PROVE  2 * (Parcel(p, n) * n - Total(p, n)) \in -(n + 1)..(n + 1)
<1>1. PICK b \in Nat : 0 < b /\ FIXED_INSTALLMENT_RATES[n] = 10000 - b
                       /\ Rounds(Total(p, n), 10000 * p, b)
  BY IsTotal
<1>2. PICK t \in Nat : t = Total(p, n) /\ 2 * Times(b, t) <= 20000 * p + b
                                       /\ 20000 * p + b < 2 * Times(b, t) + 2 * b
  BY <1>1 DEF Rounds
<1>3. n \in Nat \ {0}
  BY DEF Counts
<1>4. PICK m \in Nat : m = b * n /\ m = Times(b, n) /\ m # 0
  <2>1. b * n \in Nat /\ b * n # 0
    BY <1>1, <1>3, SMT
  <2> QED
    BY <2>1 DEF Times
<1>5. PICK x \in Nat : x = Parcel(p, n) /\ 2 * Times(m, x) <= 20000 * p + m
                                        /\ 20000 * p + m < 2 * Times(m, x) + 2 * m
  <2>1. PICK a \in Nat : a = p * 10000 /\ 2 * a = 20000 * p
    OBVIOUS
  <2>2. 10000 - FIXED_INSTALLMENT_RATES[n] = b
    <3>1. 10000 - (10000 - b) = b
      OBVIOUS
    <3> QED
      BY <1>1, <3>1
  <2>3. Parcel(p, n) = Rounded(a, m)
    BY <1>4, <2>1, <2>2 DEF Parcel
  <2>4. Rounds(Rounded(a, m), a, m)
    BY <1>4, IsRounded
  <2> QED
    BY <2>1, <2>3, <2>4 DEF Rounds
<1>6. PICK y \in Nat : y = Parcel(p, n) * n /\ Times(m, x) = Times(b, y)
  <2>1. x * n \in Nat /\ (b * n) * x = b * (x * n)
    BY <1>3, SMT
  <2> QED
    BY <1>4, <1>5, <2>1 DEF Times
(* Both whole numbers are within b / 2 and m / 2 of 10000 p, as b counts.  *)
<1>7. 2 * (y - t) <= n + 1
  <2> SUFFICES ASSUME 2 * (y - t) >= n + 2 PROVE FALSE
    BY <1>3
  <2>1. Times(b, 2 * t + n + 2) <= Times(b, 2 * y)
    BY <1>3, Monotone
  <2>2. Times(b, 2 * t + n + 2) = 2 * Times(b, t) + m + 2 * b /\ Times(b, 2 * y) = 2 * Times(b, y)
    BY <1>3, <1>4, SMT DEF Times
  <2>3. Times(b, t) \in Int /\ Times(b, y) \in Int
    BY IsProduct
  <2> QED
    BY <1>1, <1>2, <1>5, <1>6, <2>1, <2>2, <2>3
<1>8. 2 * (t - y) <= n + 1
  <2> SUFFICES ASSUME 2 * (t - y) >= n + 2 PROVE FALSE
    BY <1>3
  <2>1. Times(b, 2 * y + n + 2) <= Times(b, 2 * t)
    BY <1>3, Monotone
  <2>2. Times(b, 2 * y + n + 2) = 2 * Times(b, y) + m + 2 * b /\ Times(b, 2 * t) = 2 * Times(b, t)
    BY <1>3, <1>4, SMT DEF Times
  <2>3. Times(b, t) \in Int /\ Times(b, y) \in Int
    BY IsProduct
  <2> QED
    BY <1>1, <1>2, <1>5, <1>6, <2>1, <2>2, <2>3
<1> QED
  BY <1>2, <1>3, <1>6, <1>7, <1>8
-----------------------------------------------------------------------------
(* All that the choices need to know of the points for a description.      *)
OverlapCounts == \A q, r : Overlap(q, r) \in Nat

(* What a turn is made of.                                                 *)
Fields == {"step", "msg", "todo", "found", "left", "urls", "blank", "shown", "sections"}
Whole(t) == t = [f \in Fields |-> t[f]]
IsMessage(m) ==
  /\ m = [wants |-> m.wants, both |-> m.both, entry |-> m.entry, words |-> m.words,
          parts |-> m.parts]
  /\ m.entry \in Nat

LEMMA IdleIs ==
  /\ Whole(Idle) /\ Idle.step = "idle" /\ IsMessage(Idle.msg)
  /\ Idle.found = {} /\ Idle.left = {} /\ Idle.urls = {} /\ Idle.blank = {} /\ Idle.shown = {}
  /\ Idle.sections = <<>>
<1>1. DOMAIN Idle = Fields /\ Idle = [f \in DOMAIN Idle |-> Idle[f]]
  BY DEF Idle, Fields
<1>2. IsMessage(NoMessage)
  BY DEF NoMessage, IsMessage
<1> QED
  BY <1>1, <1>2 DEF Whole, Idle

LEMMA WaitingIs ==
  ASSUME NEW step, NEW msg, NEW todo
  PROVE  LET t == Waiting(step, msg, todo) IN
         /\ Whole(t) /\ t.step = step /\ t.msg = msg /\ t.todo = todo
         /\ t.found = {} /\ t.left = {} /\ t.urls = {} /\ t.blank = {} /\ t.shown = {}
         /\ t.sections = <<>>
<1>1. ASSUME NEW i, Whole(i)
      PROVE  LET t == [i EXCEPT !.step = step, !.msg = msg, !.todo = todo] IN
             /\ Whole(t) /\ t.step = step /\ t.msg = msg /\ t.todo = todo /\ t.found = i.found
             /\ t.left = i.left /\ t.urls = i.urls /\ t.blank = i.blank /\ t.shown = i.shown
             /\ t.sections = i.sections
  BY <1>1 DEF Whole, Fields
<1> QED
  BY <1>1, IdleIs DEF Waiting

(* Turn i, but for the units shown and the tables written.                 *)
Altered(t, i, shown, sections) ==
  /\ Whole(t) /\ t.step = i.step /\ t.msg = i.msg /\ t.todo = i.todo /\ t.found = i.found
  /\ t.left = i.left /\ t.urls = i.urls /\ t.blank = i.blank /\ t.shown = shown
  /\ t.sections = sections

LEMMA AlteredIs ==
  ASSUME NEW i, NEW shown, NEW sections, Whole(i)
  PROVE  /\ Altered([i EXCEPT !.shown = shown], i, shown, i.sections)
         /\ Altered([i EXCEPT !.sections = sections], i, i.shown, sections)
         /\ Altered([i EXCEPT !.shown = shown, !.sections = sections], i, shown, sections)
<1>1. Altered([i EXCEPT !.shown = shown], i, shown, i.sections)
  BY DEF Whole, Fields, Altered
<1>2. Altered([i EXCEPT !.sections = sections], i, i.shown, sections)
  BY DEF Whole, Fields, Altered
<1>3. Altered([i EXCEPT !.shown = shown, !.sections = sections], i, shown, sections)
  BY DEF Whole, Fields, Altered
<1> QED
  BY <1>1, <1>2, <1>3

AnswerFields == {"kind", "msg", "query", "found", "sections", "rows", "unseen", "blank"}
Spoken(out, t, kind, sections, which) ==
  /\ out = [turn |-> out.turn, said |-> out.said] /\ out.turn = Idle
  /\ out.said.kind = kind /\ out.said.sections = sections /\ out.said.rows = which
  /\ out.said.blank = t.blank /\ out.said.unseen = {}
  /\ out.said = [f \in AnswerFields |-> out.said[f]]

LEMMA SaysIs ==
  \A t, kind, sections, which : Spoken(Says(t, kind, sections, which), t, kind, sections, which)
<1> SUFFICES ASSUME NEW t, NEW kind, NEW sections, NEW which
             PROVE  Spoken(Says(t, kind, sections, which), t, kind, sections, which)
  OBVIOUS
<1>1. NoAnswer = [f \in AnswerFields |-> NoAnswer[f]] /\ NoAnswer.unseen = {}
  <2>1. DOMAIN NoAnswer = AnswerFields /\ NoAnswer = [f \in DOMAIN NoAnswer |-> NoAnswer[f]]
    BY DEF NoAnswer, AnswerFields
  <2> QED
    BY <2>1 DEF NoAnswer
<1> DEFINE said == [NoAnswer EXCEPT !.kind = kind, !.msg = t.msg, !.query = Query(t),
                                    !.found = t.found, !.sections = sections, !.rows = which,
                                    !.blank = t.blank]
<1>2. /\ said.kind = kind /\ said.sections = sections /\ said.rows = which
      /\ said.blank = t.blank /\ said.unseen = {} /\ said = [f \in AnswerFields |-> said[f]]
  BY <1>1 DEF AnswerFields
<1>3. Says(t, kind, sections, which) = [turn |-> Idle, said |-> said]
  BY DEF Says
<1> HIDE DEF said
<1> QED
  BY <1>2, <1>3 DEF Spoken

LEMMA GoesIs ==
  ASSUME NEW t
  PROVE  /\ Goes(t).turn = t /\ Goes(t).said = NoAnswer
         /\ NoAnswer.sections = <<>> /\ NoAnswer.unseen = {} /\ NoAnswer.kind = "none"
         /\ NoAnswer.blank = {}
BY DEF Goes, NoAnswer

LEMMA ShowsIs ==
  ASSUME NEW t, NEW units, NEW failedNow
  PROVE  LET out == Shows(t, units, failedNow)
             missing == {r \in units : r.id \notin t.urls /\ r.id \notin failedNow}
         IN /\ out.turn = Idle /\ out.said.sections = <<>> /\ out.said.kind # "tables"
            /\ out.said.blank = t.blank /\ out.said.unseen = missing
<1> DEFINE sent == {r \in units : r.id \in t.urls}
           missing == {r \in units : r.id \notin t.urls /\ r.id \notin failedNow}
           kind == IF units = sent THEN "photos" ELSE IF missing # {} THEN "missing" ELSE "retry"
           said == Says(t, kind, <<>>, units)
<1>1. missing = {r \in units \ sent : r.id \notin failedNow}
  OBVIOUS
<1>2. Shows(t, units, failedNow) = [said EXCEPT !.said.unseen = missing]
  BY <1>1 DEF Shows
<1>3. kind # "tables"
  OBVIOUS
<1> HIDE DEF sent, missing, kind
<1>4. Spoken(said, t, kind, <<>>, units)
  BY SaysIs
<1> HIDE DEF said
<1> DEFINE now == [said.said EXCEPT !.unseen = missing]
<1>5. now.sections = <<>> /\ now.kind = kind /\ now.blank = t.blank /\ now.unseen = missing
  BY <1>4 DEF Spoken, AnswerFields
<1>6. [said EXCEPT !.said.unseen = missing] = [turn |-> said.turn, said |-> now]
  BY <1>4 DEF Spoken
<1> HIDE DEF now
<1> QED
  BY <1>2, <1>3, <1>4, <1>5, <1>6 DEF missing, Spoken, AnswerFields

(* A first search is never for a table of "os dois".                       *)
LEMMA FirstWaits ==
  ASSUME NEW msg, NEW h
  PROVE  \E step, todo : First(msg, h) = Waiting(step, msg, todo) /\ step # "tables"
<1>1. CASE msg.wants = "photos"
  <2>1. PICK step : step = IF Cardinality(ProductContextQuery(msg.words, h, FALSE).models) > 1
                           THEN "batch" ELSE "finder"
    OBVIOUS
  <2>2. step # "tables"
    BY <2>1
  <2>3. First(msg, h) = Waiting(step, msg, <<Ask(ProductContextQuery(msg.words, h, FALSE))>>)
    BY <1>1, <2>1, Zenon DEF First
  <2> QED
    BY <2>2, <2>3
<1>2. CASE msg.wants \in {"sealed", "promotion"}
  <2>1. First(msg, h) = Waiting(msg.wants, msg, <<Ask(InCondition("used"))>>)
    <3>1. msg.wants # "photos"
      BY <1>2
    <3> QED
      BY <1>2, <3>1, Zenon DEF First
  <2>2. msg.wants # "tables"
    BY <1>2
  <2> QED
    BY <2>1, <2>2
<1>3. CASE msg.wants \notin {"photos", "sealed", "promotion"} /\ msg.entry = 0 /\ msg.parts # {}
  <2>1. First(msg, h) = Waiting("models", msg, SetToSeq(Segments(msg, h)))
    BY <1>3, Zenon DEF First
  <2> QED
    BY <2>1
<1>4. CASE msg.wants \notin {"photos", "sealed", "promotion"} /\ ~(msg.entry = 0 /\ msg.parts # {})
  <2>1. PICK step : step = IF msg.entry > 0 THEN "entry" ELSE "table"
    OBVIOUS
  <2>2. step # "tables"
    BY <2>1
  <2>3. First(msg, h) = Waiting(step, msg, <<Ask(InstallmentContextQuery(msg.words, h))>>)
    BY <1>4, <2>1, Zenon DEF First
  <2> QED
    BY <2>2, <2>3
<1> QED
  BY <1>1, <1>2, <1>3, <1>4
-----------------------------------------------------------------------------
(* What a turn may hold while it waits: rows that have a price and an own  *)
(* number, tables that may be sent; and for "os dois", searches by the     *)
(* label of the unit that they are for, and tables that stand under the    *)
(* label of a unit like theirs.                                            *)
Titled(e) ==
  \A l \in e.of : /\ e.query.models = {l.model} /\ e.query.hint = Unsaid
                  /\ e.query.conditions = {Wording(l)} /\ e.query.condition = Wording(l)
                  /\ e.query.battery = l.battery
Under(s) ==
  \A l \in s.of : /\ s.row.model = l.model /\ s.row.price = l.price
                  /\ IsSealed(s.row) <=> IsSealed(l)
                  /\ l.battery # 0 => s.row.battery = l.battery
Listed(found) ==
  /\ IsFiniteSet(found)
  /\ \A r \in found : r.price \in Nat /\ \A u \in found : r.id = u.id => r = u
Tabled(sections) ==
  sections \in Seq(Range(sections)) /\ \A s \in Range(sections) : Payable(s)
Labelling(t) ==
  /\ t.todo \in Seq(Range(t.todo)) /\ t.todo # <<>>
  /\ \A e \in Range(t.todo) : Titled(e)
  /\ \A s \in Range(t.sections) : Under(s)
  /\ \A r \in t.found : OfModel(r, Query(t)) /\ OfCondition(r, AvailabilityCondition(Query(t)))

TurnInv(t) ==
  /\ Whole(t) /\ IsMessage(t.msg) /\ Listed(t.found) /\ t.left \subseteq t.found
  /\ Tabled(t.sections)
  /\ t.step = "tables" => Labelling(t)
AnswerInv(a) ==
  \A s \in Range(a.sections) : Payable(s) /\ (a.kind = "tables" => Under(s))

(* What a conclusion of turn t may be, after the lookups failedNow.        *)
Concluded(t, failedNow, out) ==
  /\ TurnInv(out.turn) /\ out.turn.found = {} /\ AnswerInv(out.said)
  /\ \/ out.said.unseen = {}
     \/ /\ out.said.blank = t.blank
        /\ out.said.unseen \subseteq {r \in t.found : r.id \notin t.urls /\ r.id \notin failedNow}

LEMMA NoTables == Tabled(<<>>) /\ Range(<<>>) = {} /\ Listed({})
BY SingleRange, FS_EmptySet DEF Tabled, Listed

LEMMA SaidOk ==
  ASSUME NEW t, NEW failedNow, NEW kind, NEW sections, NEW which,
         \A s \in Range(sections) : Payable(s) /\ (kind = "tables" => Under(s))
  PROVE  Concluded(t, failedNow, Says(t, kind, sections, which))
<1>1. TurnInv(Idle)
  BY IdleIs, NoTables DEF TurnInv
<1>2. LET out == Says(t, kind, sections, which) IN
        out.turn = Idle /\ out.said.kind = kind /\ out.said.sections = sections /\ out.said.unseen = {}
  BY SaysIs DEF Spoken
<1> QED
  BY <1>1, <1>2, IdleIs DEF Concluded, AnswerInv

LEMMA ShownOk ==
  ASSUME NEW t, NEW failedNow, NEW units, units \subseteq t.found
  PROVE  Concluded(t, failedNow, Shows(t, units, failedNow))
<1>1. TurnInv(Idle)
  BY IdleIs, NoTables DEF TurnInv
<1>2. LET out == Shows(t, units, failedNow) IN
         /\ out.turn = Idle /\ out.said.sections = <<>> /\ out.said.blank = t.blank
         /\ out.said.unseen = {r \in units : r.id \notin t.urls /\ r.id \notin failedNow}
  BY ShowsIs
<1> QED
  BY <1>1, <1>2, IdleIs, NoTables DEF Concluded, AnswerInv

LEMMA GoesOk ==
  ASSUME NEW t, NEW failedNow, NEW next, TurnInv(next), next.found = {}
  PROVE  Concluded(t, failedNow, Goes(next))
BY GoesIs, NoTables DEF Concluded, AnswerInv

(* A turn that only waits for a search.                                    *)
LEMMA WaitsOk ==
  ASSUME NEW step, NEW msg, NEW todo, step # "tables", IsMessage(msg),
         NEW shown, NEW sections, Tabled(sections)
  PROVE  LET t == Waiting(step, msg, todo) IN
         /\ TurnInv(t) /\ TurnInv([t EXCEPT !.shown = shown])
         /\ TurnInv([t EXCEPT !.sections = sections])
         /\ TurnInv([t EXCEPT !.shown = shown, !.sections = sections])
         /\ t.found = {} /\ [t EXCEPT !.shown = shown].found = {}
         /\ [t EXCEPT !.sections = sections].found = {}
         /\ [t EXCEPT !.shown = shown, !.sections = sections].found = {}
<1> DEFINE t == Waiting(step, msg, todo)
<1>1. /\ Whole(t) /\ t.step = step /\ t.msg = msg /\ t.found = {} /\ t.left = {}
      /\ t.sections = <<>>
  BY WaitingIs
<1> HIDE DEF t
<1> DEFINE a == [t EXCEPT !.shown = shown]
           b == [t EXCEPT !.sections = sections]
           c == [t EXCEPT !.shown = shown, !.sections = sections]
<1>2. Altered(a, t, shown, t.sections)
  BY <1>1, AlteredIs
<1>3. Altered(b, t, t.shown, sections)
  BY <1>1, AlteredIs
<1>4. Altered(c, t, shown, sections)
  BY <1>1, AlteredIs
<1> HIDE DEF a, b, c
<1>5. TurnInv(t) /\ TurnInv(a) /\ TurnInv(b) /\ TurnInv(c)
  BY <1>1, <1>2, <1>3, <1>4, NoTables DEF TurnInv, Altered
<1> QED
  BY <1>1, <1>2, <1>3, <1>4, <1>5 DEF a, b, c, t, Altered

LEMMA FirstOk ==
  ASSUME NEW msg, NEW h, IsMessage(msg)
  PROVE  TurnInv(First(msg, h)) /\ First(msg, h).found = {}
<1>1. PICK step, todo : First(msg, h) = Waiting(step, msg, todo) /\ step # "tables"
  BY FirstWaits
<1>2. TurnInv(Waiting(step, msg, todo)) /\ Waiting(step, msg, todo).found = {}
  BY <1>1, WaitsOk, NoTables, Zenon
<1> QED
  BY <1>1, <1>2
-----------------------------------------------------------------------------
(* The selections of the catalog.                                          *)
LEMMA RowsOfFirst ==
  ASSUME NEW q, NEW found, NEW n, NEW top \in FirstRows(q, found, n)
  PROVE  top \subseteq found
BY DEF FirstRows, kSubset

LEMMA NarrowedRows ==
  ASSUME NEW q, NEW override, NEW found
  PROVE  /\ Narrowed(q, override, found) \subseteq found
         /\ q.battery # 0 /\ q.hint = Unsaid =>
              \A r \in Narrowed(q, override, found) : r.battery = q.battery
BY DEF Narrowed

LEMMA Selections ==
  ASSUME NEW q, NEW override, NEW found, NEW s \in SelectPricedCandidate(q, override, found)
  PROVE  /\ s.rows \subseteq found
         /\ s.kind = "row" =>
              \E r \in found : /\ s.rows = {r}
                               /\ q.battery # 0 /\ q.hint = Unsaid => r.battery = q.battery
<1> DEFINE kept == Narrowed(q, override, found)
           best == Best(q, kept)
<1>1. kept \subseteq found /\ best \subseteq kept
  BY NarrowedRows DEF Best
<1>2. CASE s = NotFound
  BY <1>2 DEF NotFound
<1>3. CASE \E top \in FirstRows(q, kept, CandidateLimit) : s = Which(top)
  BY <1>1, <1>3, RowsOfFirst DEF Which
<1>4. CASE \E r \in best : s = Selected(r)
  <2>1. PICK r \in best : s = [kind |-> "row", rows |-> {r}]
    BY <1>4 DEF Selected
  <2>2. r \in kept
    BY <1>1
  <2>3. r \in found /\ (q.battery # 0 /\ q.hint = Unsaid => r.battery = q.battery)
    BY <2>2, NarrowedRows
  <2>4. s.rows = {r}
    BY <2>1
  <2> QED
    BY <2>3, <2>4
<1> QED
  <2> HIDE DEF best
  <2>1. SelectPricedCandidate(q, override, found) \in
          {{NotFound}, {Which(top) : top \in FirstRows(q, kept, CandidateLimit)},
           {Selected(r) : r \in best}}
    BY DEF SelectPricedCandidate, best
  <2> HIDE DEF kept
  <2> QED
    BY <1>2, <1>3, <1>4, <2>1

(* What one text after the other says.                                     *)
Words == {"models", "names", "plain", "capacities", "first", "hint", "colours", "mark",
          "battery", "conditions", "condition", "prices"}

LEMMA NoWordsIs ==
  /\ DOMAIN NoWords = Words
  /\ NoWords.models = {} /\ NoWords.hint = Unsaid /\ NoWords.battery = 0
  /\ NoWords.condition = Unsaid
BY SMTT(60) DEF NoWords, Words

LEMMA ThenIs ==
  \A a, b : LET q == Then(a, b) IN
    /\ q.models = Either(b.models, a.models, {}) /\ q.capacities = a.capacities \cup b.capacities
    /\ q.hint = Either(a.hint, b.hint, Unsaid) /\ q.colours = a.colours \cup b.colours
    /\ q.battery = Either(b.battery, a.battery, 0) /\ q.conditions = a.conditions \cup b.conditions
    /\ q.condition = Either(b.condition, a.condition, Unsaid)
<1> SUFFICES ASSUME NEW a, NEW b
             PROVE  LET q == Then(a, b) IN
                    /\ q.models = Either(b.models, a.models, {})
                    /\ q.capacities = a.capacities \cup b.capacities
                    /\ q.hint = Either(a.hint, b.hint, Unsaid)
                    /\ q.colours = a.colours \cup b.colours
                    /\ q.battery = Either(b.battery, a.battery, 0)
                    /\ q.conditions = a.conditions \cup b.conditions
                    /\ q.condition = Either(b.condition, a.condition, Unsaid)
  OBVIOUS
<1> QED
  BY NoWordsIs DEF Then, Words

LEMMA ThenNames == \A a, b : DOMAIN Then(a, b) = Words
BY NoWordsIs DEF Then

LEMMA CapacityIs ==
  ASSUME NEW size
  PROVE  /\ Capacity(size).models = {} /\ Capacity(size).hint = Unsaid
         /\ Capacity(size).battery = 0 /\ Capacity(size).conditions = {}
         /\ Capacity(size).condition = Unsaid
BY DEF Capacity, NoWords

LEMMA InConditionIs ==
  ASSUME NEW of
  PROVE  /\ InCondition(of).models = {} /\ InCondition(of).hint = Unsaid
         /\ InCondition(of).battery = 0 /\ InCondition(of).conditions = {of} \ {Unsaid}
         /\ InCondition(of).condition = of
BY DEF InCondition, NoWords

(* The search by a label finds its model, its condition and its battery.   *)
LEMMA WordsOf ==
  ASSUME NEW l
  PROVE  LET q == [Labelled(l) EXCEPT !.colours = {l.colour}, !.prices = {}] IN
         /\ q.models = {l.model} /\ q.hint = Unsaid /\ q.battery = l.battery
         /\ q.conditions = {Wording(l)} /\ q.condition = Wording(l)
<1> DEFINE a == Then(InCondition(Unsaid), Capacity(l.capacity))
           b == Card(l)
           c == Then(b, InCondition(Wording(l)))
           q == [Labelled(l) EXCEPT !.colours = {l.colour}, !.prices = {}]
<1>1. DOMAIN a = Words /\ a.hint = Unsaid /\ a.conditions = {}
      /\ a.condition = Unsaid
  <2>1. a.hint = Unsaid /\ a.conditions = {} /\ a.condition = Unsaid
    BY ThenIs, CapacityIs, InConditionIs DEF Either
  <2> QED
    BY <2>1, ThenNames
<1>2. b = [a EXCEPT !.models = {l.model}, !.names = Written(l.model), !.colours = {l.colour},
                    !.battery = l.battery, !.prices = {l.price}]
  BY DEF Card
<1> HIDE DEF a, b
<1>3. b.models = {l.model} /\ b.hint = Unsaid /\ b.conditions = {} /\ b.condition = Unsaid
      /\ b.battery = l.battery
  BY <1>1, <1>2 DEF Words
<1>4. Wording(l) \in {"sealed", "used"} /\ Wording(l) # Unsaid
  BY DEF Wording, Unsaid
<1>5. /\ InCondition(Wording(l)).models = {} /\ InCondition(Wording(l)).hint = Unsaid
      /\ InCondition(Wording(l)).battery = 0 /\ InCondition(Wording(l)).conditions = {Wording(l)}
      /\ InCondition(Wording(l)).condition = Wording(l)
  BY <1>4, InConditionIs
<1>6. /\ DOMAIN c = Words /\ c.models = {l.model} /\ c.hint = Unsaid
      /\ c.battery = l.battery /\ c.conditions = {Wording(l)} /\ c.condition = Wording(l)
  <2>1. DOMAIN c = Words
    BY ThenNames
  <2>2. c.models = {l.model} /\ c.hint = Unsaid /\ c.battery = l.battery
    BY <1>3, <1>5, ThenIs DEF Either
  <2>3. c.conditions = {Wording(l)} /\ c.condition = Wording(l)
    BY <1>3, <1>5, ThenIs DEF Either
  <2> QED
    BY <2>1, <2>2, <2>3
<1>7. Labelled(l) = [c EXCEPT !.colours = {}]
  BY DEF Labelled, Wording, b
<1> HIDE DEF c
<1>8. q = [[c EXCEPT !.colours = {}] EXCEPT !.colours = {l.colour}, !.prices = {}]
  BY <1>7
<1> HIDE DEF q
<1> QED
  BY <1>6, <1>8 DEF q, Words
-----------------------------------------------------------------------------
(* What each handler concludes.                                            *)
LEMMA SectionIs ==
  ASSUME NEW of, NEW r, NEW entry
  PROVE  /\ Section(of, r, entry).of = of /\ Section(of, r, entry).row = r
         /\ Section(of, r, entry).entry = entry
BY DEF Section

LEMMA OneTable ==
  ASSUME NEW of, NEW r, NEW entry, r.price \in Nat, entry \in Nat,
         entry = 0 \/ EntryAccepted(r.price, entry)
  PROVE  \A s \in Range(<<Section(of, r, entry)>>) : Payable(s)
BY SectionIs, SingleRange DEF Payable

LEMMA ConditionsOk ==
  ASSUME NEW t, NEW h, NEW failedNow, TurnInv(t), NEW out \in Conditions(t, h)
  PROVE  Concluded(t, failedNow, out)
<1>1. CASE out = Says(t, "which", <<>>, t.shown)
  BY <1>1, SaidOk, NoTables
<1>2. CASE \E todo : out = Goes([Waiting("conditions", t.msg, todo) EXCEPT !.shown = t.shown])
  <2>1. PICK todo : out = Goes([Waiting("conditions", t.msg, todo) EXCEPT !.shown = t.shown])
    BY <1>2
  <2>2. IsMessage(t.msg)
    BY DEF TurnInv
  <2> DEFINE next == [Waiting("conditions", t.msg, todo) EXCEPT !.shown = t.shown]
  <2>3. TurnInv(next) /\ next.found = {}
    BY <2>2, WaitsOk, NoTables
  <2> HIDE DEF next
  <2>4. Concluded(t, failedNow, Goes(next))
    BY <2>3, GoesOk
  <2> QED
    BY <2>1, <2>4 DEF next
<1> QED
  BY <1>1, <1>2 DEF Conditions

LEMMA BothOk ==
  ASSUME NEW t, NEW h, NEW failedNow, TurnInv(t), IsFiniteSet(t.shown), NEW out \in Both(t, h)
  PROVE  Concluded(t, failedNow, out)
<1> DEFINE Own(r) == [query |-> [Labelled(r) EXCEPT !.colours = {r.colour}, !.prices = {}],
                      of |-> {r}]
           asks == {Own(r) : r \in t.shown}
           next == [Waiting("tables", t.msg, SetToSeq(asks)) EXCEPT !.shown = t.shown]
<1>1. CASE out \in Conditions(t, h)
  BY <1>1, ConditionsOk
<1>2. CASE out = Goes(next) /\ Cardinality(t.shown) = 2
  <2>1. t.shown # {}
    <3>1. Cardinality(t.shown) = 2
      BY <1>2
    <3> HIDE DEF asks, next
    <3> QED
      BY <3>1, FS_EmptySet
  <2>2. asks # {} /\ IsFiniteSet(asks)
    <3>1. asks # {}
      BY <2>1
    <3>2. IsFiniteSet(asks)
      <4> DEFINE f == [r \in t.shown |-> Own(r)]
      <4> HIDE DEF Own
      <4>1. f \in Surjection(t.shown, asks)
        BY DEF Surjection
      <4> HIDE DEF f, asks
      <4> QED
        BY <4>1, FS_Surjection
    <3> QED
      BY <3>1, <3>2
  <2>3. \A e \in asks : Titled(e)
    <3> SUFFICES ASSUME NEW r \in t.shown
                 PROVE  Titled(Own(r))
      OBVIOUS
    <3> QED
      BY WordsOf DEF Titled
  <2> DEFINE todo == SetToSeq(asks)
  <2>4. todo \in Seq(Range(todo)) /\ Range(todo) \subseteq asks /\ todo # <<>>
    <3> HIDE DEF asks
    <3> QED
      BY <2>2, SeqOfSet
  <2>5. /\ Whole(next) /\ next.step = "tables" /\ next.msg = t.msg /\ next.todo = todo
        /\ next.found = {} /\ next.left = {} /\ next.sections = <<>>
    <3> HIDE DEF asks
    <3> DEFINE w == Waiting("tables", t.msg, todo)
    <3>1. /\ Whole(w) /\ w.step = "tables" /\ w.msg = t.msg /\ w.todo = todo
          /\ w.found = {} /\ w.left = {} /\ w.sections = <<>>
      BY WaitingIs
    <3> HIDE DEF w
    <3>2. Altered([w EXCEPT !.shown = t.shown], w, t.shown, w.sections)
      BY <3>1, AlteredIs
    <3> QED
      BY <3>1, <3>2 DEF Altered, w
  <2> HIDE DEF asks, next, todo
  <2>6. Labelling(next)
    BY <2>3, <2>4, <2>5, NoTables DEF Labelling
  <2>7. TurnInv(next)
    BY <2>5, <2>6, NoTables DEF TurnInv
  <2> QED
    BY <1>2, <2>5, <2>7, GoesOk
<1> QED
  BY <1>1, <1>2 DEF Both

LEMMA TableOk ==
  ASSUME NEW t, NEW h, NEW failedNow, TurnInv(t), t.step = "table",
         NEW s, s.rows \subseteq t.found, NEW out \in Table(t, s, h)
  PROVE  Concluded(t, failedNow, out)
<1>1. CASE s.kind = "row"
  <2>1. PICK r \in s.rows : out = Says(t, "table", <<Section(s.rows, r, 0)>>, {})
    BY <1>1 DEF Table
  <2>2. r.price \in Nat
    BY DEF TurnInv, Listed
  <2> QED
    BY <2>1, <2>2, OneTable, SaidOk
<1>2. CASE s.kind = "which"
  <2> DEFINE n == [t EXCEPT !.shown = s.rows]
  <2>1. out \in Both(n, h)
    BY <1>2 DEF Table
  <2>2. Altered(n, t, s.rows, t.sections)
    BY AlteredIs DEF TurnInv
  <2> HIDE DEF n
  <2>3. TurnInv(n) /\ n.shown = s.rows /\ n.found = t.found /\ n.blank = t.blank /\ n.urls = t.urls
    BY <2>2 DEF TurnInv, Altered
  <2>4. IsFiniteSet(s.rows)
    BY FS_Subset DEF TurnInv, Listed
  <2>5. Concluded(n, failedNow, out)
    BY <2>1, <2>3, <2>4, BothOk
  <2> QED
    BY <2>3, <2>5 DEF Concluded
<1>3. CASE s.kind \notin {"row", "which"}
  <2>1. out = Says(t, "nothing", <<>>, {})
    BY <1>3 DEF Table
  <2> QED
    BY <2>1, SaidOk, NoTables
<1> QED
  BY <1>1, <1>2, <1>3

LEMMA EntryOk ==
  ASSUME NEW t, NEW h, NEW failedNow, TurnInv(t),
         NEW s, s.rows \subseteq t.found, NEW out \in Entry(t, s, h)
  PROVE  Concluded(t, failedNow, out)
<1>1. CASE \E r \in s.rows : /\ EntryAccepted(r.price, t.msg.entry)
                             /\ out = Says(t, "table", <<Section({r}, r, t.msg.entry)>>, {})
  <2>1. PICK r \in s.rows : /\ EntryAccepted(r.price, t.msg.entry)
                            /\ out = Says(t, "table", <<Section({r}, r, t.msg.entry)>>, {})
    BY <1>1
  <2>2. r.price \in Nat /\ t.msg.entry \in Nat
    BY DEF TurnInv, Listed, IsMessage
  <2> QED
    BY <2>1, <2>2, OneTable, SaidOk
<1>2. CASE out = Says(t, "which", <<>>, s.rows)
  BY <1>2, SaidOk, NoTables
<1>3. CASE out = Goes(First([t.msg EXCEPT !.entry = 0], h))
  <2>1. IsMessage([t.msg EXCEPT !.entry = 0])
    BY DEF TurnInv, IsMessage
  <2> QED
    BY <1>3, <2>1, FirstOk, GoesOk
<1> QED
  BY <1>1, <1>2, <1>3 DEF Entry

(* Each section of several tables: the row found, under what was asked.    *)
LEMMA EachSection ==
  ASSUME NEW t, TurnInv(t), NEW s, s.kind = "row", NEW r \in t.found, s.rows = {r},
         t.step = "tables" =>
           /\ Query(t).battery # 0 /\ Query(t).hint = Unsaid => r.battery = Query(t).battery
           /\ \A l \in t.todo[1].of : r.price = l.price
  PROVE  LET done == Append(t.sections, Section(t.todo[1].of, CHOOSE x \in s.rows : TRUE, 0)) IN
         /\ Tabled(done)
         /\ t.step = "tables" => \A u \in Range(done) : Under(u)
<1> DEFINE new == Section(t.todo[1].of, CHOOSE x \in s.rows : TRUE, 0)
           done == Append(t.sections, new)
<1>1. (CHOOSE x \in s.rows : TRUE) = r
  OBVIOUS
<1>2. new.of = t.todo[1].of /\ new.row = r /\ new.entry = 0
  BY <1>1, SectionIs
<1> HIDE DEF new
<1>3. done \in Seq(Range(done)) /\ Range(done) = Range(t.sections) \cup {new}
  BY AppendedRange DEF TurnInv, Tabled
<1>4. Payable(new)
  BY <1>2 DEF TurnInv, Listed, Payable
<1>5. ASSUME t.step = "tables"
      PROVE  Under(new)
  <2>1. Labelling(t)
    BY <1>5 DEF TurnInv
  <2>2. t.todo[1] \in Range(t.todo)
    BY <2>1, TailRange DEF Labelling
  <2>3. Titled(t.todo[1])
    BY <2>1, <2>2 DEF Labelling
  <2>4. OfModel(r, Query(t)) /\ OfCondition(r, AvailabilityCondition(Query(t)))
    BY <2>1 DEF Labelling
  <2> SUFFICES ASSUME NEW l \in t.todo[1].of
               PROVE  /\ r.model = l.model /\ r.price = l.price
                      /\ IsSealed(r) <=> IsSealed(l)
                      /\ l.battery # 0 => r.battery = l.battery
    BY <1>2 DEF Under
  <2> DEFINE q == Query(t)
  <2>5. /\ q.models = {l.model} /\ q.hint = Unsaid /\ q.conditions = {Wording(l)}
        /\ q.condition = Wording(l) /\ q.battery = l.battery
    BY <2>3 DEF Titled, Query
  <2> HIDE DEF q
  <2>6. r.model = l.model
    BY <2>4, <2>5 DEF OfModel, q
  <2>7. Cardinality(q.conditions) = 1
    BY <2>5, FS_Singleton
  <2>8. OfCondition(r, Wording(l))
    BY <2>4, <2>5, <2>7 DEF AvailabilityCondition, q
  <2>9. IsSealed(r) <=> IsSealed(l)
    BY <2>8 DEF OfCondition, Wording, Unsaid
  <2>10. r.price = l.price
    BY <1>5
  <2>11. l.battery # 0 => r.battery = l.battery
    BY <1>5, <2>5 DEF q
  <2> QED
    BY <2>6, <2>9, <2>10, <2>11
<1>6. t.step = "tables" => \A u \in Range(t.sections) : Under(u)
  BY DEF TurnInv, Labelling
<1> QED
  BY <1>3, <1>4, <1>5, <1>6 DEF TurnInv, Tabled, new

LEMMA EachOk ==
  ASSUME NEW t, NEW h, NEW failedNow, TurnInv(t),
         NEW s \in Found(t), NEW out \in Each(t, s, h)
  PROVE  Concluded(t, failedNow, out)
<1> DEFINE done == Append(t.sections, Section(t.todo[1].of, CHOOSE r \in s.rows : TRUE, 0))
           holds == /\ s.kind = "row"
                    /\ t.step = "tables" => \A r \in s.rows, l \in t.todo[1].of : r.price = l.price
           next == [Waiting(t.step, t.msg, Tail(t.todo)) EXCEPT !.shown = t.shown, !.sections = done]
<1>1. IsMessage(t.msg) /\ Tabled(t.sections)
  BY DEF TurnInv
<1>2. ASSUME holds
      PROVE  Tabled(done) /\ (t.step = "tables" => \A u \in Range(done) : Under(u))
  <2>1. PICK r \in t.found :
          /\ s.rows = {r}
          /\ Query(t).battery # 0 /\ Query(t).hint = Unsaid => r.battery = Query(t).battery
    BY <1>2, Selections DEF Found
  <2>2. t.step = "tables" => \A l \in t.todo[1].of : r.price = l.price
    BY <1>2, <2>1
  <2>3. s.kind = "row"
    BY <1>2
  <2> HIDE DEF holds
  <2> QED
    BY <2>1, <2>2, <2>3, EachSection
<1>3. CASE t.step = "models" /\ s.kind # "row" /\ Len(t.todo) > 1
  <2> DEFINE skip == [Waiting(t.step, t.msg, Tail(t.todo)) EXCEPT !.sections = t.sections]
  <2>1. out = Goes(skip)
    BY <1>3 DEF Each
  <2>2. TurnInv(skip) /\ skip.found = {}
    BY <1>1, <1>3, WaitsOk
  <2> HIDE DEF skip
  <2> QED
    BY <2>1, <2>2, GoesOk
<1>4. CASE t.step = "models" /\ s.kind # "row" /\ ~(Len(t.todo) > 1)
  <2>1. out = Says(t, t.step, t.sections, {})
    BY <1>4 DEF Each
  <2>2. \A u \in Range(t.sections) : Payable(u)
    BY <1>1 DEF Tabled
  <2> QED
    BY <1>4, <2>1, <2>2, SaidOk
<1>5. CASE ~(t.step = "models" /\ s.kind # "row") /\ ~holds
  <2>1. out \in Conditions(t, h) \/ out = Says(t, "which", <<>>, t.shown)
    BY <1>5 DEF Each
  <2> QED
    BY <2>1, ConditionsOk, SaidOk, NoTables
<1>6. CASE holds /\ Len(t.todo) = 1
  <2>1. out = Says(t, t.step, done, {})
    BY <1>6 DEF Each
  <2>2. \A u \in Range(done) : Payable(u) /\ (t.step = "tables" => Under(u))
    BY <1>2, <1>6 DEF Tabled
  <2> HIDE DEF done, holds
  <2> QED
    BY <2>1, <2>2, SaidOk
<1>7. CASE holds /\ Len(t.todo) # 1
  <2>1. out = Goes(next)
    BY <1>7 DEF Each
  <2> DEFINE w == Waiting(t.step, t.msg, Tail(t.todo))
  <2>2. /\ Whole(w) /\ w.step = t.step /\ w.msg = t.msg /\ w.todo = Tail(t.todo)
        /\ w.found = {} /\ w.left = {} /\ w.sections = <<>>
    BY WaitingIs
  <2> HIDE DEF w, done, holds
  <2>3. Altered(next, w, t.shown, done)
    BY <2>2, AlteredIs DEF w
  <2> HIDE DEF next
  <2>4. t.step = "tables" => Labelling(next)
    <3> SUFFICES ASSUME t.step = "tables"
                 PROVE  Labelling(next)
      OBVIOUS
    <3>1. Labelling(t)
      BY DEF TurnInv
    <3>2. /\ Tail(t.todo) \in Seq(Range(Tail(t.todo))) /\ Tail(t.todo) # <<>>
          /\ Range(Tail(t.todo)) \subseteq Range(t.todo)
      BY <1>7, <3>1, TailRange DEF Labelling
    <3>3. next.todo = Tail(t.todo) /\ next.sections = done /\ next.found = {}
      BY <2>2, <2>3 DEF Altered
    <3>4. \A e \in Range(Tail(t.todo)) : Titled(e)
      BY <3>1, <3>2 DEF Labelling
    <3> QED
      BY <1>2, <1>7, <3>2, <3>3, <3>4 DEF Labelling
  <2>5. TurnInv(next) /\ next.found = {}
    BY <1>1, <1>2, <1>7, <2>2, <2>3, <2>4, NoTables DEF TurnInv, Altered
  <2> QED
    BY <2>1, <2>5, GoesOk
<1> QED
  BY <1>3, <1>4, <1>5, <1>6, <1>7

LEMMA OneUnitOk ==
  ASSUME NEW t, NEW failedNow, NEW r \in t.found
  PROVE  Concluded(t, failedNow, OneUnit(t, r, failedNow))
<1>1. CASE MadeToOrder(r)
  BY <1>1, SaidOk, NoTables DEF OneUnit
<1>2. CASE ~MadeToOrder(r)
  BY <1>2, ShownOk DEF OneUnit
<1> QED
  BY <1>1, <1>2

LEMMA FinderOk ==
  ASSUME NEW t, NEW h, NEW failedNow, TurnInv(t), NEW out \in Finder(t, failedNow, h)
  PROVE  Concluded(t, failedNow, out)
<1>1. CASE \E r \in t.found : out = OneUnit(t, r, failedNow)
  BY <1>1, OneUnitOk
<1>2. CASE \E step, todo : step # "tables" /\ out = Goes(Waiting(step, t.msg, todo))
  <2>1. PICK step, todo : step # "tables" /\ out = Goes(Waiting(step, t.msg, todo))
    BY <1>2
  <2>2. IsMessage(t.msg)
    BY DEF TurnInv
  <2>3. TurnInv(Waiting(step, t.msg, todo)) /\ Waiting(step, t.msg, todo).found = {}
    BY <2>1, <2>2, WaitsOk, NoTables
  <2> QED
    BY <2>1, <2>3, GoesOk
<1>3. t.found = {} => \E step, todo : step # "tables" /\ out = Goes(Waiting(step, t.msg, todo))
  <2> DEFINE words == t.msg.words
             relaxed == ProductContextQuery(words, h, TRUE)
             asked == ProductContextQuery(words, h, FALSE)
  <2> SUFFICES ASSUME t.found = {}
               PROVE  \E step, todo : step # "tables" /\ out = Goes(Waiting(step, t.msg, todo))
    OBVIOUS
  <2>1. \/ out = Goes(Waiting("relaxed", t.msg, <<Ask(relaxed)>>))
        \/ out = Goes(Waiting("fallback", t.msg, <<Ask(asked)>>))
    BY DEF Finder
  <2> HIDE DEF relaxed, asked
  <2> QED
    BY <2>1
<1>4. t.found # {} => \E r \in t.found : out = OneUnit(t, r, failedNow)
  BY DEF Finder
<1> QED
  BY <1>1, <1>2, <1>3, <1>4

LEMMA FallbackOk ==
  ASSUME NEW t, NEW failedNow, NEW out \in Fallback(t, failedNow)
  PROVE  Concluded(t, failedNow, out)
<1> DEFINE units == ExactCandidates(Query(t), t.found)
<1>1. units \subseteq t.found
  BY DEF ExactCandidates, Best
<1>2. CASE \E kind, which : kind # "tables" /\ out = Says(t, kind, <<>>, which)
  BY <1>2, SaidOk, NoTables
<1>3. CASE \E r \in units : out = OneUnit(t, r, failedNow)
  BY <1>1, <1>3, OneUnitOk
<1>4. \/ \E r \in units : out = OneUnit(t, r, failedNow)
      \/ out = Says(t, "photos", <<>>, {r \in units : r.id \in t.urls})
      \/ out = Says(t, "which", <<>>, units)
      \/ out = Says(t, "sealed", <<>>, {}) \/ out = Says(t, "nothing", <<>>, {})
  BY DEF Fallback
<1> HIDE DEF units
<1> QED
  BY <1>2, <1>3, <1>4

LEMMA BatchOk ==
  ASSUME NEW t, NEW failedNow, NEW out \in Batch(t, failedNow)
  PROVE  Concluded(t, failedNow, out)
<1>1. \/ out = Says(t, "nothing", <<>>, {})
      \/ \E units : units \subseteq t.found /\ out = Shows(t, units, failedNow)
  BY DEF Batch
<1> QED
  BY <1>1, SaidOk, ShownOk, NoTables

LEMMA PromotionOk ==
  ASSUME NEW t, NEW failedNow, NEW out \in Promotion(t)
  PROVE  Concluded(t, failedNow, out)
<1>1. \E kind, which : kind # "tables" /\ out = Says(t, kind, <<>>, which)
  BY DEF Promotion
<1> QED
  BY <1>1, SaidOk, NoTables

LEMMA ConcludeOk ==
  ASSUME NEW t, NEW h, NEW failedNow, TurnInv(t), NEW out \in Conclude(t, h, failedNow)
  PROVE  Concluded(t, failedNow, out)
<1>1. CASE t.step \in {"finder", "relaxed"}
  <2>1. out \in Finder(t, failedNow, h)
    BY <1>1 DEF Conclude
  <2> QED
    BY <2>1, FinderOk
<1>2. CASE t.step = "fallback"
  <2>1. out \in Fallback(t, failedNow)
    BY <1>2 DEF Conclude
  <2> QED
    BY <2>1, FallbackOk
<1>3. CASE t.step = "batch"
  <2>1. out \in Batch(t, failedNow)
    BY <1>3 DEF Conclude
  <2> QED
    BY <2>1, BatchOk
<1>4. CASE t.step = "table"
  <2>1. out \in UNION {Table(t, s, h) : s \in Found(t)}
    BY <1>4 DEF Conclude
  <2>2. PICK s \in Found(t) : out \in Table(t, s, h)
    BY <2>1
  <2>3. s.rows \subseteq t.found
    BY Selections DEF Found
  <2> QED
    BY <1>4, <2>2, <2>3, TableOk
<1>5. CASE t.step = "entry"
  <2>1. out \in UNION {Entry(t, s, h) : s \in Found(t)}
    BY <1>5 DEF Conclude
  <2>2. PICK s \in Found(t) : out \in Entry(t, s, h)
    BY <2>1
  <2>3. s.rows \subseteq t.found
    BY Selections DEF Found
  <2> QED
    BY <2>2, <2>3, EntryOk
<1>6. CASE t.step = "sealed"
  <2>1. out = Says(t, "sealed", <<>>, {})
    BY <1>6 DEF Conclude
  <2> QED
    BY <2>1, SaidOk, NoTables
<1>7. CASE t.step = "promotion"
  <2>1. out \in Promotion(t)
    BY <1>7 DEF Conclude
  <2> QED
    BY <2>1, PromotionOk
<1>8. CASE t.step \notin {"finder", "relaxed", "fallback", "batch", "sealed", "promotion", "table",
                         "entry"}
  <2>1. out \in UNION {Each(t, s, h) : s \in Found(t)}
    BY <1>8 DEF Conclude
  <2>2. PICK s \in Found(t) : out \in Each(t, s, h)
    BY <2>1
  <2> QED
    BY <1>8, <2>2, EachOk
<1> QED
  BY <1>1, <1>2, <1>3, <1>4, <1>5, <1>6, <1>7, <1>8
-----------------------------------------------------------------------------
(* The stock keeps its rows, whatever is sold, returned or repriced.       *)
RowFields == {"id", "model", "capacity", "colour", "battery", "sealed", "sheet", "price", "sale"}
StockInv == Listed(rows) /\ \A r \in rows : r = [f \in RowFields |-> r[f]]

OffersInv ==
  /\ StockInv
  /\ turn = [c \in Conversations |-> turn[c]] /\ answer = [c \in Conversations |-> answer[c]]
  /\ \A c \in Conversations : TurnInv(turn[c]) /\ AnswerInv(answer[c])

LEMMA InitOffers == Init => OffersInv
<1> SUFFICES ASSUME Init
             PROVE  OffersInv
  OBVIOUS
<1>1. StockInv
  <2>1. Listed(rows)
    BY OffersAssumption DEF Init, Listed
  <2>2. ASSUME NEW r \in rows
        PROVE  r = [f \in RowFields |-> r[f]]
    <3>1. r = [id |-> r.id, model |-> r.model, capacity |-> r.capacity, colour |-> r.colour,
               battery |-> r.battery, sealed |-> r.sealed, sheet |-> r.sheet, price |-> r.price,
               sale |-> r.sale]
      BY OffersAssumption DEF Init
    <3> QED
      BY <3>1 DEF RowFields
  <2> QED
    BY <2>1, <2>2 DEF StockInv
<1>2. TurnInv(Idle) /\ AnswerInv(NoAnswer)
  BY IdleIs, NoTables, GoesIs DEF TurnInv, AnswerInv
<1> QED
  BY <1>1, <1>2 DEF Init, OffersInv

LEMMA ChangeKeepsStock ==
  ASSUME StockInv, Change
  PROVE  StockInv'
<1>1. PICK r \in rows, now \in rows' :
         /\ now = [r EXCEPT !.sale = ~@] \/ \E p \in NewPrices : now = [r EXCEPT !.price = p]
         /\ rows' = (rows \ {r}) \cup {now}
  BY DEF Change
<1>2. r = [f \in RowFields |-> r[f]] /\ r.price \in Nat
  BY DEF StockInv, Listed
<1>3. now = [f \in RowFields |-> now[f]] /\ now.id = r.id /\ now.price \in Nat
  <2>1. CASE now = [r EXCEPT !.sale = ~@]
    BY <1>2, <2>1 DEF RowFields
  <2>2. CASE \E p \in NewPrices : now = [r EXCEPT !.price = p]
    BY <1>2, <2>2, OffersAssumption DEF RowFields
  <2> QED
    BY <1>1, <2>1, <2>2
<1>4. IsFiniteSet(rows')
  BY <1>1, FS_AddElement, FS_RemoveElement DEF StockInv, Listed
<1> QED
  BY <1>1, <1>3, <1>4 DEF StockInv, Listed

(* What a search brings.                                                   *)
LEMMA ResultsFit ==
  ASSUME StockInv, NEW t, NEW found \in Results(t)
  PROVE  /\ Listed(found) /\ found \subseteq rows
         /\ t.step = "tables" =>
              \A r \in found : OfModel(r, Query(t)) /\ OfCondition(r, AvailabilityCondition(Query(t)))
<1>1. ASSUME NEW q, NEW n, NEW top \in Search(q, rows, n)
      PROVE  top \subseteq rows /\ \A r \in top : OfModel(r, q) /\ OfCondition(r, AvailabilityCondition(q))
  <2>1. top \subseteq Matching(q, rows)
    BY RowsOfFirst DEF Search
  <2> QED
    BY <2>1 DEF Matching
<1>2. found \subseteq rows
  <2>1. CASE t.step \in {"finder", "relaxed"}
    <3>1. found = FindProductPhotos(Query(t), rows)
      BY <2>1 DEF Results
    <3>2. FindProductPhotos(Query(t), rows) \subseteq rows
      BY DEF FindProductPhotos, PhotoModels, Best
    <3> QED
      BY <3>1, <3>2
  <2>2. CASE t.step = "fallback"
    <3>1. found \in {sealed \cup got : sealed \in FirstRows(Query(t), {r \in rows : r.sheet}, 5),
                                       got \in Search(Query(t), rows, 5)}
      BY <2>2 DEF Results
    <3>2. PICK sealed \in FirstRows(Query(t), {r \in rows : r.sheet}, 5),
               got \in Search(Query(t), rows, 5) : found = sealed \cup got
      BY <3>1
    <3>3. sealed \subseteq {r \in rows : r.sheet} /\ got \subseteq rows
      BY <1>1, RowsOfFirst
    <3> QED
      BY <3>2, <3>3
  <2>3. CASE t.step = "sealed"
    BY <2>3 DEF Results
  <2>4. CASE t.step \notin {"finder", "relaxed", "fallback", "sealed"}
    <3>1. \E n : found \in Search(Query(t), rows, n)
      BY <2>4 DEF Results
    <3> QED
      BY <1>1, <3>1
  <2> QED
    BY <2>1, <2>2, <2>3, <2>4
<1>3. Listed(found)
  BY <1>2, FS_Subset DEF StockInv, Listed
<1>4. t.step = "tables" => found \in Search(Query(t), rows, SearchLimit)
  BY DEF Results
<1> QED
  BY <1>1, <1>2, <1>3, <1>4

(* Turn i, with rows found and lookups left, photos and blanks.            *)
Sought(t, i, found, left, urls, blank) ==
  /\ Whole(t) /\ t.step = i.step /\ t.msg = i.msg /\ t.todo = i.todo /\ t.sections = i.sections
  /\ t.found = found /\ t.left = left /\ t.urls = urls /\ t.blank = blank

LEMMA SoughtIs ==
  ASSUME NEW i, NEW found, NEW left, NEW urls, NEW blank, Whole(i)
  PROVE  /\ Sought([i EXCEPT !.found = found, !.left = left], i, found, left, i.urls, i.blank)
         /\ Sought([i EXCEPT !.left = left, !.urls = urls], i, i.found, left, urls, i.blank)
         /\ Sought([i EXCEPT !.left = left, !.urls = urls, !.blank = blank],
                   i, i.found, left, urls, blank)
<1>1. Sought([i EXCEPT !.found = found, !.left = left], i, found, left, i.urls, i.blank)
  BY DEF Whole, Fields, Sought
<1>2. Sought([i EXCEPT !.left = left, !.urls = urls], i, i.found, left, urls, i.blank)
  BY DEF Whole, Fields, Sought
<1>3. Sought([i EXCEPT !.left = left, !.urls = urls, !.blank = blank],
             i, i.found, left, urls, blank)
  BY DEF Whole, Fields, Sought
<1> QED
  BY <1>1, <1>2, <1>3

LEMMA SoughtOk ==
  ASSUME NEW i, TurnInv(i), NEW t, NEW found, NEW left, NEW urls, NEW blank,
         Sought(t, i, found, left, urls, blank), left \subseteq found, Listed(found),
         i.step = "tables" =>
           \A r \in found : OfModel(r, Query(i)) /\ OfCondition(r, AvailabilityCondition(Query(i)))
  PROVE  TurnInv(t)
<1>1. Query(t) = Query(i)
  BY DEF Query, Sought
<1>2. t.step = "tables" => Labelling(t)
  BY <1>1 DEF TurnInv, Labelling, Sought
<1> QED
  BY <1>2 DEF TurnInv, Sought

(* A lookup that a turn no longer waits for has brought photos, none, or   *)
(* has failed.                                                             *)
LookedUp(t, failedNow) ==
  \A r \in t.found \ t.left : r.sheet \/ r.id \in t.urls \/ r \in t.blank \/ r.id \in failedNow
Confirmed(a) == \A r \in a.unseen : r.sheet \/ r \in a.blank

LEMMA SettleOk ==
  ASSUME OffersInv, NEW c \in Conversations, NEW t, TurnInv(t), NEW filedNow, NEW failedNow,
         Settle(c, t, filedNow, failedNow)
  PROVE  /\ OffersInv'
         /\ LookedUp(t, failedNow) /\ Confirmed(answer[c]) =>
              LookedUp(turn'[c], failed') /\ Confirmed(answer'[c])
<1> DEFINE kept == {r \in t.left : r.id \notin filedNow}
           errors == failedNow \ Ids(t.left \ kept)
           urls == t.urls \cup Ids(t.left \ kept)
           seen == [t EXCEPT !.left = kept, !.urls = urls]
<1>1. seen = [t EXCEPT !.left = kept, !.urls = @ \cup Ids(t.left \ kept)]
  BY DEF TurnInv, Whole, Fields
<1>2. /\ failed' = errors /\ UNCHANGED rows
      /\ \/ kept # {} /\ turn' = [turn EXCEPT ![c] = seen] /\ UNCHANGED answer
         \/ /\ kept = {}
            /\ \E out \in Conclude(seen, history[c], errors) :
                 /\ turn' = [turn EXCEPT ![c] = out.turn]
                 /\ \/ UNCHANGED answer
                    \/ answer' = [answer EXCEPT ![c] = out.said]
  BY <1>1 DEF Settle
<1>3. Sought(seen, t, t.found, kept, urls, t.blank)
  BY SoughtIs DEF TurnInv
<1>4. kept \subseteq t.left /\ t.left \subseteq t.found
  BY DEF TurnInv
<1>5. Ids(t.left \ kept) = {r.id : r \in t.left \ kept}
  BY DEF Ids
<1> HIDE DEF kept, seen
<1>6. TurnInv(seen)
  <2>1. t.step = "tables" =>
           \A r \in t.found : OfModel(r, Query(t)) /\ OfCondition(r, AvailabilityCondition(Query(t)))
    BY DEF TurnInv, Labelling
  <2>2. Listed(t.found) /\ kept \subseteq t.found
    BY <1>4 DEF TurnInv
  <2> QED
    BY <1>3, <2>1, <2>2, SoughtOk
<1>7. LookedUp(t, failedNow) => LookedUp(seen, errors)
  BY <1>3, <1>4, <1>5 DEF LookedUp, Sought
<1>8. UNCHANGED rows => StockInv'
  BY DEF OffersInv, StockInv
<1>9. CASE kept # {} /\ turn' = [turn EXCEPT ![c] = seen] /\ UNCHANGED answer
  <2>1. turn'[c] = seen /\ answer'[c] = answer[c]
    BY <1>9 DEF OffersInv
  <2>2. OffersInv'
    BY <1>2, <1>6, <1>8, <1>9 DEF OffersInv
  <2> QED
    BY <1>2, <1>7, <2>1, <2>2
<1>10. CASE /\ kept = {}
            /\ \E out \in Conclude(seen, history[c], errors) :
                 /\ turn' = [turn EXCEPT ![c] = out.turn]
                 /\ \/ UNCHANGED answer
                    \/ answer' = [answer EXCEPT ![c] = out.said]
  <2>1. PICK out \in Conclude(seen, history[c], errors) :
          /\ turn' = [turn EXCEPT ![c] = out.turn]
          /\ UNCHANGED answer \/ answer' = [answer EXCEPT ![c] = out.said]
    BY <1>10
  <2>2. Concluded(seen, errors, out)
    BY <1>6, <2>1, ConcludeOk
  <2>3. TurnInv(out.turn) /\ AnswerInv(out.said) /\ out.turn.found = {}
    BY <2>2 DEF Concluded
  <2>4. turn'[c] = out.turn /\ (answer'[c] = answer[c] \/ answer'[c] = out.said)
    BY <2>1 DEF OffersInv
  <2>5. OffersInv'
    <3>1. turn' = [d \in Conversations |-> turn'[d]] /\ answer' = [d \in Conversations |-> answer'[d]]
      BY <2>1 DEF OffersInv
    <3>2. \A d \in Conversations : TurnInv(turn'[d])
      BY <2>1, <2>3 DEF OffersInv
    <3>3. \A d \in Conversations : AnswerInv(answer'[d])
      BY <2>1, <2>3 DEF OffersInv
    <3> QED
      BY <1>2, <1>8, <3>1, <3>2, <3>3 DEF OffersInv
  <2>6. LookedUp(out.turn, failed')
    BY <2>3 DEF LookedUp
  <2>7. LookedUp(seen, errors) => Confirmed(out.said)
    <3>1. seen.left = {} /\ seen.found = t.found /\ seen.blank = t.blank
      BY <1>3, <1>10 DEF Sought
    <3> QED
      BY <2>2, <3>1 DEF Concluded, Confirmed, LookedUp
  <2> QED
    BY <1>7, <2>4, <2>5, <2>6, <2>7
<1> QED
  BY <1>2, <1>9, <1>10

LEMMA ConsultOk ==
  ASSUME OffersInv, NEW c \in Conversations, Consult(c)
  PROVE  /\ OffersInv'
         /\ Confirmed(answer[c]) => LookedUp(turn'[c], failed') /\ Confirmed(answer'[c])
<1>1. PICK i : i = turn[c]
  OBVIOUS
<1>2. PICK found \in Results(i) :
        Settle(c, [i EXCEPT !.found = found, !.left = {r \in found : ~r.sheet}], filed, failed)
  BY <1>1 DEF Consult
<1>3. PICK left : left = {r \in found : ~r.sheet}
  OBVIOUS
<1>4. PICK t : t = [i EXCEPT !.found = found, !.left = left]
  OBVIOUS
<1>5. TurnInv(i)
  BY <1>1 DEF OffersInv
<1>6. Sought(t, i, found, left, i.urls, i.blank)
  BY <1>4, <1>5, SoughtIs DEF TurnInv
<1>7. TurnInv(t)
  BY <1>2, <1>3, <1>5, <1>6, ResultsFit, SoughtOk DEF OffersInv
<1>8. LookedUp(t, failed)
  BY <1>3, <1>6 DEF LookedUp, Sought
<1>9. PICK filedNow, failedNow : filedNow = filed /\ failedNow = failed
  OBVIOUS
<1>10. Settle(c, t, filedNow, failedNow)
  BY <1>2, <1>3, <1>4, <1>9
<1> QED
  BY <1>7, <1>8, <1>9, <1>10, SettleOk

LEMMA LookupOk ==
  ASSUME OffersInv, NEW c \in Conversations, Lookup(c)
  PROVE  /\ OffersInv'
         /\ LookedUp(turn[c], failed) /\ Confirmed(answer[c]) =>
              LookedUp(turn'[c], failed') /\ Confirmed(answer'[c])
<1>1. PICK i : i = turn[c]
  OBVIOUS
<1>2. PICK r \in i.left, outcome \in {"files", "empty", "error"} :
        LET t == [i EXCEPT !.left = @ \ {r},
                           !.urls = IF outcome = "files" THEN @ \cup {r.id} ELSE @,
                           !.blank = IF outcome = "empty" THEN @ \cup {r} ELSE @]
        IN Settle(c, t, IF outcome = "files" THEN filed \cup {r.id} ELSE filed,
                  IF outcome = "error" THEN failed \cup {r.id} ELSE failed \ {r.id})
  BY <1>1 DEF Lookup
<1>3. TurnInv(i)
  BY <1>1 DEF OffersInv
<1>4. PICK left, urls, blank :
        /\ left = i.left \ {r}
        /\ urls = IF outcome = "files" THEN i.urls \cup {r.id} ELSE i.urls
        /\ blank = IF outcome = "empty" THEN i.blank \cup {r} ELSE i.blank
  OBVIOUS
<1>5. PICK t : t = [i EXCEPT !.left = left, !.urls = urls, !.blank = blank]
  OBVIOUS
<1>6. PICK filedNow, failedNow :
        /\ filedNow = IF outcome = "files" THEN filed \cup {r.id} ELSE filed
        /\ failedNow = IF outcome = "error" THEN failed \cup {r.id} ELSE failed \ {r.id}
  OBVIOUS
<1>7. Settle(c, t, filedNow, failedNow)
  <2>1. t = [i EXCEPT !.left = @ \ {r},
                      !.urls = IF outcome = "files" THEN @ \cup {r.id} ELSE @,
                      !.blank = IF outcome = "empty" THEN @ \cup {r} ELSE @]
    BY <1>3, <1>4, <1>5 DEF TurnInv, Whole, Fields
  <2> QED
    BY <1>2, <1>6, <2>1
<1>8. Sought(t, i, i.found, left, urls, blank)
  BY <1>3, <1>5, SoughtIs DEF TurnInv
<1>9. TurnInv(t)
  <2>1. i.step = "tables" =>
           \A u \in i.found : OfModel(u, Query(i)) /\ OfCondition(u, AvailabilityCondition(Query(i)))
    BY <1>3 DEF TurnInv, Labelling
  <2>2. Listed(i.found) /\ left \subseteq i.found
    BY <1>3, <1>4 DEF TurnInv
  <2> QED
    BY <1>3, <1>8, <2>1, <2>2, SoughtOk
<1>10. LookedUp(i, failed) => LookedUp(t, failedNow)
  <2> SUFFICES ASSUME LookedUp(i, failed), NEW u \in t.found \ t.left
               PROVE  u.sheet \/ u.id \in t.urls \/ u \in t.blank \/ u.id \in failedNow
    BY DEF LookedUp
  <2>1. t.found = i.found /\ t.left = left /\ t.urls = urls /\ t.blank = blank
    BY <1>8 DEF Sought
  <2>2. CASE u = r
    BY <1>4, <1>6, <2>1, <2>2
  <2>3. CASE u # r
    <3>1. u.id # r.id
      BY <1>2, <1>3, <2>1, <2>3 DEF TurnInv, Listed
    <3>2. u \in i.found \ i.left
      BY <1>4, <2>1, <2>3
    <3>3. u.sheet \/ u.id \in i.urls \/ u \in i.blank \/ u.id \in failed
      BY <3>2 DEF LookedUp
    <3> QED
      BY <1>4, <1>6, <2>1, <3>1, <3>3
  <2> QED
    BY <2>2, <2>3
<1> QED
  BY <1>1, <1>7, <1>9, <1>10, SettleOk, SMTT(30)

LEMMA StepOffers == OffersInv /\ [Next]_vars => OffersInv'
<1> SUFFICES ASSUME OffersInv, [Next]_vars
             PROVE  OffersInv'
  OBVIOUS
<1>1. CASE Change
  <2>1. StockInv' /\ UNCHANGED <<turn, answer>>
    BY <1>1, ChangeKeepsStock DEF OffersInv, Change
  <2> QED
    BY <2>1 DEF OffersInv
<1>2. ASSUME NEW c \in Conversations, NEW msg \in Messages, Receive(c, msg)
      PROVE  OffersInv'
  <2>1. IsMessage(msg)
    BY OffersAssumption DEF IsMessage
  <2>2. PICK t : t = First(msg, history[c])
    OBVIOUS
  <2>3. TurnInv(t)
    BY <2>1, <2>2, FirstOk
  <2>4. turn' = [turn EXCEPT ![c] = t] /\ UNCHANGED <<rows, answer>>
    BY <1>2, <2>2 DEF Receive
  <2> QED
    BY <2>3, <2>4 DEF OffersInv, StockInv
<1>3. ASSUME NEW c \in Conversations, Consult(c)
      PROVE  OffersInv'
  BY <1>3, ConsultOk
<1>4. ASSUME NEW c \in Conversations, Lookup(c)
      PROVE  OffersInv'
  BY <1>4, LookupOk
<1>5. CASE UNCHANGED vars
  BY <1>5 DEF vars, OffersInv, StockInv
<1> QED
  BY <1>1, <1>2, <1>3, <1>4, <1>5 DEF Next

(* No instalment table charges less than what is left to pay, or less for  *)
(* more instalments, or misstates its parcels by more than a rounding cent *)
(* each, or makes an entry cost more: for any prices and entries.          *)
THEOREM TablesAreFair == Spec => []TableIsFair
<1>1. OffersInv => TableIsFair
  <2> SUFFICES ASSUME OffersInv, NEW c \in Conversations, NEW s \in Tables(answer[c]), NEW n \in Counts
               PROVE  LET balance == Remaining(s.row.price, s.entry)
                          total == TablePrice(s.row.price, s.entry, n)
                      IN /\ s.entry = 0 \/ EntryAccepted(s.row.price, s.entry)
                         /\ total >= balance /\ (n > 1 => total >= Total(balance, n - 1))
                         /\ 2 * (Parcel(balance, n) * n - total) \in -(n + 1)..(n + 1)
                         /\ s.entry + total <= Total(s.row.price, n)
    BY DEF TableIsFair
  <2>1. Payable(s)
    BY DEF OffersInv, AnswerInv, Tables
  <2>2. PICK p \in Nat, e \in Nat : p = s.row.price /\ e = s.entry
    BY <2>1 DEF Payable
  <2>3. e <= p
    BY <2>1, <2>2 DEF Payable, EntryAccepted
  <2>4. PICK b \in Nat : b = p - e
    BY <2>3
  <2>5. Remaining(p, e) = b /\ TablePrice(p, e, n) = Total(b, n)
    BY <2>4 DEF Remaining, TablePrice
  <2>6. Total(b, n) >= b /\ (n > 1 => Total(b, n) >= Total(b, n - 1))
    BY FeesAreFees
  <2>7. 2 * (Parcel(b, n) * n - Total(b, n)) \in -(n + 1)..(n + 1)
    BY ParcelsMakeTotal
  <2>8. e + Total(p - e, n) <= Total(p, n)
    BY <2>3, EntrySaves
  <2>9. s.entry = 0 \/ EntryAccepted(s.row.price, s.entry)
    BY <2>1 DEF Payable
  <2> QED
    BY <2>2, <2>4, <2>5, <2>6, <2>7, <2>8, <2>9
<1> QED
  BY <1>1, InitOffers, StepOffers, PTL DEF Spec

(* The two tables of "os dois" stand under the labels of units like those  *)
(* they charge for, whatever is sold or repriced between the searches.     *)
THEOREM TablesUnderLabels == Spec => []BothTablesMatchLabels
<1>1. OffersInv => BothTablesMatchLabels
  BY DEF OffersInv, AnswerInv, Tables, Under, BothTablesMatchLabels
<1> QED
  BY <1>1, InitOffers, StepOffers, PTL DEF Spec
-----------------------------------------------------------------------------
(* Failed lookups are shared by all conversations; what one turn knows of  *)
(* them is its own only while no other conversation asks.                  *)
LookedInv == \A c \in Conversations : LookedUp(turn[c], failed) /\ Confirmed(answer[c])

(* Where one conversation asks at a time, no attendant is called for       *)
(* photos of a unit in stock unless the photo service said in this turn    *)
(* that it has none.                                                       *)
THEOREM MissingPhotosAreMissing ==
  ASSUME \A c, d \in Conversations : c = d
  PROVE  Spec => []MissingIsConfirmed
<1>1. Init => LookedInv
  <2>1. LookedUp(Idle, {}) /\ Confirmed(NoAnswer)
    BY IdleIs, GoesIs DEF LookedUp, Confirmed
  <2> QED
    BY <2>1 DEF Init, LookedInv
<1>2. OffersInv /\ LookedInv /\ [Next]_vars => LookedInv'
  <2> SUFFICES ASSUME OffersInv, LookedInv, [Next]_vars
               PROVE  LookedInv'
    OBVIOUS
  <2>1. CASE UNCHANGED vars \/ Change
    <3>1. UNCHANGED <<turn, failed, answer>>
      BY <2>1 DEF vars, Change
    <3> QED
      BY <3>1 DEF LookedInv, LookedUp, Confirmed
  <2>2. ASSUME NEW c \in Conversations, NEW msg \in Messages, Receive(c, msg)
        PROVE  LookedInv'
    <3>1. IsMessage(msg)
      BY OffersAssumption DEF IsMessage
    <3>2. PICK t : t = First(msg, history[c])
      OBVIOUS
    <3>3. t.found = {}
      BY <3>1, <3>2, FirstOk
    <3>4. turn' = [turn EXCEPT ![c] = t] /\ UNCHANGED <<failed, answer>>
      BY <2>2, <3>2 DEF Receive
    <3>5. \A d \in Conversations : turn'[d].found = {} \/ turn'[d] = turn[d]
      BY <3>3, <3>4 DEF OffersInv
    <3> QED
      BY <3>4, <3>5 DEF LookedInv, LookedUp, Confirmed
  <2>3. ASSUME NEW c \in Conversations, Consult(c) \/ Lookup(c)
        PROVE  LookedInv'
    <3>1. LookedUp(turn'[c], failed') /\ Confirmed(answer'[c])
      BY <2>3, ConsultOk, LookupOk DEF LookedInv
    <3>2. \A d \in Conversations : d = c
      OBVIOUS
    <3> QED
      BY <3>1, <3>2 DEF LookedInv
  <2> QED
    BY <2>1, <2>2, <2>3 DEF Next
<1>3. LookedInv => MissingIsConfirmed
  BY DEF LookedInv, Confirmed, MissingIsConfirmed
<1> QED
  BY <1>1, <1>2, <1>3, InitOffers, StepOffers, PTL DEF Spec
-----------------------------------------------------------------------------
(* What becomes of a turn when a search or a lookup ends: it waits on, or  *)
(* it is concluded over the rows found.                                    *)
Goal(t, i) ==
  t.step = i.step /\ t.msg = i.msg /\ t.todo = i.todo /\ t.shown = i.shown /\ t.sections = i.sections

LEMMA GoalKept ==
  ASSUME NEW i, NEW found, NEW left, NEW urls, NEW blank, Whole(i)
  PROVE  /\ Goal([i EXCEPT !.found = found, !.left = left], i)
         /\ Goal([i EXCEPT !.left = left, !.urls = urls], i)
         /\ Goal([i EXCEPT !.left = left, !.urls = urls, !.blank = blank], i)
<1>1. Goal([i EXCEPT !.found = found, !.left = left], i)
  BY DEF Whole, Fields, Goal
<1>2. Goal([i EXCEPT !.left = left, !.urls = urls], i)
  BY DEF Whole, Fields, Goal
<1>3. Goal([i EXCEPT !.left = left, !.urls = urls, !.blank = blank], i)
  BY DEF Whole, Fields, Goal
<1> QED
  BY <1>1, <1>2, <1>3

Concludes(c, t, h, failedNow) ==
  \E out \in Conclude(t, h, failedNow) :
    /\ turn' = [turn EXCEPT ![c] = out.turn]
    /\ UNCHANGED answer \/ answer' = [answer EXCEPT ![c] = out.said]
Proceeds(c, found) ==
  \E t, failedNow :
    /\ TurnInv(t) /\ Goal(t, turn[c]) /\ t.found = found
    /\ \/ turn' = [turn EXCEPT ![c] = t] /\ UNCHANGED answer
       \/ Concludes(c, t, history[c], failedNow)

LEMMA SettleProceeds ==
  ASSUME NEW c, NEW t, TurnInv(t), Goal(t, turn[c]), NEW filedNow, NEW failedNow,
         Settle(c, t, filedNow, failedNow)
  PROVE  Proceeds(c, t.found)
<1> DEFINE kept == {r \in t.left : r.id \notin filedNow}
           errors == failedNow \ Ids(t.left \ kept)
           urls == t.urls \cup Ids(t.left \ kept)
           seen == [t EXCEPT !.left = kept, !.urls = urls]
<1>1. seen = [t EXCEPT !.left = kept, !.urls = @ \cup Ids(t.left \ kept)]
  BY DEF TurnInv, Whole, Fields
<1>2. \/ turn' = [turn EXCEPT ![c] = seen] /\ UNCHANGED answer
      \/ \E out \in Conclude(seen, history[c], errors) :
           /\ turn' = [turn EXCEPT ![c] = out.turn]
           /\ \/ UNCHANGED answer
              \/ answer' = [answer EXCEPT ![c] = out.said]
  BY <1>1 DEF Settle
<1>3. Sought(seen, t, t.found, kept, urls, t.blank) /\ Goal(seen, t)
  BY SoughtIs, GoalKept DEF TurnInv
<1>4. kept \subseteq t.left /\ t.left \subseteq t.found
  BY DEF TurnInv
<1> HIDE DEF kept, seen
<1>5. TurnInv(seen)
  <2>1. t.step = "tables" =>
           \A r \in t.found : OfModel(r, Query(t)) /\ OfCondition(r, AvailabilityCondition(Query(t)))
    BY DEF TurnInv, Labelling
  <2>2. Listed(t.found) /\ kept \subseteq t.found
    BY <1>4 DEF TurnInv
  <2> QED
    BY <1>3, <2>1, <2>2, SoughtOk
<1>6. seen.found = t.found /\ Goal(seen, turn[c])
  BY <1>3 DEF Sought, Goal
<1> QED
  BY <1>2, <1>5, <1>6 DEF Proceeds, Concludes

LEMMA AskProceeds ==
  ASSUME OffersInv, NEW c \in Conversations, Consult(c) \/ Lookup(c)
  PROVE  \/ turn[c] # Idle /\ \E found \in Results(turn[c]) : Proceeds(c, found)
         \/ turn[c].left # {} /\ Proceeds(c, turn[c].found)
<1>1. PICK i : i = turn[c]
  OBVIOUS
<1>2. TurnInv(i)
  BY <1>1 DEF OffersInv
<1>3. CASE Consult(c)
  <2>1. PICK found \in Results(i) :
          Settle(c, [i EXCEPT !.found = found, !.left = {r \in found : ~r.sheet}], filed, failed)
    BY <1>1, <1>3 DEF Consult
  <2>2. PICK left : left = {r \in found : ~r.sheet}
    OBVIOUS
  <2>3. PICK t : t = [i EXCEPT !.found = found, !.left = left]
    OBVIOUS
  <2>4. Sought(t, i, found, left, i.urls, i.blank) /\ Goal(t, i)
    BY <1>2, <2>3, SoughtIs, GoalKept DEF TurnInv
  <2>5. TurnInv(t)
    BY <1>2, <2>1, <2>2, <2>4, ResultsFit, SoughtOk DEF OffersInv
  <2>6. PICK filedNow, failedNow : filedNow = filed /\ failedNow = failed
    OBVIOUS
  <2>7. Settle(c, t, filedNow, failedNow)
    BY <2>1, <2>2, <2>3, <2>6
  <2>8. Proceeds(c, t.found) /\ t.found = found
    BY <1>1, <2>4, <2>5, <2>7, SettleProceeds DEF Sought
  <2>9. turn[c] # Idle
    BY <1>3 DEF Consult
  <2> QED
    BY <1>1, <2>1, <2>8, <2>9
<1>4. CASE Lookup(c)
  <2>1. PICK r \in i.left, outcome \in {"files", "empty", "error"} :
          LET t == [i EXCEPT !.left = @ \ {r},
                             !.urls = IF outcome = "files" THEN @ \cup {r.id} ELSE @,
                             !.blank = IF outcome = "empty" THEN @ \cup {r} ELSE @]
          IN Settle(c, t, IF outcome = "files" THEN filed \cup {r.id} ELSE filed,
                    IF outcome = "error" THEN failed \cup {r.id} ELSE failed \ {r.id})
    BY <1>1, <1>4 DEF Lookup
  <2>2. PICK left, urls, blank :
          /\ left = i.left \ {r}
          /\ urls = IF outcome = "files" THEN i.urls \cup {r.id} ELSE i.urls
          /\ blank = IF outcome = "empty" THEN i.blank \cup {r} ELSE i.blank
    OBVIOUS
  <2>3. PICK t : t = [i EXCEPT !.left = left, !.urls = urls, !.blank = blank]
    OBVIOUS
  <2>4. PICK filedNow, failedNow :
          /\ filedNow = IF outcome = "files" THEN filed \cup {r.id} ELSE filed
          /\ failedNow = IF outcome = "error" THEN failed \cup {r.id} ELSE failed \ {r.id}
    OBVIOUS
  <2>5. t = [i EXCEPT !.left = @ \ {r},
                      !.urls = IF outcome = "files" THEN @ \cup {r.id} ELSE @,
                      !.blank = IF outcome = "empty" THEN @ \cup {r} ELSE @]
    BY <1>2, <2>2, <2>3 DEF TurnInv, Whole, Fields
  <2>6. Settle(c, t, filedNow, failedNow)
    BY <2>1, <2>4, <2>5
  <2>7. Sought(t, i, i.found, left, urls, blank) /\ Goal(t, i)
    BY <1>2, <2>3, SoughtIs, GoalKept DEF TurnInv
  <2>8. TurnInv(t)
    <3>1. i.step = "tables" =>
             \A u \in i.found : OfModel(u, Query(i)) /\ OfCondition(u, AvailabilityCondition(Query(i)))
      BY <1>2 DEF TurnInv, Labelling
    <3>2. Listed(i.found) /\ left \subseteq i.found
      BY <1>2, <2>2 DEF TurnInv
    <3> QED
      BY <1>2, <2>7, <3>1, <3>2, SoughtOk
  <2>9. Proceeds(c, t.found) /\ t.found = i.found
    BY <1>1, <2>6, <2>7, <2>8, SettleProceeds DEF Sought
  <2> QED
    BY <1>1, <2>1, <2>9, SMTT(30)
<1> QED
  BY <1>3, <1>4
LEMMA SaysOf ==
  \A t, kind, sections, which : LET said == Says(t, kind, sections, which).said IN
    said.msg = t.msg /\ said.query = Query(t) /\ said.found = t.found
<1> SUFFICES ASSUME NEW t, NEW kind, NEW sections, NEW which
             PROVE  LET said == Says(t, kind, sections, which).said IN
                      said.msg = t.msg /\ said.query = Query(t) /\ said.found = t.found
  OBVIOUS
<1>1. NoAnswer = [f \in AnswerFields |-> NoAnswer[f]]
  <2>1. DOMAIN NoAnswer = AnswerFields /\ NoAnswer = [f \in DOMAIN NoAnswer |-> NoAnswer[f]]
    BY DEF NoAnswer, AnswerFields
  <2> QED
    BY <2>1
<1> DEFINE said == [NoAnswer EXCEPT !.kind = kind, !.msg = t.msg, !.query = Query(t),
                                    !.found = t.found, !.sections = sections, !.rows = which,
                                    !.blank = t.blank]
<1>2. said.msg = t.msg /\ said.query = Query(t) /\ said.found = t.found
  BY <1>1 DEF AnswerFields
<1>3. Says(t, kind, sections, which) = [turn |-> Idle, said |-> said]
  BY DEF Says
<1> HIDE DEF said
<1> QED
  BY <1>2, <1>3

(* A unit that earns less than another one is told apart from it.          *)
LEMMA ScoreIsInt == OverlapCounts => \A q, r, b : Score(q, r, b) \in Int
BY DEF Score, Worth, Length, OverlapCounts

LEMMA ToldByScore ==
  ASSUME OverlapCounts, NEW q, NEW r, NEW u, ~ToldApart(q, r, u), ~OrderedFirst(r, u)
  PROVE  ~(Score(q, r, TRUE) > Score(q, u, TRUE))
<1> DEFINE At(x) == <<Overlap(q, x),
                      Worth(Branded(q.names) # {}, 40),
                      Worth(Named(x.model, Branded(q.names)), 525 + 25 * Length(x.model)),
                      Worth(Named(x.model, q.names), 450 + 25 * Length(x.model)),
                      Worth(q.plain /\ x.model.variant = Normal, 150),
                      Worth(x.capacity = q.hint, 1000), Worth(x.colour = q.mark, 1020),
                      Worth(q.mark = Unsaid /\ x.colour \in q.colours, 320),
                      Worth(q.battery # 0 /\ x.battery = q.battery, 400),
                      Worth(q.prices = {x.price}, 200), Worth(x.sheet, 80)>>
<1>1. \A x : /\ \A i \in 1..11 : At(x)[i] \in Int
             /\ Score(q, x, TRUE) = At(x)[1] + At(x)[2] + At(x)[3] + At(x)[4] + At(x)[5] + At(x)[6]
                                    + At(x)[7] + At(x)[8] + At(x)[9] + At(x)[10] + At(x)[11]
  <2> SUFFICES ASSUME NEW x
               PROVE  /\ \A i \in 1..11 : At(x)[i] \in Int
                      /\ Score(q, x, TRUE) = At(x)[1] + At(x)[2] + At(x)[3] + At(x)[4] + At(x)[5]
                                             + At(x)[6] + At(x)[7] + At(x)[8] + At(x)[9] + At(x)[10]
                                             + At(x)[11]
    OBVIOUS
  <2>1. \A p, n : n \in Int => Worth(p, n) \in Int
    BY DEF Worth
  <2>2. Length(x.model) \in Int /\ Overlap(q, x) \in Int
    BY DEF Length, OverlapCounts
  <2>3. \A i \in 1..11 : At(x)[i] \in Int
    BY <2>1, <2>2
  <2>4. Worth(TRUE /\ q.prices = {x.price}, 200) = Worth(q.prices = {x.price}, 200)
    BY DEF Worth
  <2>5. Score(q, x, TRUE) = At(x)[1] + At(x)[2] + At(x)[3] + At(x)[4] + At(x)[5] + At(x)[6]
                            + At(x)[7] + At(x)[8] + At(x)[9] + At(x)[10] + At(x)[11]
    BY <2>4 DEF Score
  <2> QED
    BY <2>3, <2>5
<1>2. \A i \in 1..11 : At(r)[i] <= At(u)[i]
  <2>1. Length(r.model) \in 1..3 /\ Length(u.model) \in 1..3
    BY DEF Length
  <2>2. Overlap(q, r) <= Overlap(q, u)
    BY DEF ToldApart, OverlapCounts
  <2>3. ASSUME NEW names, names \subseteq q.names, Named(r.model, names)
        PROVE  Named(u.model, names) /\ Length(r.model) <= Length(u.model)
    <3>1. PICK n \in names : Begins(r.model, n.model)
      BY <2>3 DEF Named
    <3>2. Begins(u.model, n.model) /\ ~(Length(u.model) < Length(r.model))
      BY <2>3, <3>1 DEF ToldApart, NamedBefore
    <3> QED
      BY <2>1, <3>1, <3>2 DEF Named
  <2>4. Branded(q.names) \subseteq q.names
    BY DEF Branded
  <2>5. At(r)[3] <= At(u)[3]
    BY <2>1, <2>3, <2>4 DEF Worth
  <2>6. At(r)[4] <= At(u)[4]
    BY <2>1, <2>3 DEF Worth
  <2>7. At(r)[5] <= At(u)[5]
    BY DEF ToldApart, Worth
  <2>8. At(r)[2] <= At(u)[2]
    BY DEF Worth
  <2>9. /\ At(r)[6] <= At(u)[6] /\ At(r)[7] <= At(u)[7] /\ At(r)[8] <= At(u)[8]
        /\ At(r)[9] <= At(u)[9] /\ At(r)[10] <= At(u)[10]
    BY DEF ToldApart, Worth
  <2>10. At(r)[11] <= At(u)[11]
    BY DEF OrderedFirst, Worth
  <2> QED
    BY <2>2, <2>5, <2>6, <2>7, <2>8, <2>9, <2>10
<1> HIDE DEF At
<1>3. PICK a, b : a = At(r) /\ b = At(u)
  OBVIOUS
<1>4. \A i \in 1..11 : a[i] \in Int /\ b[i] \in Int /\ a[i] <= b[i]
  BY <1>1, <1>2, <1>3
<1>5. /\ a[1] \in Int /\ b[1] \in Int /\ a[1] <= b[1] /\ a[2] \in Int /\ b[2] \in Int /\ a[2] <= b[2]
      /\ a[3] \in Int /\ b[3] \in Int /\ a[3] <= b[3] /\ a[4] \in Int /\ b[4] \in Int /\ a[4] <= b[4]
      /\ a[5] \in Int /\ b[5] \in Int /\ a[5] <= b[5] /\ a[6] \in Int /\ b[6] \in Int /\ a[6] <= b[6]
      /\ a[7] \in Int /\ b[7] \in Int /\ a[7] <= b[7] /\ a[8] \in Int /\ b[8] \in Int /\ a[8] <= b[8]
      /\ a[9] \in Int /\ b[9] \in Int /\ a[9] <= b[9]
      /\ a[10] \in Int /\ b[10] \in Int /\ a[10] <= b[10]
      /\ a[11] \in Int /\ b[11] \in Int /\ a[11] <= b[11]
  BY <1>4
<1>6. PICK m, n : m = Score(q, r, TRUE) /\ n = Score(q, u, TRUE)
  OBVIOUS
<1>7. /\ m = a[1] + a[2] + a[3] + a[4] + a[5] + a[6] + a[7] + a[8] + a[9] + a[10] + a[11]
      /\ n = b[1] + b[2] + b[3] + b[4] + b[5] + b[6] + b[7] + b[8] + b[9] + b[10] + b[11]
  BY <1>1, <1>3, <1>6
<1>8. m \in Int /\ n \in Int /\ m <= n
  BY <1>5, <1>7
<1>9. ~(m > n)
  BY <1>8
<1> QED
  BY <1>6, <1>9, Zenon

LEMMA BestTold ==
  ASSUME OverlapCounts, NEW q, NEW kept, NEW r \in Best(q, kept), NEW u \in kept \ Best(q, kept)
  PROVE  ToldApart(q, r, u) \/ OrderedFirst(r, u)
<1> DEFINE S(x) == Score(q, x, TRUE)
<1>1. \A x : S(x) \in Int
  BY ScoreIsInt
<1>2. Best(q, kept) = {x \in kept : \A t \in kept : S(x) >= S(t)}
  BY DEF Best
<1>3. ~ToldApart(q, r, u) /\ ~OrderedFirst(r, u) => ~(S(r) > S(u))
  BY ToldByScore, Zenon
<1> HIDE DEF S
<1>4. PICK v \in kept : ~(S(u) >= S(v))
  BY <1>2
<1>5. S(r) >= S(v)
  BY <1>2
<1>6. S(r) > S(u)
  BY <1>1, <1>4, <1>5
<1> QED
  BY <1>3, <1>6

(* A unit that the details of the request leave out.                       *)
LEMMA LeftOutTold ==
  ASSUME NEW q, NEW override, override # Unsaid => q.condition = override,
         NEW found, NEW r \in Narrowed(q, override, found),
         NEW u \in found \ Narrowed(q, override, found), u.price \in Nat, u.price # 0
  PROVE  ToldApart(q, r, u)
<1> DEFINE priced == {x \in found : x.price > 0 /\ OfCondition(x, override)}
           sized == {x \in priced : q.hint \in {Unsaid, x.capacity}}
           charged == {x \in sized : x.battery = q.battery}
<1>1. /\ r \in sized
      /\ \/ Narrowed(q, override, found) = sized
         \/ Narrowed(q, override, found) = charged /\ q.battery # 0
  BY DEF Narrowed
<1>2. CASE u \notin priced
  <2>1. ~OfCondition(u, override)
    BY <1>2
  <2>2. OfCondition(r, override) /\ override # Unsaid
    BY <1>1, <2>1 DEF OfCondition
  <2> QED
    BY <2>1, <2>2 DEF ToldApart
<1>3. CASE u \in priced \ sized
  BY <1>1, <1>3 DEF ToldApart
<1>4. CASE u \in sized
  BY <1>1, <1>4 DEF ToldApart
<1> QED
  BY <1>2, <1>3, <1>4

LEMMA OneOf ==
  ASSUME NEW S, IsFiniteSet(S), ~(Cardinality(S) > 1), NEW x \in S, NEW y \in S
  PROVE  x = y
<1>1. IsFiniteSet({x}) /\ Cardinality({x}) = 1
  BY FS_Singleton
<1>2. Cardinality(S) \in Nat
  BY FS_CardinalityType
<1>3. Cardinality({x}) <= Cardinality(S) /\ (Cardinality(S) = Cardinality({x}) => S = {x})
  BY FS_Subset
<1> QED
  BY <1>1, <1>2, <1>3

LEMMA FirstOfMany ==
  ASSUME NEW q, NEW kept, IsFiniteSet(kept), NEW n \in Nat, NEW top \in FirstRows(q, kept, n),
         NEW u \in kept \ top
  PROVE  Cardinality(kept) > n
<1>1. Cardinality(kept) \in Nat
  BY FS_CardinalityType
<1>2. top \subseteq kept /\ Cardinality(top) = Min({n, Cardinality(kept)})
  BY DEF FirstRows, kSubset
<1>3. Cardinality(top) # Cardinality(kept)
  BY <1>2, FS_Subset
<1>4. ASSUME NEW k \in Nat, n >= k
      PROVE  Min({n, k}) = k
  BY <1>4 DEF Min
<1> QED
  BY <1>1, <1>2, <1>3, <1>4

(* What a selection of the catalog leaves out it has told apart, or there  *)
(* are more rows than a list holds.                                        *)
LEMMA SelectionTold ==
  ASSUME OverlapCounts, NEW q, NEW override, override # Unsaid => q.condition = override,
         NEW found, IsFiniteSet(found), NEW s \in SelectPricedCandidate(q, override, found),
         NEW r \in s.rows, NEW u \in found, u.price \in Nat, u.price # 0,
         u \notin s.rows
  PROVE  \/ ToldApart(q, r, u) \/ OrderedFirst(r, u)
         \/ s.kind = "which" /\ Cardinality(found) > CandidateLimit
<1> DEFINE kept == Narrowed(q, override, found)
           best == Best(q, kept)
<1>1. kept \subseteq found /\ best \subseteq kept
  BY NarrowedRows DEF Best
<1>2. IsFiniteSet(kept) /\ Cardinality(kept) <= Cardinality(found) /\ Cardinality(kept) \in Nat
      /\ Cardinality(found) \in Nat
  BY <1>1, FS_Subset, FS_CardinalityType
<1>3. IsFiniteSet(best)
  BY <1>1, <1>2, FS_Subset
<1>4. CASE \E top \in FirstRows(q, kept, CandidateLimit) : s = Which(top)
  <2>1. PICK top \in FirstRows(q, kept, CandidateLimit) : s = Which(top)
    BY <1>4
  <2>2. s.rows = top /\ s.kind = "which" /\ top \subseteq kept
    BY <2>1, RowsOfFirst DEF Which
  <2>3. CASE u \in kept
    <3>1. Cardinality(kept) > CandidateLimit
      BY <1>2, <2>2, <2>3, FirstOfMany, LimitAssumption
    <3> QED
      BY <1>2, <2>2, <3>1, LimitAssumption
  <2>4. CASE u \notin kept
    BY <2>2, <2>4, LeftOutTold
  <2> QED
    BY <2>3, <2>4
<1>5. CASE ~(Cardinality(best) > 1) /\ \E x \in best : s = Selected(x)
  <2>1. PICK x \in best : s = Selected(x)
    BY <1>5
  <2>2. r \in best /\ best = {r} /\ u # r
    <3>1. s.rows = {x}
      BY <2>1 DEF Selected
    <3>2. \A y \in best : y = x
      BY <1>3, <1>5, OneOf
    <3> QED
      BY <2>1, <3>1, <3>2
  <2>3. CASE u \in kept
    <3>1. u \in kept \ best
      BY <2>2, <2>3
    <3> QED
      BY <2>2, <3>1, BestTold
  <2>4. CASE u \notin kept
    <3>1. r \in kept
      BY <1>1, <2>2
    <3> QED
      BY <2>4, <3>1, LeftOutTold
  <2> QED
    BY <2>3, <2>4
<1>6. CASE s = NotFound
  BY <1>6 DEF NotFound
<1> QED
  <2> HIDE DEF best
  <2>1. \/ SelectPricedCandidate(q, override, found) \in
             {{NotFound}, {Which(top) : top \in FirstRows(q, kept, CandidateLimit)}}
        \/ ~(Cardinality(best) > 1) /\ SelectPricedCandidate(q, override, found) = {Selected(x) : x \in best}
    BY DEF SelectPricedCandidate, best
  <2> HIDE DEF kept
  <2> QED
    BY <1>4, <1>5, <1>6, <2>1
-----------------------------------------------------------------------------
(* The texts of a query.                                                   *)
LEMMA WordsAre ==
  \A x : /\ Hint(x).models = {} /\ Hint(x).hint = x /\ Hint(x).capacities = {x} \ {Unsaid}
         /\ Hint(x).condition = Unsaid
         /\ Mark(x).models = {} /\ Mark(x).hint = Unsaid /\ Mark(x).condition = Unsaid
         /\ InCondition(x).models = {} /\ InCondition(x).hint = Unsaid
         /\ InCondition(x).conditions = {x} \ {Unsaid} /\ InCondition(x).condition = x
         /\ InCondition(x).capacities = {}
BY DEF Hint, Mark, InCondition, Capacity, NoWords

LEMMA SoleIs ==
  ASSUME NEW S, Unsaid \notin S, Cardinality(S) = 1
  PROVE  Sole(S) \in S /\ Sole(S) # Unsaid
<1>1. S # {}
  BY FS_EmptySet
<1> QED
  BY <1>1 DEF Sole

(* What a question about instalments asks the catalog for: the model, the  *)
(* capacity and the condition of the message before all that was said.     *)
WordsOk(w) == Unsaid \notin w.capacities /\ (w.condition = Unsaid <=> w.conditions = {})
Meant(q, w) ==
  /\ w.models # {} => q.models = w.models
  /\ Cardinality(w.capacities) = 1 => q.hint \in w.capacities
Stated(q, w) == w.condition # Unsaid => q.condition = w.condition

LEMMA InstallmentQuery ==
  ASSUME NEW w, WordsOk(w), NEW h
  PROVE  Meant(InstallmentContextQuery(w, h), w) /\ Stated(InstallmentContextQuery(w, h), w)
<1> DEFINE q == InstallmentContextQuery(w, h)
           sole == Sole(w.capacities)
<1>1. /\ w.models # {} => q = Then(Hint(sole), Then(w, InCondition(HistoryCondition(w, h))))
      /\ w.models = {} =>
           \E x, y, z : /\ q = Then(Hint(x), Then(y, w)) \/ q = Then(Hint(x), Then(y, Then(z, w)))
                        /\ sole # Unsaid => x = sole
  <2> DEFINE shown == {i \in Told(h) : h[i].words.models # {}}
             seen == IF shown = {} THEN NoWords ELSE h[Max(shown)].words
             p == h[Max(Picked(h))].words
             size == Either(sole, Either(Sole(p.capacities), Sole(seen.capacities), Unsaid), Unsaid)
             late == Either(sole, Sole(seen.capacities), Unsaid)
  <2>1. w.models # {} => q = Then(Hint(sole), Then(w, InCondition(HistoryCondition(w, h))))
    BY DEF InstallmentContextQuery
  <2> SUFFICES ASSUME w.models = {}
               PROVE  \E x, y, z :
                        /\ q = Then(Hint(x), Then(y, w)) \/ q = Then(Hint(x), Then(y, Then(z, w)))
                        /\ sole # Unsaid => x = sole
    BY <2>1
  <2>2. \/ q = Then(Hint(sole), Then(CHOOSE card \in SelectedOffer(h) : TRUE, w))
        \/ q = Then(Hint(size), Then(p, Then(InCondition(HistoryCondition(p, h)), w)))
        \/ q = Then(Hint(late), Then(seen, w))
        \/ q = Then(Hint(sole), Then(Lately(h), w))
    BY DEF InstallmentContextQuery
  <2>3. sole # Unsaid => size = sole /\ late = sole
    BY DEF Either
  <2> HIDE DEF q, sole, size, late, p, seen
  <2> QED
    BY <2>2, <2>3
<1>2. Cardinality(w.capacities) = 1 => sole \in w.capacities /\ sole # Unsaid
  BY SoleIs DEF WordsOk
<1> HIDE DEF q, sole
<1>3. w.models # {} => q.models = w.models
  BY <1>1, ThenIs, WordsAre DEF Either
<1>4. sole # Unsaid => q.hint = sole
  BY <1>1, ThenIs, WordsAre DEF Either
<1>5. ASSUME w.condition # Unsaid
      PROVE  q.condition = w.condition
  <2>1. HistoryCondition(w, h) = Unsaid
    BY <1>5 DEF HistoryCondition, WordsOk
  <2> QED
    BY <1>1, <1>5, <2>1, ThenIs, WordsAre DEF Either
<1> QED
  BY <1>2, <1>3, <1>4, <1>5 DEF Meant, Stated, q

(* What a question about photos asks for.                                  *)
Pictured(q, w) ==
  /\ Meant(q, w) /\ Stated(q, w)
  /\ Cardinality(w.capacities) = 1 => q.hint \in q.capacities

LEMMA PhotoQuery ==
  ASSUME NEW w, WordsOk(w), NEW h, NEW strip
  PROVE  Pictured(ProductContextQuery(w, h, strip), w)
<1> DEFINE q == ProductContextQuery(w, h, strip)
           sole == Sole(w.capacities)
           Past(z) == IF w.models # {} THEN w ELSE Then(z, w)
<1>1. \E x, y, z, v, n : q = Then(Mark(x), Then(Hint(sole), IF w.models # {} \/ y = {} \/ n > 4
                                                          THEN Past(z) ELSE Then(v, Past(z))))
  BY Zenon DEF ProductContextQuery
<1>2. Cardinality(w.capacities) = 1 => sole \in w.capacities /\ sole # Unsaid
  BY SoleIs DEF WordsOk
<1> HIDE DEF q, sole
<1>3. PICK x, y : /\ q = Then(Mark(x), Then(Hint(sole), y))
                  /\ w.models # {} => y.models = w.models
                  /\ w.condition # Unsaid => y.condition = w.condition
  <2>1. PICK x, y, z, v, n :
          q = Then(Mark(x), Then(Hint(sole), IF w.models # {} \/ y = {} \/ n > 4
                                             THEN Past(z) ELSE Then(v, Past(z))))
    BY <1>1
  <2>2. /\ w.models # {} => Past(z).models = w.models
        /\ w.condition # Unsaid => Past(z).condition = w.condition
    BY ThenIs DEF Either
  <2> HIDE DEF Past
  <2>3. w.condition # Unsaid => Then(v, Past(z)).condition = w.condition
    BY <2>2, ThenIs DEF Either
  <2> DEFINE said == IF w.models # {} \/ y = {} \/ n > 4 THEN Past(z) ELSE Then(v, Past(z))
  <2>4. /\ w.models # {} => said.models = w.models
        /\ w.condition # Unsaid => said.condition = w.condition
    BY <2>2, <2>3
  <2>5. q = Then(Mark(x), Then(Hint(sole), said))
    BY <2>1
  <2> HIDE DEF said
  <2> QED
    BY <2>4, <2>5
<1>4. w.models # {} => q.models = w.models
  BY <1>3, ThenIs, WordsAre DEF Either
<1>5. sole # Unsaid => q.hint = sole /\ sole \in q.capacities
  BY <1>3, ThenIs, WordsAre DEF Either
<1>6. w.condition # Unsaid => q.condition = w.condition
  BY <1>3, ThenIs, WordsAre DEF Either
<1> QED
  BY <1>2, <1>4, <1>5, <1>6 DEF Pictured, Meant, Stated, q

(* Of several models, each part of the message asks for its own.           *)
Parted(q, part) ==
  /\ q.models = part.models
  /\ Cardinality(part.conditions) = 1 =>
       q.conditions = part.conditions /\ q.condition = part.condition

LEMMA PartQuery ==
  ASSUME NEW w, WordsOk(w), NEW part, WordsOk(part), part.conditions \subseteq w.conditions, NEW h
  PROVE  Parted(Then(part, InCondition(HistoryCondition(w, h))), part)
<1> DEFINE c == HistoryCondition(w, h)
           q == Then(part, InCondition(c))
<1>1. q.models = part.models
  BY ThenIs, WordsAre DEF Either
<1>2. ASSUME Cardinality(part.conditions) = 1
      PROVE  q.conditions = part.conditions /\ q.condition = part.condition
  <2>1. part.conditions # {}
    BY <1>2, FS_EmptySet
  <2>2. c = Unsaid
    BY <2>1 DEF HistoryCondition
  <2> HIDE DEF c
  <2>3. InCondition(c).conditions = {} /\ InCondition(c).condition = Unsaid
    BY <2>2, WordsAre
  <2>4. part.conditions \cup {} = part.conditions
    OBVIOUS
  <2>5. Then(part, InCondition(c)).conditions = part.conditions \cup InCondition(c).conditions
    BY ThenIs
  <2>6. Then(part, InCondition(c)).condition = part.condition
    BY <2>3, ThenIs DEF Either
  <2> QED
    BY <2>3, <2>4, <2>5, <2>6
<1> QED
  BY <1>1, <1>2 DEF Parted
-----------------------------------------------------------------------------
(* The units that an answer may show: those that suit the message, in the  *)
(* capacity it names; of several models, those that suit their part; in    *)
(* photos, those that the query describes.                                 *)
Suits(r, w) ==
  /\ w.models # {} => r.model \in w.models
  /\ Cardinality(w.conditions) = 1 => OfCondition(r, w.condition)
Sized(r, w) == Cardinality(w.capacities) = 1 => r.capacity \in w.capacities
OfPart(r, m) == \E part \in m.parts : r.model \in part.models /\ Suits(r, part)
Alike(r, q, models) ==
  q.colours # {} /\ \E m \in models : IsVariant(r, m)
Depicts(r, q, w) ==
  /\ w.models # {} => r.model \in w.models \/ Alike(r, q, w.models)
  /\ Cardinality(w.conditions) = 1 => OfCondition(r, w.condition)
  /\ Cardinality(w.capacities) = 1 => r.capacity \in q.capacities

Kept(a) ==
  a.msg.wants # "promotion" => \A r \in Shown(a) : \E w \in SaidOf(r, a) :
    /\ w.models # {} => r.model \in w.models \/ StandsIn(r, a)
    /\ Cardinality(w.conditions) = 1 => OfCondition(r, w.condition)
    /\ \/ Cardinality(w.capacities) # 1 \/ a.kind \in {"models", "tables"}
       \/ r.capacity \in (IF a.msg.wants = "photos" THEN a.query.capacities ELSE w.capacities)
Choosy(a) ==
  OverlapCounts /\ a.kind = "table" =>
    \A s \in Tables(a), u \in a.found :
      \/ u.price = 0 \/ u = s.row
      \/ ToldApart(a.query, s.row, u) \/ OrderedFirst(s.row, u)
      \/ s.entry > 0 /\ (u.price = s.row.price \/ Cardinality(a.found) > CandidateLimit)

(* What the turn asks, and what it has found.                              *)
PhotoSteps == {"finder", "relaxed", "fallback", "batch"}
TableSteps == {"table", "entry", "conditions"}
OtherSteps == {"sealed", "promotion"}
MessageHeard(m) ==
  /\ IsFiniteSet(m.parts) /\ \A w \in m.parts \cup {m.words} : WordsOk(w)
  /\ \A part \in m.parts : part.models # {} /\ part.conditions \subseteq m.words.conditions
Queued(todo) == todo \in Seq(Range(todo)) /\ todo # <<>>
AsksInv(t) ==
  LET w == t.msg.words
  IN /\ t.step \in PhotoSteps \cup TableSteps \cup OtherSteps \cup {"tables", "models"}
     /\ MessageHeard(t.msg) /\ Queued(t.todo)
     /\ t.msg.wants = "photos" <=> t.step \in PhotoSteps
     /\ t.step = "promotion" => t.msg.wants = "promotion"
     /\ t.step = "entry" => t.msg.entry > 0
     /\ \A e \in Range(t.todo) :
          /\ t.step \in PhotoSteps => Pictured(e.query, w)
          /\ t.step \in TableSteps => Meant(e.query, w)
          /\ t.step \in {"table", "entry"} => Stated(e.query, w)
          /\ t.step = "tables" => \E l \in e.of : Suits(l, w)
          /\ t.step = "models" => \E part \in t.msg.parts : Parted(e.query, part)
     /\ t.step \in {"conditions", "tables"} => \A r \in t.shown : Suits(r, w) /\ Sized(r, w)
     /\ \A s \in Range(t.sections) :
          /\ t.step \in {"conditions", "tables"} => Suits(s.row, w)
          /\ t.step = "conditions" => Sized(s.row, w)
          /\ t.step = "models" => OfPart(s.row, t.msg)
Photographed(r, q) ==
  /\ OfCondition(r, q.condition) /\ (q.hint # Unsaid => r.capacity = q.hint)
  /\ OfModel(r, q) \/ Alike(r, q, q.models)
FindsInv(t) ==
  \A r \in t.found :
    /\ t.step \notin {"finder", "relaxed", "fallback"} =>
         OfModel(r, Query(t)) /\ OfCondition(r, AvailabilityCondition(Query(t)))
    /\ t.step \in {"finder", "relaxed"} => Photographed(r, Query(t))
HeardTurn(t) == t = Idle \/ (AsksInv(t) /\ FindsInv(t))

OutHeard(out) ==
  /\ out.turn = Idle \/ (AsksInv(out.turn) /\ out.turn.found = {})
  /\ Kept(out.said) /\ Choosy(out.said)

LEMMA QueryQueued ==
  ASSUME NEW t, Queued(t.todo)
  PROVE  t.todo[1] \in Range(t.todo) /\ Query(t) = t.todo[1].query
BY TailRange DEF Queued, Query

(* What is said of the units in sections and rows.                         *)
LEMMA SaidHeard ==
  ASSUME NEW t, t.msg.wants # "photos", NEW kind, kind \notin {"models", "table"}, NEW sections,
         \A s \in Range(sections) :
           Suits(s.row, t.msg.words) /\ (kind = "tables" \/ Sized(s.row, t.msg.words)),
         NEW which, \A r \in which : Suits(r, t.msg.words) /\ Sized(r, t.msg.words)
  PROVE  OutHeard(Says(t, kind, sections, which))
<1> DEFINE out == Says(t, kind, sections, which)
           a == out.said
<1>1. /\ out.turn = Idle /\ a.kind = kind /\ a.sections = sections /\ a.rows = which
      /\ a.msg = t.msg
  BY SaysIs, SaysOf DEF Spoken
<1> HIDE DEF out
<1>2. Choosy(a)
  BY <1>1 DEF Choosy
<1>3. ASSUME NEW r \in Shown(a)
      PROVE  Suits(r, t.msg.words) /\ (kind = "tables" \/ Sized(r, t.msg.words))
  BY <1>1, <1>3 DEF Shown, Tables
<1>4. ASSUME NEW r \in Shown(a)
      PROVE  \E w \in SaidOf(r, a) :
               /\ w.models # {} => r.model \in w.models \/ StandsIn(r, a)
               /\ Cardinality(w.conditions) = 1 => OfCondition(r, w.condition)
               /\ \/ Cardinality(w.capacities) # 1 \/ a.kind \in {"models", "tables"}
                  \/ r.capacity \in (IF a.msg.wants = "photos" THEN a.query.capacities ELSE w.capacities)
  <2>1. t.msg.words \in SaidOf(r, a)
    BY <1>1 DEF SaidOf
  <2>2. Suits(r, t.msg.words) /\ (kind = "tables" \/ Sized(r, t.msg.words))
    BY <1>3
  <2> QED
    BY <1>1, <2>1, <2>2 DEF Suits, Sized
<1>5. Kept(a)
  BY <1>4 DEF Kept
<1> QED
  BY <1>1, <1>2, <1>5 DEF OutHeard, out

LEMMA SaidOfParts ==
  ASSUME NEW t, NEW sections, \A s \in Range(sections) : OfPart(s.row, t.msg)
  PROVE  OutHeard(Says(t, "models", sections, {}))
<1> DEFINE out == Says(t, "models", sections, {})
           a == out.said
<1>1. /\ out.turn = Idle /\ a.kind = "models" /\ a.sections = sections /\ a.rows = {}
      /\ a.msg = t.msg
  BY SaysIs, SaysOf DEF Spoken
<1> HIDE DEF out
<1>2. Choosy(a)
  BY <1>1 DEF Choosy
<1>3. ASSUME NEW r \in Shown(a)
      PROVE  OfPart(r, t.msg)
  BY <1>1, <1>3 DEF Shown, Tables
<1>4. Kept(a)
  BY <1>1, <1>3 DEF Kept, OfPart, SaidOf, Suits
<1> QED
  BY <1>1, <1>2, <1>4 DEF OutHeard, out

LEMMA SaysNothing ==
  ASSUME NEW t, NEW kind
  PROVE  OutHeard(Says(t, kind, <<>>, {}))
<1> DEFINE out == Says(t, kind, <<>>, {})
           a == out.said
<1>1. out.turn = Idle /\ a.sections = <<>> /\ a.rows = {}
  BY SaysIs, SaysOf DEF Spoken
<1> HIDE DEF out
<1>2. Shown(a) = {} /\ Tables(a) = {}
  BY <1>1, SingleRange DEF Shown, Tables
<1> QED
  BY <1>1, <1>2 DEF OutHeard, Kept, Choosy, out

LEMMA GoesHeard ==
  ASSUME NEW next, AsksInv(next), next.found = {}
  PROVE  OutHeard(Goes(next))
<1>1. Goes(next).turn = next /\ Goes(next).said = NoAnswer /\ NoAnswer.kind = "none"
      /\ NoAnswer.sections = <<>>
  BY GoesIs
<1>2. NoAnswer.rows = {}
  BY DEF NoAnswer
<1>3. Shown(NoAnswer) = {}
  BY <1>1, <1>2, SingleRange DEF Shown, Tables
<1> QED
  BY <1>1, <1>3 DEF OutHeard, Kept, Choosy

(* Photos of units that the query describes.                               *)
LEMMA PicturesHeard ==
  ASSUME NEW a, NEW t, a.msg = t.msg, a.query = Query(t), a.kind \notin {"models", "table"},
         t.msg.wants = "photos", a.sections = <<>>,
         \A r \in a.rows : Depicts(r, Query(t), t.msg.words)
  PROVE  Kept(a) /\ Choosy(a)
<1>1. Choosy(a)
  BY DEF Choosy
<1>2. Shown(a) = a.rows
  BY SingleRange DEF Shown, Tables
<1>3. ASSUME NEW r \in a.rows
      PROVE  \E w \in SaidOf(r, a) :
               /\ w.models # {} => r.model \in w.models \/ StandsIn(r, a)
               /\ Cardinality(w.conditions) = 1 => OfCondition(r, w.condition)
               /\ \/ Cardinality(w.capacities) # 1 \/ a.kind \in {"models", "tables"}
                  \/ r.capacity \in (IF a.msg.wants = "photos" THEN a.query.capacities ELSE w.capacities)
  <2>1. t.msg.words \in SaidOf(r, a)
    BY DEF SaidOf
  <2>2. Depicts(r, Query(t), t.msg.words)
    BY <1>3
  <2> DEFINE w == t.msg.words
  <2>3. a.msg.words = w /\ a.msg.wants = "photos" /\ a.query = Query(t)
    OBVIOUS
  <2>4. w.models # {} => r.model \in w.models \/ Alike(r, Query(t), w.models)
    BY <2>2 DEF Depicts
  <2>5. Alike(r, Query(t), w.models) => StandsIn(r, a)
    BY <2>3 DEF Alike, StandsIn
  <2>6. Cardinality(w.conditions) = 1 => OfCondition(r, w.condition)
    BY <2>2 DEF Depicts
  <2>7. Cardinality(w.capacities) = 1 => r.capacity \in Query(t).capacities
    BY <2>2 DEF Depicts
  <2>8. (IF a.msg.wants = "photos" THEN a.query.capacities ELSE w.capacities) = Query(t).capacities
    BY <2>3
  <2> HIDE DEF w
  <2> QED
    BY <2>1, <2>4, <2>5, <2>6, <2>7, <2>8 DEF w
<1> QED
  BY <1>1, <1>2, <1>3 DEF Kept

LEMMA ListHeard ==
  ASSUME NEW t, t.msg.wants = "photos", NEW kind, kind \notin {"models", "table"}, NEW which,
         \A r \in which : Depicts(r, Query(t), t.msg.words)
  PROVE  OutHeard(Says(t, kind, <<>>, which))
<1> DEFINE out == Says(t, kind, <<>>, which)
           a == out.said
<1>1. /\ out.turn = Idle /\ a.kind = kind /\ a.sections = <<>> /\ a.rows = which
      /\ a.msg = t.msg /\ a.query = Query(t)
  BY SaysIs, SaysOf DEF Spoken
<1> HIDE DEF out
<1> QED
  BY <1>1, PicturesHeard DEF OutHeard, out

LEMMA ShowsHeard ==
  ASSUME NEW t, t.msg.wants = "photos", NEW units, NEW failedNow,
         \A r \in units : Depicts(r, Query(t), t.msg.words)
  PROVE  OutHeard(Shows(t, units, failedNow))
<1> DEFINE sent == {r \in units : r.id \in t.urls}
           missing == {r \in units \ sent : r.id \notin failedNow}
           kind == IF units = sent THEN "photos" ELSE IF missing # {} THEN "missing" ELSE "retry"
           said == Says(t, kind, <<>>, units)
           out == Shows(t, units, failedNow)
<1>1. out = [said EXCEPT !.said.unseen = missing]
  BY DEF Shows
<1>2. kind \notin {"models", "table"}
  OBVIOUS
<1> HIDE DEF sent, missing, kind, out
<1>3. Spoken(said, t, kind, <<>>, units) /\ said.said.msg = t.msg /\ said.said.query = Query(t)
  BY SaysIs, SaysOf
<1> HIDE DEF said
<1> DEFINE now == [said.said EXCEPT !.unseen = missing]
<1>4. /\ now.sections = <<>> /\ now.kind = kind /\ now.rows = units /\ now.msg = t.msg
      /\ now.query = Query(t)
  BY <1>3 DEF Spoken, AnswerFields
<1>5. [said EXCEPT !.said.unseen = missing] = [turn |-> said.turn, said |-> now]
  BY <1>3 DEF Spoken
<1> HIDE DEF now
<1>6. Kept(now) /\ Choosy(now)
  BY <1>2, <1>4, PicturesHeard
<1>7. out.turn = Idle /\ out.said = now
  BY <1>1, <1>3, <1>5 DEF Spoken
<1> QED
  BY <1>6, <1>7 DEF OutHeard, out

(* The units of a photo request.                                           *)
LEMMA QueryDepicts ==
  ASSUME NEW q, NEW w, WordsOk(w), Pictured(q, w), NEW r, OfCondition(r, q.condition),
         OfModel(r, q) \/ Alike(r, q, q.models),
         Cardinality(w.capacities) = 1 => r.capacity \in q.capacities
  PROVE  Depicts(r, q, w)
<1>1. w.models # {} => r.model \in w.models \/ Alike(r, q, w.models)
  BY DEF Pictured, Meant, OfModel
<1>2. ASSUME Cardinality(w.conditions) = 1
      PROVE  OfCondition(r, w.condition)
  <2>1. w.conditions # {}
    BY <1>2, FS_EmptySet
  <2> QED
    BY <2>1 DEF WordsOk, Pictured, Stated
<1> QED
  BY <1>1, <1>2 DEF Depicts

LEMMA TurnPictured ==
  ASSUME NEW t, AsksInv(t), t.step \in PhotoSteps
  PROVE  /\ t.msg.wants = "photos" /\ WordsOk(t.msg.words) /\ MessageHeard(t.msg)
         /\ Pictured(Query(t), t.msg.words)
<1>1. t.todo[1] \in Range(t.todo) /\ Query(t) = t.todo[1].query
  BY QueryQueued DEF AsksInv
<1>2. Pictured(t.todo[1].query, t.msg.words)
  BY <1>1 DEF AsksInv
<1>3. t.msg.wants = "photos" /\ MessageHeard(t.msg)
  BY DEF AsksInv
<1> QED
  BY <1>1, <1>2, <1>3 DEF MessageHeard

LEMMA OneUnitHeard ==
  ASSUME NEW t, t.msg.wants = "photos", NEW r, Depicts(r, Query(t), t.msg.words), NEW failedNow
  PROVE  OutHeard(OneUnit(t, r, failedNow))
<1>1. CASE MadeToOrder(r)
  BY <1>1, SaysNothing DEF OneUnit
<1>2. CASE ~MadeToOrder(r)
  BY <1>2, ShowsHeard DEF OneUnit
<1> QED
  BY <1>1, <1>2

(* A turn that waits for one photo search.                                 *)
LEMMA PhotoWaits ==
  ASSUME NEW step \in PhotoSteps, NEW msg, MessageHeard(msg), msg.wants = "photos",
         NEW q, Pictured(q, msg.words)
  PROVE  LET t == Waiting(step, msg, <<Ask(q)>>) IN AsksInv(t) /\ t.found = {}
<1> DEFINE t == Waiting(step, msg, <<Ask(q)>>)
<1>1. t.step = step /\ t.msg = msg /\ t.todo = <<Ask(q)>> /\ t.found = {} /\ t.sections = <<>>
  BY WaitingIs
<1> HIDE DEF t
<1>2. Ask(q).query = q
  BY DEF Ask
<1>3. Queued(t.todo) /\ Range(t.todo) = {Ask(q)} /\ Range(t.sections) = {}
  BY <1>1, SingleRange DEF Queued
<1>4. /\ step \notin TableSteps
      /\ step \notin {"tables", "models", "conditions", "entry", "promotion"}
  BY DEF PhotoSteps, TableSteps
<1>5. \A e \in Range(t.todo) : Pictured(e.query, msg.words)
  BY <1>2, <1>3
<1>6. AsksInv(t)
  BY <1>1, <1>3, <1>4, <1>5 DEF AsksInv, TableSteps
<1> QED
  BY <1>1, <1>6 DEF t

LEMMA FinderHeard ==
  ASSUME NEW t, NEW h, NEW failedNow, AsksInv(t), FindsInv(t), t.step \in {"finder", "relaxed"},
         NEW out \in Finder(t, failedNow, h)
  PROVE  OutHeard(out)
<1> DEFINE words == t.msg.words
           relaxed == ProductContextQuery(words, h, TRUE)
           asked == ProductContextQuery(words, h, FALSE)
<1>1. /\ t.msg.wants = "photos" /\ WordsOk(words) /\ MessageHeard(t.msg)
      /\ Pictured(Query(t), words)
  BY TurnPictured DEF PhotoSteps
<1>2. \/ \E r \in t.found : out = OneUnit(t, r, failedNow)
      \/ out = Goes(Waiting("relaxed", t.msg, <<Ask(relaxed)>>))
      \/ out = Goes(Waiting("fallback", t.msg, <<Ask(asked)>>))
  BY DEF Finder
<1>3. Pictured(relaxed, words) /\ Pictured(asked, words)
  BY <1>1, PhotoQuery
<1> HIDE DEF relaxed, asked
<1>4. ASSUME NEW r \in t.found
      PROVE  Depicts(r, Query(t), words)
  <2>1. Photographed(r, Query(t))
    BY DEF FindsInv
  <2>2. Cardinality(words.capacities) = 1 => r.capacity \in Query(t).capacities
    BY <1>1, <2>1 DEF Photographed, Pictured, Meant, WordsOk
  <2> QED
    BY <1>1, <2>1, <2>2, QueryDepicts DEF Photographed
<1>5. CASE \E r \in t.found : out = OneUnit(t, r, failedNow)
  BY <1>1, <1>4, <1>5, OneUnitHeard
<1>6. CASE out = Goes(Waiting("relaxed", t.msg, <<Ask(relaxed)>>))
  <2>1. "relaxed" \in PhotoSteps
    BY DEF PhotoSteps
  <2> QED
    BY <1>1, <1>3, <1>6, <2>1, PhotoWaits, GoesHeard
<1>7. CASE out = Goes(Waiting("fallback", t.msg, <<Ask(asked)>>))
  <2>1. "fallback" \in PhotoSteps
    BY DEF PhotoSteps
  <2> QED
    BY <1>1, <1>3, <1>7, <2>1, PhotoWaits, GoesHeard
<1> QED
  BY <1>2, <1>5, <1>6, <1>7

LEMMA FallbackHeard ==
  ASSUME NEW t, NEW failedNow, AsksInv(t), t.step = "fallback", NEW out \in Fallback(t, failedNow)
  PROVE  OutHeard(out)
<1> DEFINE units == ExactCandidates(Query(t), t.found)
<1>1. /\ t.msg.wants = "photos" /\ WordsOk(t.msg.words) /\ Pictured(Query(t), t.msg.words)
  BY TurnPictured DEF PhotoSteps
<1>2. ASSUME NEW r \in units
      PROVE  Depicts(r, Query(t), t.msg.words)
  <2>1. /\ OfCondition(r, Query(t).condition) /\ OfModel(r, Query(t))
        /\ Query(t).capacities # {} => r.capacity \in Query(t).capacities
    BY <1>2 DEF ExactCandidates, Best
  <2>2. Cardinality(t.msg.words.capacities) = 1 => r.capacity \in Query(t).capacities
    BY <1>1, <2>1 DEF Pictured
  <2> QED
    BY <1>1, <2>1, <2>2, QueryDepicts
<1>3. \/ \E r \in units : out = OneUnit(t, r, failedNow)
      \/ out = Says(t, "photos", <<>>, {r \in units : r.id \in t.urls})
      \/ out = Says(t, "which", <<>>, units)
      \/ out = Says(t, "sealed", <<>>, {}) \/ out = Says(t, "nothing", <<>>, {})
  BY DEF Fallback
<1> HIDE DEF units
<1>4. CASE \E r \in units : out = OneUnit(t, r, failedNow)
  BY <1>1, <1>2, <1>4, OneUnitHeard
<1>5. CASE \E kind, which : /\ kind \notin {"models", "table"} /\ which \subseteq units
                            /\ out = Says(t, kind, <<>>, which)
  BY <1>1, <1>2, <1>5, ListHeard
<1> QED
  BY <1>3, <1>4, <1>5

LEMMA BatchHeard ==
  ASSUME NEW t, NEW failedNow, AsksInv(t), FindsInv(t), t.step = "batch",
         NEW out \in Batch(t, failedNow)
  PROVE  OutHeard(out)
<1> DEFINE q == Query(t)
           fit == {r \in t.found : /\ OfCondition(r, q.condition)
                                   /\ q.capacities # {} => r.capacity \in q.capacities}
<1>1. /\ t.msg.wants = "photos" /\ WordsOk(t.msg.words) /\ Pictured(q, t.msg.words)
  BY TurnPictured DEF PhotoSteps
<1>2. ASSUME NEW r \in fit
      PROVE  Depicts(r, q, t.msg.words)
  <2>1. OfModel(r, q)
    BY DEF FindsInv
  <2>2. Cardinality(t.msg.words.capacities) = 1 => r.capacity \in q.capacities
    BY <1>1 DEF Pictured
  <2> QED
    BY <1>1, <2>1, <2>2, QueryDepicts
<1>3. \/ out = Says(t, "nothing", <<>>, {})
      \/ \E units : units \subseteq fit /\ out = Shows(t, units, failedNow)
  BY DEF Batch
<1> HIDE DEF fit
<1> QED
  BY <1>1, <1>2, <1>3, SaysNothing, ShowsHeard

(* Units selected for a table.                                             *)
LEMMA SelectionFits ==
  ASSUME NEW q, NEW override, NEW found, NEW s \in SelectPricedCandidate(q, override, found),
         NEW r \in s.rows
  PROVE  r \in found /\ OfCondition(r, override) /\ (q.hint # Unsaid => r.capacity = q.hint)
<1> DEFINE kept == Narrowed(q, override, found)
           best == Best(q, kept)
<1>1. best \subseteq kept
  BY DEF Best
<1>2. r \in kept
  <2>1. CASE s = NotFound
    BY <2>1 DEF NotFound
  <2>2. CASE \E top \in FirstRows(q, kept, CandidateLimit) : s = Which(top)
    BY <2>2, RowsOfFirst DEF Which
  <2>3. CASE \E x \in best : s = Selected(x)
    BY <1>1, <2>3 DEF Selected
  <2>4. SelectPricedCandidate(q, override, found) \in
          {{NotFound}, {Which(top) : top \in FirstRows(q, kept, CandidateLimit)},
           {Selected(x) : x \in best}}
    <3> HIDE DEF best
    <3> QED
      BY DEF SelectPricedCandidate, best
  <2> HIDE DEF kept, best
  <2> QED
    BY <2>1, <2>2, <2>3, <2>4
<1> QED
  BY <1>2 DEF Narrowed

LEMMA RowSuits ==
  ASSUME NEW t, AsksInv(t), FindsInv(t), t.step \in TableSteps,
         NEW s \in Found(t), NEW r \in s.rows
  PROVE  r \in t.found /\ Suits(r, t.msg.words) /\ Sized(r, t.msg.words)
<1> DEFINE w == t.msg.words
           q == Query(t)
<1>1. Override(t) = w.condition
  BY DEF Override, TableSteps
<1>2. r \in t.found /\ OfCondition(r, w.condition) /\ (q.hint # Unsaid => r.capacity = q.hint)
  BY <1>1, SelectionFits DEF Found
<1>3. Meant(q, w)
  <2>1. Queued(t.todo) /\ \A e \in Range(t.todo) : Meant(e.query, w)
    BY DEF AsksInv
  <2> QED
    BY <2>1, QueryQueued
<1>4. OfModel(r, q)
  BY <1>2 DEF FindsInv, TableSteps
<1>5. Unsaid \notin w.capacities
  BY DEF AsksInv, MessageHeard, WordsOk
<1> HIDE DEF w, q
<1>6. Suits(r, w)
  BY <1>2, <1>3, <1>4 DEF Suits, Meant, OfModel
<1>7. Sized(r, w)
  BY <1>2, <1>3, <1>5 DEF Sized, Meant
<1> QED
  BY <1>2, <1>6, <1>7 DEF w

(* The first search of a turn.                                             *)
LEMMA WaitsHeard ==
  ASSUME NEW step \in TableSteps, NEW msg, MessageHeard(msg), msg.wants # "photos", NEW todo,
         Queued(todo), step # "conditions", step = "entry" => msg.entry > 0,
         \A e \in Range(todo) : Meant(e.query, msg.words) /\ Stated(e.query, msg.words)
  PROVE  LET t == Waiting(step, msg, todo) IN AsksInv(t) /\ t.found = {}
<1> DEFINE t == Waiting(step, msg, todo)
<1>1. t.step = step /\ t.msg = msg /\ t.todo = todo /\ t.found = {} /\ t.sections = <<>>
  BY WaitingIs
<1> HIDE DEF t
<1>2. Range(t.sections) = {}
  BY <1>1, SingleRange
<1>3. step \notin PhotoSteps /\ step \notin {"tables", "models", "conditions", "promotion"}
  BY DEF PhotoSteps, TableSteps
<1>4. AsksInv(t)
  BY <1>1, <1>2, <1>3 DEF AsksInv
<1> QED
  BY <1>1, <1>4 DEF t

LEMMA FirstAsks ==
  ASSUME NEW msg, MessageHeard(msg), NEW h
  PROVE  AsksInv(First(msg, h)) /\ First(msg, h).found = {}
<1> DEFINE w == msg.words
           photos == ProductContextQuery(w, h, FALSE)
           asked == InstallmentContextQuery(w, h)
<1>1. WordsOk(w) /\ \A part \in msg.parts : WordsOk(part)
  BY DEF MessageHeard
<1>2. CASE msg.wants = "photos"
  <2>1. PICK step : step = IF Cardinality(photos.models) > 1 THEN "batch" ELSE "finder"
    OBVIOUS
  <2>2. step \in PhotoSteps
    BY <2>1 DEF PhotoSteps
  <2>3. First(msg, h) = Waiting(step, msg, <<Ask(photos)>>)
    BY <1>2, <2>1, Zenon DEF First
  <2>4. Pictured(photos, w)
    BY <1>1, PhotoQuery
  <2> HIDE DEF photos
  <2> QED
    BY <1>2, <2>2, <2>3, <2>4, PhotoWaits
<1>3. CASE msg.wants \in OtherSteps
  <2> DEFINE used == InCondition("used")
             t == Waiting(msg.wants, msg, <<Ask(used)>>)
  <2>1. First(msg, h) = t
    <3>1. msg.wants # "photos"
      BY <1>3 DEF OtherSteps
    <3> QED
      BY <1>3, <3>1, Zenon DEF First, OtherSteps
  <2>2. /\ t.step = msg.wants /\ t.msg = msg /\ t.todo = <<Ask(used)>> /\ t.found = {}
        /\ t.sections = <<>>
    BY WaitingIs
  <2> HIDE DEF t, used
  <2>3. Queued(t.todo) /\ Range(t.sections) = {}
    BY <2>2, SingleRange DEF Queued
  <2>4. /\ t.step \notin PhotoSteps /\ t.step \notin TableSteps
        /\ t.step \notin {"tables", "models", "conditions", "entry", "table"}
        /\ t.step \in OtherSteps /\ t.msg.wants # "photos"
    BY <1>3, <2>2 DEF OtherSteps, PhotoSteps, TableSteps
  <2>5. AsksInv(t)
    BY <2>2, <2>3, <2>4 DEF AsksInv
  <2> QED
    BY <2>1, <2>2, <2>5
<1>4. CASE msg.wants \notin {"photos"} \cup OtherSteps /\ msg.entry = 0 /\ msg.parts # {}
  <2> DEFINE c == HistoryCondition(w, h)
             todo == SetToSeq(Segments(msg, h))
             t == Waiting("models", msg, todo)
  <2>1. First(msg, h) = t
    BY <1>4, Zenon DEF First, OtherSteps
  <2>2. Segments(msg, h) # {} /\ IsFiniteSet(Segments(msg, h))
    <3> DEFINE Own(part) == Ask(Then(part, InCondition(c)))
               f == [part \in msg.parts |-> Own(part)]
    <3>1. Segments(msg, h) = {Own(part) : part \in msg.parts}
      BY DEF Segments
    <3> HIDE DEF Own
    <3>2. f \in Surjection(msg.parts, Segments(msg, h))
      BY <3>1 DEF Surjection
    <3>3. Segments(msg, h) # {}
      BY <1>4, <3>1
    <3> HIDE DEF f
    <3> QED
      BY <3>2, <3>3, FS_Surjection DEF MessageHeard
  <2>3. \A e \in Segments(msg, h) : \E part \in msg.parts : Parted(e.query, part)
    <3> SUFFICES ASSUME NEW part \in msg.parts
                 PROVE  Parted(Ask(Then(part, InCondition(c))).query, part)
      BY DEF Segments
    <3>1. Ask(Then(part, InCondition(c))).query = Then(part, InCondition(c))
      BY DEF Ask
    <3>2. part.conditions \subseteq w.conditions
      BY DEF MessageHeard
    <3> QED
      BY <1>1, <3>1, <3>2, PartQuery
  <2>4. Queued(todo) /\ Range(todo) \subseteq Segments(msg, h)
    BY <2>2, SeqOfSet DEF Queued
  <2> HIDE DEF todo
  <2>5. t.step = "models" /\ t.msg = msg /\ t.todo = todo /\ t.found = {} /\ t.sections = <<>>
    BY WaitingIs
  <2> HIDE DEF t
  <2>6. Range(t.sections) = {}
    BY <2>5, SingleRange
  <2>7. "models" \notin PhotoSteps \cup TableSteps \cup OtherSteps
    BY DEF PhotoSteps, TableSteps, OtherSteps
  <2>8. AsksInv(t)
    BY <1>4, <2>3, <2>4, <2>5, <2>6, <2>7 DEF AsksInv
  <2> QED
    BY <2>1, <2>5, <2>8
<1>5. CASE msg.wants \notin {"photos"} \cup OtherSteps /\ ~(msg.entry = 0 /\ msg.parts # {})
  <2>1. PICK step : step = IF msg.entry > 0 THEN "entry" ELSE "table"
    OBVIOUS
  <2>2. step \in TableSteps /\ step # "conditions" /\ (step = "entry" => msg.entry > 0)
    BY <2>1 DEF TableSteps
  <2>3. First(msg, h) = Waiting(step, msg, <<Ask(asked)>>)
    BY <1>5, <2>1, Zenon DEF First, OtherSteps
  <2>4. Meant(asked, w) /\ Stated(asked, w)
    BY <1>1, InstallmentQuery
  <2>5. Queued(<<Ask(asked)>>) /\ Range(<<Ask(asked)>>) = {Ask(asked)} /\ Ask(asked).query = asked
    BY SingleRange DEF Queued, Ask
  <2> HIDE DEF asked
  <2> QED
    BY <1>5, <2>2, <2>3, <2>4, <2>5, WaitsHeard
<1> QED
  BY <1>2, <1>4, <1>5, <1>3
-----------------------------------------------------------------------------
(* The conclusions about tables.                                           *)
LEMMA PairRange ==
  ASSUME NEW a, NEW b
  PROVE  Queued(<<a, b>>) /\ Range(<<a, b>>) = {a, b}
BY DEF Range, Queued

(* A turn that waits for the searches todo, with units shown and sections. *)
LEMMA AskingIs ==
  ASSUME NEW step, NEW msg, NEW todo, NEW shown, NEW sections
  PROVE  LET t == [Waiting(step, msg, todo) EXCEPT !.shown = shown]
             u == [Waiting(step, msg, todo) EXCEPT !.sections = sections]
             v == [Waiting(step, msg, todo) EXCEPT !.shown = shown, !.sections = sections]
         IN /\ t.step = step /\ t.msg = msg /\ t.todo = todo /\ t.found = {} /\ t.shown = shown
            /\ t.sections = <<>>
            /\ u.step = step /\ u.msg = msg /\ u.todo = todo /\ u.found = {} /\ u.sections = sections
            /\ v.step = step /\ v.msg = msg /\ v.todo = todo /\ v.found = {} /\ v.shown = shown
            /\ v.sections = sections
<1> DEFINE w == Waiting(step, msg, todo)
<1>1. /\ Whole(w) /\ w.step = step /\ w.msg = msg /\ w.todo = todo /\ w.found = {}
      /\ w.sections = <<>>
  BY WaitingIs
<1> HIDE DEF w
<1> DEFINE t == [w EXCEPT !.shown = shown]
           u == [w EXCEPT !.sections = sections]
           v == [w EXCEPT !.shown = shown, !.sections = sections]
<1>2. Altered(t, w, shown, w.sections)
  BY <1>1, AlteredIs
<1>3. Altered(u, w, w.shown, sections)
  BY <1>1, AlteredIs
<1>4. Altered(v, w, shown, sections)
  BY <1>1, AlteredIs
<1> HIDE DEF t, u, v
<1> QED
  BY <1>1, <1>2, <1>3, <1>4 DEF Altered, t, u, v, w

LEMMA ConditionsHeard ==
  ASSUME NEW t, MessageHeard(t.msg), t.msg.wants # "photos",
         \A r \in t.shown : Suits(r, t.msg.words) /\ Sized(r, t.msg.words),
         NEW h, NEW out \in Conditions(t, h)
  PROVE  OutHeard(out)
<1> DEFINE w == t.msg.words
           q == InstallmentContextQuery(w, h)
           used == {r \in t.shown : ~IsSealed(r)}
           a == [query |-> Then(q, InCondition("used")), of |-> used]
           b == [query |-> Then(q, InCondition("sealed")), of |-> t.shown \ used]
           next == [Waiting("conditions", t.msg, <<a, b>>) EXCEPT !.shown = t.shown]
<1>1. out = Goes(next) \/ out = Says(t, "which", <<>>, t.shown)
  BY DEF Conditions
<1>2. CASE out = Says(t, "which", <<>>, t.shown)
  BY <1>2, SingleRange, SaidHeard
<1>3. CASE out = Goes(next)
  <2>1. Meant(q, w)
    BY InstallmentQuery DEF MessageHeard
  <2> HIDE DEF q
  <2>2. ASSUME NEW c
        PROVE  Meant(Then(q, InCondition(c)), w)
    <3>1. /\ Then(q, InCondition(c)).models = q.models
          /\ Then(q, InCondition(c)).hint = q.hint
      BY ThenIs, WordsAre DEF Either
    <3> QED
      BY <2>1, <3>1 DEF Meant
  <2>3. Meant(a.query, w) /\ Meant(b.query, w)
    BY <2>2
  <2> HIDE DEF a, b
  <2>4. /\ next.step = "conditions" /\ next.msg = t.msg /\ next.todo = <<a, b>>
        /\ next.found = {} /\ next.shown = t.shown /\ next.sections = <<>>
    BY AskingIs
  <2> HIDE DEF next
  <2>5. Queued(next.todo) /\ \A e \in Range(next.todo) : Meant(e.query, w)
    BY <2>3, <2>4, PairRange
  <2>6. Range(next.sections) = {} /\ "conditions" \in TableSteps /\ "conditions" \notin PhotoSteps
    BY <2>4, SingleRange DEF TableSteps, PhotoSteps
  <2>7. AsksInv(next)
    BY <2>4, <2>5, <2>6 DEF AsksInv
  <2> QED
    BY <1>3, <2>4, <2>7, GoesHeard
<1> QED
  BY <1>1, <1>2, <1>3

LEMMA BothHeard ==
  ASSUME NEW t, MessageHeard(t.msg), t.msg.wants # "photos", IsFiniteSet(t.shown),
         \A r \in t.shown : Suits(r, t.msg.words) /\ Sized(r, t.msg.words),
         NEW h, NEW out \in Both(t, h)
  PROVE  OutHeard(out)
<1> DEFINE Own(r) == [query |-> [Labelled(r) EXCEPT !.colours = {r.colour}, !.prices = {}],
                      of |-> {r}]
           asks == {Own(r) : r \in t.shown}
           todo == SetToSeq(asks)
           next == [Waiting("tables", t.msg, todo) EXCEPT !.shown = t.shown]
<1>1. CASE out \in Conditions(t, h)
  BY <1>1, ConditionsHeard
<1>2. CASE out = Goes(next) /\ Cardinality(t.shown) = 2
  <2>1. t.shown # {}
    <3>1. Cardinality(t.shown) = 2
      BY <1>2
    <3> HIDE DEF asks, next, todo
    <3> QED
      BY <3>1, FS_EmptySet
  <2>2. \A e \in asks : \E l \in e.of : Suits(l, t.msg.words)
    <3>1. \A r \in t.shown : Own(r).of = {r}
      OBVIOUS
    <3> HIDE DEF Own
    <3> QED
      BY <3>1
  <2>3. asks # {} /\ IsFiniteSet(asks)
    <3>1. asks # {}
      BY <2>1
    <3> DEFINE f == [r \in t.shown |-> Own(r)]
    <3> HIDE DEF Own
    <3>2. f \in Surjection(t.shown, asks)
      BY DEF Surjection
    <3> HIDE DEF f, asks
    <3> QED
      BY <3>1, <3>2, FS_Surjection
  <2> HIDE DEF asks
  <2>4. Queued(todo) /\ Range(todo) \subseteq asks
    BY <2>3, SeqOfSet DEF Queued
  <2> HIDE DEF todo
  <2>5. /\ next.step = "tables" /\ next.msg = t.msg /\ next.todo = todo
        /\ next.found = {} /\ next.shown = t.shown /\ next.sections = <<>>
    BY AskingIs
  <2> HIDE DEF next
  <2>6. Range(next.sections) = {} /\ "tables" \notin TableSteps \cup PhotoSteps
    BY <2>5, SingleRange DEF TableSteps, PhotoSteps
  <2>7. AsksInv(next)
    BY <2>2, <2>4, <2>5, <2>6 DEF AsksInv
  <2> QED
    BY <1>2, <2>5, <2>7, GoesHeard
<1> QED
  BY <1>1, <1>2 DEF Both

(* One table of a unit that was told apart.                                *)
LEMMA TableSaid ==
  ASSUME NEW t, t.msg.wants # "photos", NEW of, NEW r, NEW entry,
         Suits(r, t.msg.words), Sized(r, t.msg.words),
         OverlapCounts => \A u \in t.found :
           \/ u.price = 0 \/ u = r \/ ToldApart(Query(t), r, u) \/ OrderedFirst(r, u)
           \/ entry > 0 /\ (u.price = r.price \/ Cardinality(t.found) > CandidateLimit)
  PROVE  OutHeard(Says(t, "table", <<Section(of, r, entry)>>, {}))
<1> DEFINE sec == Section(of, r, entry)
           out == Says(t, "table", <<sec>>, {})
           a == out.said
<1>1. sec.of = of /\ sec.row = r /\ sec.entry = entry
  BY SectionIs
<1> HIDE DEF sec
<1>2. /\ out.turn = Idle /\ a.kind = "table" /\ a.sections = <<sec>> /\ a.rows = {}
      /\ a.msg = t.msg /\ a.query = Query(t) /\ a.found = t.found
  BY SaysIs, SaysOf DEF Spoken
<1> HIDE DEF out
<1>3. Tables(a) = {sec} /\ Shown(a) = {r}
  BY <1>1, <1>2, SingleRange DEF Tables, Shown
<1>4. Choosy(a)
  BY <1>1, <1>2, <1>3 DEF Choosy
<1>5. Kept(a)
  BY <1>2, <1>3 DEF Kept, SaidOf, Suits, Sized
<1> QED
  BY <1>2, <1>4, <1>5 DEF OutHeard, out, sec

(* What a selection for a table left out.                                  *)
LEMMA FoundTold ==
  ASSUME OverlapCounts, NEW t, TurnInv(t), AsksInv(t), t.step \in {"table", "entry"},
         NEW s \in Found(t), NEW r \in s.rows, NEW u \in t.found, u \notin s.rows
  PROVE  \/ u.price = 0 \/ ToldApart(Query(t), r, u) \/ OrderedFirst(r, u)
         \/ s.kind = "which" /\ Cardinality(t.found) > CandidateLimit
<1> DEFINE w == t.msg.words
           q == Query(t)
<1>1. Stated(q, w)
  <2>1. Queued(t.todo) /\ \A e \in Range(t.todo) : Stated(e.query, w)
    BY DEF AsksInv
  <2> QED
    BY <2>1, QueryQueued
<1>2. Override(t) = w.condition
  BY DEF Override
<1>3. s \in SelectPricedCandidate(q, w.condition, t.found)
  BY <1>2 DEF Found
<1>4. w.condition # Unsaid => q.condition = w.condition
  BY <1>1 DEF Stated
<1>5. IsFiniteSet(t.found) /\ u.price \in Nat
  BY DEF TurnInv, Listed
<1> HIDE DEF w, q
<1> QED
  BY <1>3, <1>4, <1>5, SelectionTold DEF q

LEMMA TableHeard ==
  ASSUME NEW t, TurnInv(t), AsksInv(t), FindsInv(t), t.step = "table",
         NEW s \in Found(t), NEW h, NEW out \in Table(t, s, h)
  PROVE  OutHeard(out)
<1> DEFINE w == t.msg.words
<1>1. t.step \in TableSteps /\ t.step \notin PhotoSteps
  BY DEF TableSteps, PhotoSteps
<1>2. t.msg.wants # "photos" /\ MessageHeard(t.msg)
  BY <1>1 DEF AsksInv
<1>3. \A r \in s.rows : r \in t.found /\ Suits(r, w) /\ Sized(r, w)
  BY <1>1, RowSuits
<1>4. CASE s.kind = "row"
  <2>1. PICK r \in s.rows : out = Says(t, "table", <<Section(s.rows, r, 0)>>, {})
    BY <1>4 DEF Table
  <2>2. ASSUME OverlapCounts, NEW u \in t.found
        PROVE  u.price = 0 \/ u = r \/ ToldApart(Query(t), r, u) \/ OrderedFirst(r, u)
    <3>1. s.rows = {r}
      BY <1>4, <2>1, Selections DEF Found
    <3> QED
      BY <1>1, <1>4, <2>1, <2>2, <3>1, FoundTold
  <2> QED
    BY <1>2, <1>3, <2>1, <2>2, TableSaid
<1>5. CASE s.kind = "which"
  <2> DEFINE n == [t EXCEPT !.shown = s.rows]
  <2>1. out \in Both(n, h)
    BY <1>5 DEF Table
  <2>2. Altered(n, t, s.rows, t.sections)
    BY AlteredIs DEF TurnInv
  <2> HIDE DEF n
  <2>3. n.msg = t.msg /\ n.shown = s.rows
    BY <2>2 DEF Altered
  <2>4. IsFiniteSet(s.rows)
    BY <1>3, FS_Subset DEF TurnInv, Listed
  <2> QED
    BY <1>2, <1>3, <2>1, <2>3, <2>4, BothHeard
<1>6. CASE s.kind \notin {"row", "which"}
  <2>1. out = Says(t, "nothing", <<>>, {})
    BY <1>6 DEF Table
  <2> QED
    BY <2>1, SaysNothing
<1> QED
  BY <1>4, <1>5, <1>6

LEMMA EntryHeard ==
  ASSUME NEW t, TurnInv(t), AsksInv(t), FindsInv(t), t.step = "entry",
         NEW s \in Found(t), NEW h, NEW out \in Entry(t, s, h)
  PROVE  OutHeard(out)
<1> DEFINE w == t.msg.words
           entry == t.msg.entry
           kinds == {<<r.model, r.capacity, IsSealed(r), r.price>> : r \in s.rows}
           alike == Cardinality(kinds) = 1
           paid == {r \in s.rows : EntryAccepted(r.price, entry)}
<1>1. t.step \in TableSteps /\ t.step \notin PhotoSteps
  BY DEF TableSteps, PhotoSteps
<1>2. t.msg.wants # "photos" /\ MessageHeard(t.msg) /\ entry > 0
  BY <1>1 DEF AsksInv
<1>3. \A r \in s.rows : r \in t.found /\ Suits(r, w) /\ Sized(r, w)
  BY <1>1, RowSuits
<1>4. \/ alike /\ \E r \in s.rows : out = Says(t, "table", <<Section({r}, r, entry)>>, {})
      \/ out = Says(t, "which", <<>>, s.rows)
      \/ out = Goes(First([t.msg EXCEPT !.entry = 0], h))
  BY DEF Entry
<1>5. CASE alike /\ \E r \in s.rows : out = Says(t, "table", <<Section({r}, r, entry)>>, {})
  <2>1. PICK r \in s.rows : out = Says(t, "table", <<Section({r}, r, entry)>>, {})
    BY <1>5
  <2>2. \A u \in s.rows : u.price = r.price
    <3> SUFFICES ASSUME NEW u \in s.rows
                 PROVE  u.price = r.price
      OBVIOUS
    <3> DEFINE Kind(x) == <<x.model, x.capacity, IsSealed(x), x.price>>
    <3>1. Kind(u) \in kinds /\ Kind(r) \in kinds
      OBVIOUS
    <3>2. Cardinality(kinds) = 1
      BY <1>5
    <3>3. IsFiniteSet(kinds)
      <4>1. IsFiniteSet(s.rows)
        BY <1>3, FS_Subset DEF TurnInv, Listed
      <4> DEFINE f == [x \in s.rows |-> Kind(x)]
      <4>2. f \in Surjection(s.rows, kinds)
        BY DEF Surjection
      <4> HIDE DEF f, kinds
      <4> QED
        BY <4>1, <4>2, FS_Surjection
    <3>4. Kind(u) = Kind(r)
      <4> HIDE DEF kinds, Kind
      <4> QED
        BY <3>1, <3>2, <3>3, OneOf
    <3> QED
      BY <3>4
  <2>3. ASSUME OverlapCounts, NEW u \in t.found
        PROVE  \/ u.price = 0 \/ u = r \/ ToldApart(Query(t), r, u) \/ OrderedFirst(r, u)
               \/ entry > 0 /\ (u.price = r.price \/ Cardinality(t.found) > CandidateLimit)
    <3>1. CASE u \in s.rows
      BY <1>2, <2>2, <3>1
    <3>2. CASE u \notin s.rows
      BY <1>1, <1>2, <2>3, <3>2, FoundTold
    <3> QED
      BY <3>1, <3>2
  <2> HIDE DEF entry
  <2> QED
    BY <1>2, <1>3, <2>1, <2>3, TableSaid
<1>6. CASE out = Says(t, "which", <<>>, s.rows)
  BY <1>2, <1>3, <1>6, SingleRange, SaidHeard
<1>7. CASE out = Goes(First([t.msg EXCEPT !.entry = 0], h))
  <2> DEFINE m == [t.msg EXCEPT !.entry = 0]
  <2>1. m.words = t.msg.words /\ m.parts = t.msg.parts
    BY DEF TurnInv, IsMessage
  <2> HIDE DEF m
  <2>2. MessageHeard(m)
    BY <1>2, <2>1 DEF MessageHeard
  <2> QED
    BY <1>7, <2>2, FirstAsks, GoesHeard DEF m
<1> QED
  BY <1>4, <1>5, <1>6, <1>7

(* The next section of several tables.                                     *)
SectionHeard(t, sec) ==
  /\ t.step \in {"conditions", "tables"} => Suits(sec.row, t.msg.words)
  /\ t.step = "conditions" => Sized(sec.row, t.msg.words)
  /\ t.step = "models" => OfPart(sec.row, t.msg)

LEMMA NextSection ==
  ASSUME NEW t, TurnInv(t), AsksInv(t), FindsInv(t), t.step \in {"conditions", "tables", "models"},
         NEW s \in Found(t), s.kind = "row",
         t.step = "tables" => \A r \in s.rows, l \in t.todo[1].of : r.price = l.price
  PROVE  LET done == Append(t.sections, Section(t.todo[1].of, CHOOSE r \in s.rows : TRUE, 0)) IN
         \A sec \in Range(done) : SectionHeard(t, sec)
<1> DEFINE new == Section(t.todo[1].of, CHOOSE x \in s.rows : TRUE, 0)
           done == Append(t.sections, new)
           w == t.msg.words
           q == Query(t)
<1>1. PICK r \in t.found :
        /\ s.rows = {r}
        /\ q.battery # 0 /\ q.hint = Unsaid => r.battery = q.battery
  BY Selections DEF Found
<1>2. (CHOOSE x \in s.rows : TRUE) = r
  BY <1>1
<1>3. new.of = t.todo[1].of /\ new.row = r
  <2>1. PICK of : of = t.todo[1].of
    OBVIOUS
  <2>2. new = Section(of, r, 0)
    BY <1>2, <2>1, Zenon
  <2> HIDE DEF new
  <2> QED
    BY <2>1, <2>2, SectionIs
<1>4. Range(done) = Range(t.sections) \cup {new}
  <2> HIDE DEF new
  <2> QED
    BY AppendedRange DEF TurnInv, Tabled
<1>5. Queued(t.todo) /\ t.todo[1] \in Range(t.todo) /\ q = t.todo[1].query
  BY QueryQueued DEF AsksInv
<1>6. OfModel(r, q) /\ OfCondition(r, AvailabilityCondition(q))
  BY DEF FindsInv
<1>7. t.step = "conditions" => Suits(r, w) /\ Sized(r, w)
  BY <1>1, RowSuits DEF TableSteps
<1>8. ASSUME t.step = "tables"
      PROVE  Suits(r, w)
  <2>1. \A l \in t.todo[1].of : r.price = l.price
    BY <1>1, <1>8
  <2>2. \A u \in Range(done) : Under(u)
    BY <1>1, <1>8, <2>1, EachSection
  <2>3. PICK l \in t.todo[1].of : Suits(l, w)
    BY <1>5, <1>8 DEF AsksInv
  <2> HIDE DEF done, new
  <2>4. r.model = l.model /\ (IsSealed(r) <=> IsSealed(l))
    BY <1>3, <1>4, <2>2, <2>3 DEF Under
  <2> QED
    BY <2>3, <2>4 DEF Suits, OfCondition
<1>9. ASSUME t.step = "models"
      PROVE  OfPart(r, t.msg)
  <2>1. PICK part \in t.msg.parts : Parted(q, part)
    BY <1>5, <1>9 DEF AsksInv
  <2>2. part.models # {}
    BY DEF AsksInv, MessageHeard
  <2> HIDE DEF q
  <2>3. r.model \in part.models
    BY <1>6, <2>1, <2>2 DEF Parted, OfModel
  <2>4. Cardinality(part.conditions) = 1 => OfCondition(r, part.condition)
    BY <1>6, <2>1 DEF Parted, AvailabilityCondition
  <2> QED
    BY <2>3, <2>4 DEF OfPart, Suits
<1>10. \A sec \in Range(t.sections) : SectionHeard(t, sec)
  BY DEF AsksInv, SectionHeard
<1> HIDE DEF new, done, w
<1>11. SectionHeard(t, new)
  BY <1>3, <1>7, <1>8, <1>9 DEF SectionHeard, w
<1> QED
  BY <1>4, <1>10, <1>11 DEF done, new

LEMMA MoreThanOne == \A n : n \in Nat /\ n > 1 => n # 1
OBVIOUS

LEMMA EachHeard ==
  ASSUME NEW t, TurnInv(t), AsksInv(t), FindsInv(t), t.step \in {"conditions", "tables", "models"},
         NEW s \in Found(t), NEW h, NEW out \in Each(t, s, h)
  PROVE  OutHeard(out)
<1> DEFINE done == Append(t.sections, Section(t.todo[1].of, CHOOSE r \in s.rows : TRUE, 0))
           holds == /\ s.kind = "row"
                    /\ t.step = "tables" => \A r \in s.rows, l \in t.todo[1].of : r.price = l.price
           skip == [Waiting(t.step, t.msg, Tail(t.todo)) EXCEPT !.sections = t.sections]
           next == [Waiting(t.step, t.msg, Tail(t.todo)) EXCEPT !.shown = t.shown, !.sections = done]
<1>1. t.step \notin PhotoSteps /\ t.step # "entry"
  BY DEF PhotoSteps
<1>2. t.msg.wants # "photos" /\ MessageHeard(t.msg) /\ Queued(t.todo)
  BY <1>1 DEF AsksInv
<1>3. holds => \A sec \in Range(done) : SectionHeard(t, sec)
  BY NextSection
<1>4. \A sec \in Range(t.sections) : SectionHeard(t, sec)
  BY DEF AsksInv, SectionHeard
<1>5. /\ Len(t.todo) # 1 => Queued(Tail(t.todo))
      /\ Range(Tail(t.todo)) \subseteq Range(t.todo)
  BY <1>2, TailRange DEF Queued
<1>6. Len(t.todo) > 1 => Len(t.todo) # 1
  <2>1. PICK k \in Nat : k = Len(t.todo)
    BY <1>2 DEF Queued
  <2> QED
    BY <2>1, MoreThanOne, Zenon
<1>7. \/ t.step = "models" /\ Len(t.todo) > 1 /\ out = Goes(skip)
      \/ t.step = "models" /\ out = Says(t, t.step, t.sections, {})
      \/ t.step = "tables" /\ out \in Conditions(t, h)
      \/ t.step \in {"tables", "conditions"} /\ out = Says(t, "which", <<>>, t.shown)
      \/ holds /\ out = Says(t, t.step, done, {})
      \/ holds /\ Len(t.todo) # 1 /\ out = Goes(next)
  BY DEF Each
<1>8. ASSUME NEW sections, \A sec \in Range(sections) : SectionHeard(t, sec), NEW u,
             u.step = t.step, u.msg = t.msg, u.todo = Tail(t.todo), u.found = {},
             u.sections = sections, t.step = "models" \/ u.shown = t.shown, Len(t.todo) # 1
      PROVE  OutHeard(Goes(u))
  <2>1. Queued(u.todo) /\ Range(u.todo) \subseteq Range(t.todo)
    BY <1>5, <1>8
  <2>2. AsksInv(u)
    BY <1>1, <1>8, <2>1 DEF AsksInv, SectionHeard
  <2> QED
    BY <1>8, <2>2, GoesHeard
<1>9. ASSUME NEW sections, \A sec \in Range(sections) : SectionHeard(t, sec)
      PROVE  OutHeard(Says(t, t.step, sections, {}))
  <2>1. CASE t.step = "models"
    <3>1. \A sec \in Range(sections) : OfPart(sec.row, t.msg)
      BY <1>9, <2>1 DEF SectionHeard
    <3> QED
      BY <2>1, <3>1, SaidOfParts
  <2>2. CASE t.step \in {"conditions", "tables"}
    <3>1. \A sec \in Range(sections) :
             Suits(sec.row, t.msg.words) /\ (t.step = "tables" \/ Sized(sec.row, t.msg.words))
      BY <1>9, <2>2 DEF SectionHeard
    <3>2. t.step \notin {"models", "table"}
      BY <2>2
    <3> QED
      BY <1>2, <3>1, <3>2, SaidHeard
  <2> QED
    BY <2>1, <2>2
<1>10. /\ skip.step = t.step /\ skip.msg = t.msg /\ skip.todo = Tail(t.todo) /\ skip.found = {}
       /\ skip.sections = t.sections
       /\ next.step = t.step /\ next.msg = t.msg /\ next.todo = Tail(t.todo) /\ next.found = {}
       /\ next.shown = t.shown /\ next.sections = done
  <2> HIDE DEF done
  <2> QED
    BY AskingIs
<1>11. t.step \in {"tables", "conditions"} =>
         \A r \in t.shown : Suits(r, t.msg.words) /\ Sized(r, t.msg.words)
  BY DEF AsksInv
<1> HIDE DEF done, holds, skip, next
<1>12. CASE t.step = "models" /\ Len(t.todo) > 1 /\ out = Goes(skip)
  BY <1>4, <1>6, <1>8, <1>10, <1>12
<1>13. CASE t.step = "tables" /\ out \in Conditions(t, h)
  BY <1>2, <1>11, <1>13, ConditionsHeard
<1>14. CASE t.step \in {"tables", "conditions"} /\ out = Says(t, "which", <<>>, t.shown)
  BY <1>2, <1>11, <1>14, SingleRange, SaidHeard
<1>15. CASE holds /\ Len(t.todo) # 1 /\ out = Goes(next)
  BY <1>3, <1>8, <1>10, <1>15
<1>16. CASE out = Says(t, t.step, t.sections, {}) \/ (holds /\ out = Says(t, t.step, done, {}))
  BY <1>3, <1>4, <1>9, <1>16
<1> QED
  BY <1>7, <1>12, <1>13, <1>14, <1>15, <1>16

LEMMA PromotionHeard ==
  ASSUME NEW t, t.msg.wants = "promotion", NEW out \in Promotion(t)
  PROVE  OutHeard(out)
<1>1. PICK kind, which : kind \in {"nothing", "photos"} /\ out = Says(t, kind, <<>>, which)
  <2> DEFINE shown == {r \in t.found : ~IsSealed(r) /\ IsAvailable(r) /\ r.id \in t.urls}
             kind == IF shown = {} THEN "nothing" ELSE "photos"
  <2>1. out = Says(t, kind, <<>>, shown)
    BY DEF Promotion
  <2>2. kind \in {"nothing", "photos"}
    OBVIOUS
  <2> HIDE DEF shown, kind
  <2> QED
    BY <2>1, <2>2
<1>2. /\ out.turn = Idle /\ out.said.kind = kind /\ out.said.msg = t.msg
  BY <1>1, SaysIs, SaysOf DEF Spoken
<1>3. Kept(out.said) /\ Choosy(out.said)
  BY <1>1, <1>2 DEF Kept, Choosy
<1> QED
  BY <1>2, <1>3 DEF OutHeard

LEMMA ConcludeHeard ==
  ASSUME NEW t, TurnInv(t), AsksInv(t), FindsInv(t), NEW h, NEW failedNow,
         NEW out \in Conclude(t, h, failedNow)
  PROVE  OutHeard(out)
<1>1. CASE t.step \in {"finder", "relaxed"}
  <2>1. out \in Finder(t, failedNow, h)
    BY <1>1 DEF Conclude
  <2> QED
    BY <1>1, <2>1, FinderHeard
<1>2. CASE t.step = "fallback"
  <2>1. out \in Fallback(t, failedNow)
    BY <1>2 DEF Conclude
  <2> QED
    BY <1>2, <2>1, FallbackHeard
<1>3. CASE t.step = "batch"
  <2>1. out \in Batch(t, failedNow)
    BY <1>3 DEF Conclude
  <2> QED
    BY <1>3, <2>1, BatchHeard
<1>4. CASE t.step = "table"
  <2>1. out \in UNION {Table(t, s, h) : s \in Found(t)}
    BY <1>4 DEF Conclude
  <2>2. PICK s \in Found(t) : out \in Table(t, s, h)
    BY <2>1
  <2> QED
    BY <1>4, <2>2, TableHeard
<1>5. CASE t.step = "entry"
  <2>1. out \in UNION {Entry(t, s, h) : s \in Found(t)}
    BY <1>5 DEF Conclude
  <2>2. PICK s \in Found(t) : out \in Entry(t, s, h)
    BY <2>1
  <2> QED
    BY <1>5, <2>2, EntryHeard
<1>6. CASE t.step \in {"conditions", "tables", "models"}
  <2>1. out \in UNION {Each(t, s, h) : s \in Found(t)}
    BY <1>6 DEF Conclude
  <2>2. PICK s \in Found(t) : out \in Each(t, s, h)
    BY <2>1
  <2> QED
    BY <1>6, <2>2, EachHeard
<1>7. CASE t.step = "sealed"
  <2>1. out = Says(t, "sealed", <<>>, {})
    BY <1>7 DEF Conclude
  <2> QED
    BY <2>1, SaysNothing
<1>8. CASE t.step = "promotion"
  <2>1. out \in Promotion(t)
    BY <1>8 DEF Conclude
  <2>2. t.msg.wants = "promotion"
    BY <1>8 DEF AsksInv
  <2> QED
    BY <2>1, <2>2, PromotionHeard
<1>9. t.step \in PhotoSteps \cup TableSteps \cup OtherSteps \cup {"tables", "models"}
  BY DEF AsksInv
<1> QED
  BY <1>1, <1>2, <1>3, <1>4, <1>5, <1>6, <1>7, <1>8, <1>9 DEF PhotoSteps, TableSteps, OtherSteps

(* What a search of each kind may bring.                                   *)
LEMMA PhotosFound ==
  ASSUME NEW q, NEW stock, NEW r \in FindProductPhotos(q, stock)
  PROVE  Photographed(r, q)
<1> DEFINE units == {x \in stock : /\ ~x.sheet /\ IsAvailable(x) /\ OfCondition(x, q.condition)}
           related == {x \in units : \E m \in q.models : IsVariant(x, m)}
           sized == {x \in PhotoModels(q, units) : PhotoCapacity(q) \in {Unsaid, x.capacity}}
<1>1. r \in sized
  <2>1. Best(q, sized) \subseteq sized
    BY DEF Best
  <2>2. FindProductPhotos(q, stock) \subseteq Best(q, sized)
    <3> HIDE DEF sized
    <3>1. FindProductPhotos(q, stock) \in
            {{x \in Best(q, sized) : Score(q, x, TRUE) > 0}, {}}
      BY DEF FindProductPhotos, sized
    <3> QED
      BY <3>1
  <2> HIDE DEF sized
  <2> QED
    BY <2>1, <2>2
<1>2. r \in PhotoModels(q, units) /\ PhotoCapacity(q) \in {Unsaid, r.capacity}
  BY <1>1
<1>3. q.hint # Unsaid => r.capacity = q.hint
  BY <1>2 DEF PhotoCapacity
<1>4. \/ r \in units /\ OfModel(r, q)
      \/ r \in related /\ Cardinality({x.colour : x \in related} \cap q.colours) = 1
  <2>1. PhotoModels(q, units) =
          IF {x \in units : OfModel(x, q)} # {} THEN {x \in units : OfModel(x, q)}
          ELSE IF Cardinality({x.colour : x \in related} \cap q.colours) = 1 THEN related ELSE {}
    BY Zenon DEF PhotoModels
  <2> HIDE DEF units, related
  <2> QED
    BY <1>2, <2>1
<1>5. OfCondition(r, q.condition)
  BY <1>4
<1>6. OfModel(r, q) \/ Alike(r, q, q.models)
  <2>1. ASSUME Cardinality({x.colour : x \in related} \cap q.colours) = 1
        PROVE  q.colours # {}
    <3> SUFFICES ASSUME q.colours = {}
                 PROVE  FALSE
      OBVIOUS
    <3>1. {x.colour : x \in related} \cap q.colours = {}
      OBVIOUS
    <3> HIDE DEF related
    <3> QED
      BY <2>1, <3>1, FS_EmptySet
  <2>2. r \in related => \E m \in q.models : IsVariant(r, m)
    OBVIOUS
  <2> HIDE DEF related, units
  <2> QED
    BY <1>4, <2>1, <2>2 DEF Alike
<1> QED
  BY <1>3, <1>5, <1>6 DEF Photographed

LEMMA ResultsHeard ==
  ASSUME NEW i, NEW found \in Results(i), NEW t, t.step = i.step, t.todo = i.todo, t.found = found
  PROVE  FindsInv(t)
<1> DEFINE q == Query(i)
<1>1. Query(t) = q
  BY DEF Query
<1>2. CASE i.step \in {"finder", "relaxed"}
  <2>1. found = FindProductPhotos(q, rows)
    BY <1>2 DEF Results
  <2>2. \A r \in found : Photographed(r, q)
    BY <2>1, PhotosFound
  <2> QED
    BY <1>1, <1>2, <2>2 DEF FindsInv
<1>3. CASE i.step = "fallback"
  BY <1>3 DEF FindsInv
<1>4. CASE i.step = "sealed"
  <2>1. found = {}
    BY <1>4 DEF Results
  <2> QED
    BY <2>1 DEF FindsInv
<1>5. CASE i.step \notin {"finder", "relaxed", "fallback", "sealed"}
  <2>1. \E n : found \in Search(q, rows, n)
    BY <1>5 DEF Results
  <2>2. found \subseteq Matching(q, rows)
    BY <2>1, RowsOfFirst DEF Search
  <2>3. \A r \in found : OfModel(r, q) /\ OfCondition(r, AvailabilityCondition(q))
    BY <2>2 DEF Matching
  <2> HIDE DEF q
  <2> QED
    BY <1>1, <1>5, <2>3 DEF FindsInv
<1> QED
  BY <1>2, <1>3, <1>4, <1>5
-----------------------------------------------------------------------------
(* What the customer said holds of every turn that waits and of every      *)
(* answer, whatever becomes of the stock in between.                       *)
HeardInv ==
  \A c \in Conversations : HeardTurn(turn[c]) /\ Kept(answer[c]) /\ Choosy(answer[c])

LEMMA ProceedsHeard ==
  ASSUME OffersInv, HeardInv, NEW c \in Conversations, NEW found, Proceeds(c, found),
         AsksInv(turn[c]),
         \A t : t.step = turn[c].step /\ t.todo = turn[c].todo /\ t.found = found => FindsInv(t)
  PROVE  HeardInv'
<1>1. PICK t, failedNow :
        /\ TurnInv(t) /\ Goal(t, turn[c]) /\ t.found = found
        /\ \/ turn' = [turn EXCEPT ![c] = t] /\ UNCHANGED answer
           \/ Concludes(c, t, history[c], failedNow)
  BY DEF Proceeds
<1>2. AsksInv(t)
  BY <1>1 DEF AsksInv, Goal
<1>3. FindsInv(t)
  BY <1>1 DEF Goal
<1>4. CASE turn' = [turn EXCEPT ![c] = t] /\ UNCHANGED answer
  BY <1>2, <1>3, <1>4 DEF HeardInv, HeardTurn, OffersInv
<1>5. CASE Concludes(c, t, history[c], failedNow)
  <2>1. PICK out \in Conclude(t, history[c], failedNow) :
          /\ turn' = [turn EXCEPT ![c] = out.turn]
          /\ UNCHANGED answer \/ answer' = [answer EXCEPT ![c] = out.said]
    BY <1>5 DEF Concludes
  <2>2. OutHeard(out)
    BY <1>1, <1>2, <1>3, <2>1, ConcludeHeard
  <2>3. HeardTurn(out.turn) /\ Kept(out.said) /\ Choosy(out.said)
    BY <2>2 DEF OutHeard, HeardTurn, FindsInv
  <2> QED
    BY <2>1, <2>3 DEF HeardInv, OffersInv
<1> QED
  BY <1>1, <1>4, <1>5

LEMMA InitHeard == Init => HeardInv
<1>1. NoAnswer.kind = "none" /\ NoAnswer.sections = <<>> /\ NoAnswer.rows = {}
  BY DEF NoAnswer
<1>2. Shown(NoAnswer) = {}
  BY <1>1, SingleRange DEF Shown, Tables
<1>3. Kept(NoAnswer) /\ Choosy(NoAnswer)
  BY <1>1, <1>2 DEF Kept, Choosy
<1> QED
  BY <1>3 DEF Init, HeardInv, HeardTurn

LEMMA StepHeard == OffersInv /\ HeardInv /\ [Next]_vars => HeardInv'
<1> SUFFICES ASSUME OffersInv, HeardInv, [Next]_vars
             PROVE  HeardInv'
  OBVIOUS
<1>1. CASE UNCHANGED vars \/ Change
  <2>1. UNCHANGED <<turn, answer>>
    BY <1>1 DEF vars, Change
  <2> QED
    BY <2>1 DEF HeardInv
<1>2. ASSUME NEW c \in Conversations, NEW msg \in Messages, Receive(c, msg)
      PROVE  HeardInv'
  <2>1. MessageHeard(msg)
    BY OffersAssumption DEF MessageHeard, WordsOk
  <2>2. PICK t : t = First(msg, history[c])
    OBVIOUS
  <2>3. AsksInv(t) /\ t.found = {}
    BY <2>1, <2>2, FirstAsks
  <2>4. HeardTurn(t)
    BY <2>3 DEF HeardTurn, FindsInv
  <2>5. turn' = [turn EXCEPT ![c] = t] /\ UNCHANGED answer
    BY <1>2, <2>2 DEF Receive
  <2> QED
    BY <2>4, <2>5 DEF HeardInv, OffersInv
<1>3. ASSUME NEW c \in Conversations, Consult(c) \/ Lookup(c)
      PROVE  HeardInv'
  <2>1. \/ turn[c] # Idle /\ \E found \in Results(turn[c]) : Proceeds(c, found)
        \/ turn[c].left # {} /\ Proceeds(c, turn[c].found)
    BY <1>3, AskProceeds
  <2>2. turn[c] # Idle
    BY <2>1, IdleIs
  <2>3. AsksInv(turn[c]) /\ FindsInv(turn[c])
    BY <2>2 DEF HeardInv, HeardTurn
  <2>4. CASE \E found \in Results(turn[c]) : Proceeds(c, found)
    <3>1. PICK found \in Results(turn[c]) : Proceeds(c, found)
      BY <2>4
    <3>2. \A t : t.step = turn[c].step /\ t.todo = turn[c].todo /\ t.found = found => FindsInv(t)
      BY <3>1, ResultsHeard
    <3> QED
      BY <2>3, <3>1, <3>2, ProceedsHeard
  <2>5. CASE Proceeds(c, turn[c].found)
    <3>1. \A t : t.step = turn[c].step /\ t.todo = turn[c].todo /\ t.found = turn[c].found
                 => FindsInv(t)
      BY <2>3 DEF FindsInv, Query
    <3> QED
      BY <2>3, <2>5, <3>1, ProceedsHeard
  <2> QED
    BY <2>1, <2>4, <2>5
<1> QED
  BY <1>1, <1>2, <1>3 DEF Next

(* A unit that an answer shows suits the words of the message it answers,  *)
(* for any history, stock, prices and order of the searches.               *)
THEOREM WordsAreKept == Spec => []AnswersKeepTheWords
<1>1. HeardInv => AnswersKeepTheWords
  BY DEF HeardInv, Kept, AnswersKeepTheWords
<1> QED
  BY <1>1, InitOffers, StepOffers, InitHeard, StepHeard, PTL DEF Spec

(* One table is sent only of a unit that the words tell from the others    *)
(* that the search found, or that the sheet has and the stock has not, in  *)
(* however long a conversation and whatever the descriptions of the units. *)
THEOREM ChoicesAreSaid ==
  ASSUME OverlapCounts
  PROVE  Spec => []NoSilentChoice
<1>1. HeardInv => NoSilentChoice
  BY DEF HeardInv, Choosy, NoSilentChoice
<1> QED
  BY <1>1, InitOffers, StepOffers, InitHeard, StepHeard, PTL DEF Spec
=============================================================================
