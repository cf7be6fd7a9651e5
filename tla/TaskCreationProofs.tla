------------------------- MODULE TaskCreationProofs -------------------------
(***************************************************************************)
(* What TaskCreation promises for any number of criteria, visits and posts. *)
(* The inductive invariant has two halves: what is known of the wizard on   *)
(* the page, and what is known of the posts, of this visit and of others.   *)
(***************************************************************************)
EXTENDS TaskCreation, SequenceTheorems, WellFoundedInduction, TLAPS

\* StepsBehindAreRight, field by field.
RightBehind ==
    /\ step > 0 => form.filled = TaskFields
    /\ step > 1 => \A i \in DOMAIN form.criteria : form.criteria[i].text
    /\ step > 2 => Parses(form.reward)

\* From its first step on the wizard has one error entry per criterion.
ErrorsFollowCriteria ==
    \/ Len(criteriaErrors) = Len(form.criteria)
    \/ step = 0 /\ criteriaErrors = <<>>

OpenWizardIsCounted ==
    /\ submitting => route = "create"
    /\ route = "create" => visit > 0

WizardInv ==
    /\ CreationTypeOK
    /\ OpenWizardIsCounted
    /\ RightBehind
    /\ ErrorsFollowCriteria
    /\ CriterionErrorIsItsOwn

\* The wizard on the page has a post under way only while its button is
\* disabled, and is gone when one of its posts was answered with a task.
PostsOfThePage ==
    \A p \in DOMAIN posts :
        /\ posts[p].visit <= visit
        /\ posts[p].visit = visit /\ route = "create" =>
                /\ posts[p].answer # "created"
                /\ posts[p].answer = "awaited" => submitting

\* A wizard posts again only after an error.
OneAtATime ==
    \A p, q \in DOMAIN posts :
        p < q /\ posts[p].visit = posts[q].visit => posts[p].answer = "error"

PostsInv ==
    /\ PostsOfThePage
    /\ OneAtATime
    /\ ReviewedIsCreated

CreationInv == WizardInv /\ PostsInv

-----------------------------------------------------------------------------
(* Induction, and the functions that are defined by recursion. *)

\* A set of numbers with 0 and with each number's successor has them all.
LEMMA SetInduction ==
  ASSUME NEW S, 0 \in S, \A n \in Nat : n \in S => n + 1 \in S
  PROVE  Nat \subseteq S
<1> DEFINE Missed == {n \in Nat : n \notin S}
<1> SUFFICES ASSUME Missed # {}
             PROVE  FALSE
  OBVIOUS
<1>1. Missed \subseteq Nat
  OBVIOUS
<1>2. \E n \in Missed : \A m \in Missed : ~(<<m, n>> \in OpToRel(<, Nat))
  <2> HIDE DEF Missed
  <2>1. QED
    BY <1>1, NatLessThanWellFounded, WFMin
<1>3. PICK n \in Missed : \A m \in Missed : ~(<<m, n>> \in OpToRel(<, Nat))
  BY <1>2
<1>4. \A m \in Missed : ~(m < n)
  BY <1>1, <1>3, Zenon DEF OpToRel
<1>5. n - 1 \in Nat
  OBVIOUS
<1>6. n - 1 \in S
  BY <1>4, <1>5
<1>7. n - 1 + 1 = n
  OBVIOUS
<1>8. n \in S
  BY <1>5, <1>6, <1>7
<1>9. QED
  BY <1>8

\* v is worked out from the left, one digit at a time, beginning with b.
FromTheLeft(s, n, b, v) == v = [i \in 0..n |-> IF i = 0 THEN b ELSE 10 * v[i - 1] + s[i]]

\* There is such a function.
LEMMA LeftToRightIsDefined ==
  ASSUME NEW s, NEW n \in Nat, NEW b \in Nat, \A i \in 1..n : s[i] \in Nat
  PROVE  \E v \in [0..n -> Nat] : FromTheLeft(s, n, b, v)
<1> DEFINE Follows(v, m) == /\ v \in [0..m -> Nat] /\ v[0] = b
                            /\ \A i \in 1..m : v[i] = 10 * v[i - 1] + s[i]
           Reached == {m \in Nat : m <= n => \E v : Follows(v, m)}
<1>1. 0 \in Reached
  <2>1. Follows([i \in 0..0 |-> b], 0)
    OBVIOUS
  <2>2. QED
    BY <2>1
<1>2. ASSUME NEW m \in Nat, m \in Reached, m + 1 <= n
      PROVE  \E v : Follows(v, m + 1)
  <2>1. PICK v : Follows(v, m)
    <3> HIDE DEF Follows
    <3>1. QED
      BY <1>2
  <2> DEFINE w == [i \in 0..(m + 1) |-> IF i <= m THEN v[i] ELSE 10 * v[m] + s[m + 1]]
  <2>2. v[m] \in Nat /\ s[m + 1] \in Nat
    BY <1>2, <2>1
  <2>3. w \in [0..(m + 1) -> Nat] /\ w[0] = b
    BY <2>1, <2>2
  <2>4. \A i \in 1..(m + 1) : w[i] = 10 * w[i - 1] + s[i]
    BY <2>1
  <2>5. QED
    BY <2>3, <2>4
<1>3. n \in Reached
  <2> HIDE DEF Follows
  <2>1. \A m \in Nat : m \in Reached => m + 1 \in Reached
    BY <1>2
  <2> HIDE DEF Reached
  <2>2. QED
    BY <1>1, <2>1, SetInduction
<1>4. PICK v : Follows(v, n)
  BY <1>3
<1>5. FromTheLeft(s, n, b, v)
  BY <1>4 DEF FromTheLeft
<1>6. QED
  BY <1>4, <1>5

\* What it comes to.
LEMMA LeftToRight ==
  ASSUME NEW s, NEW n \in Nat, NEW b \in Nat, \A i \in 1..n : s[i] \in Nat,
         NEW v, FromTheLeft(s, n, b, v)
  PROVE  /\ v \in [0..n -> Nat]
         /\ v[0] = b
         /\ \A i \in 1..n : v[i] = 10 * v[i - 1] + s[i]
<1>1. v[0] = b /\ \A i \in 1..n : v[i] = 10 * v[i - 1] + s[i]
  BY DEF FromTheLeft
<1> DEFINE Typed == {i \in Nat : i <= n => v[i] \in Nat}
<1>2. 0 \in Typed
  BY <1>1
<1>3. ASSUME NEW i \in Nat, i \in Typed, i + 1 <= n
      PROVE  v[i + 1] \in Nat
  <2>1. v[i + 1] = 10 * v[i] + s[i + 1]
    BY <1>1, <1>3
  <2>2. QED
    BY <1>3, <2>1
<1>4. Nat \subseteq Typed
  <2>1. \A i \in Nat : i \in Typed => i + 1 \in Typed
    BY <1>3
  <2> HIDE DEF Typed
  <2>2. QED
    BY <1>2, <2>1, SetInduction
<1>5. \A i \in 0..n : v[i] \in Nat
  BY <1>4
<1>6. v \in [0..n -> Nat]
  BY <1>5 DEF FromTheLeft
<1>7. QED
  BY <1>1, <1>6

\* Two functions that begin alike and go on alike are alike.
GoOnAlike(n, v, w) ==
    v[0] = w[0] /\ \A i \in 1..n : v[i - 1] = w[i - 1] => v[i] = w[i]

LEMMA AlikeFromTheLeft ==
  ASSUME NEW n \in Nat, NEW v, NEW w, GoOnAlike(n, v, w)
  PROVE  \A i \in 0..n : v[i] = w[i]
<1> USE DEF GoOnAlike
<1> DEFINE Alike == {i \in Nat : i <= n => v[i] = w[i]}
<1>1. 0 \in Alike
  OBVIOUS
<1>2. ASSUME NEW i \in Nat, i \in Alike, i + 1 <= n
      PROVE  v[i + 1] = w[i + 1]
  <2>1. i + 1 \in 1..n /\ (i + 1) - 1 = i
    BY <1>2
  <2>2. QED
    BY <1>2, <2>1
<1>3. \A i \in Nat : i \in Alike => i + 1 \in Alike
  BY <1>2
<1>4. Nat \subseteq Alike
  <2> HIDE DEF Alike
  <2>1. QED
    BY <1>1, <1>3, SetInduction
<1>5. QED
  BY <1>4

-----------------------------------------------------------------------------
(* Numbers and powers. *)

\* The numbers of all beginnings of a text.
Numbers(digits) == CHOOSE v : FromTheLeft(digits, Len(digits), 0, v)

LEMMA NumberByDigits ==
  ASSUME NEW digits \in Seq(Nat)
  PROVE  /\ Number(digits) = Numbers(digits)[Len(digits)]
         /\ Numbers(digits) \in [0..Len(digits) -> Nat]
         /\ Numbers(digits)[0] = 0
         /\ \A i \in 1..Len(digits) :
                Numbers(digits)[i] = 10 * Numbers(digits)[i - 1] + digits[i]
<1>1. Number(digits) = Numbers(digits)[Len(digits)]
  BY DEF Number, Numbers, FromTheLeft
<1>2. /\ Len(digits) \in Nat /\ 0 \in Nat
      /\ \A i \in 1..Len(digits) : digits[i] \in Nat
  OBVIOUS
<1>3. FromTheLeft(digits, Len(digits), 0, Numbers(digits))
  BY <1>2, LeftToRightIsDefined DEF Numbers
<1>4. QED
  BY <1>1, <1>2, <1>3, LeftToRight

\* A text has a number, whatever its digits.
LEMMA NumbersAreNatural ==
  ASSUME NEW digits \in Seq(Nat)
  PROVE  Number(digits) \in Nat
BY NumberByDigits

\* Powers of ten.
Powers(k) == CHOOSE v : v = [i \in 0..k |-> IF i = 0 THEN 1 ELSE 10 * v[i - 1]]

LEMMA PowersByTens ==
  ASSUME NEW k \in Nat
  PROVE  /\ PowerOfTen(k) = Powers(k)[k]
         /\ Powers(k) \in [0..k -> Nat]
         /\ Powers(k)[0] = 1
         /\ \A i \in 1..k : Powers(k)[i] = 10 * Powers(k)[i - 1]
<1> DEFINE zeros == [i \in 1..k |-> 0]
           Tens(v) == v = [i \in 0..k |-> IF i = 0 THEN 1 ELSE 10 * v[i - 1]]
<1>1. PowerOfTen(k) = Powers(k)[k]
  BY DEF PowerOfTen, Powers
<1>2. \A i \in 1..k : zeros[i] = 0 /\ zeros[i] \in Nat
  OBVIOUS
<1> HIDE DEF zeros
<1>3. PICK v \in [0..k -> Nat] : FromTheLeft(zeros, k, 1, v)
  BY <1>2, LeftToRightIsDefined
<1>4. Tens(v)
  BY <1>2, <1>3 DEF FromTheLeft
<1>5. Tens(Powers(k))
  BY <1>4 DEF Powers
<1> DEFINE w == Powers(k)
<1> HIDE DEF w
<1>6. w = [i \in 0..k |-> IF i = 0 THEN 1 ELSE 10 * w[i - 1]]
  BY <1>5 DEF w
<1>7. v[0] = 1 /\ \A i \in 1..k : v[i] = 10 * v[i - 1]
  BY <1>4
<1>8. w[0] = 1 /\ \A i \in 1..k : w[i] = 10 * w[i - 1]
  BY <1>6
<1>9. \A i \in 0..k : w[i] = v[i]
  <2>1. GoOnAlike(k, w, v)
    BY <1>7, <1>8 DEF GoOnAlike
  <2>2. QED
    BY <2>1, AlikeFromTheLeft
<1>10. \A i \in 0..k : w[i] \in Nat
  BY <1>3, <1>9
<1>11. w \in [0..k -> Nat]
  BY <1>6, <1>10
<1>12. QED
  BY <1>1, <1>8, <1>11 DEF w

\* Each power of ten is ten of the one before.
LEMMA PowersOfTen ==
  ASSUME NEW k \in Nat
  PROVE  /\ PowerOfTen(k) \in Nat \ {0}
         /\ PowerOfTen(0) = 1
         /\ PowerOfTen(k + 1) = 10 * PowerOfTen(k)
<1>1. ASSUME NEW m \in Nat
      PROVE  PowerOfTen(m) \in Nat /\ PowerOfTen(m + 1) = 10 * PowerOfTen(m)
  <2> DEFINE v == Powers(m)
             w == Powers(m + 1)
  <2>1. /\ v \in [0..m -> Nat] /\ PowerOfTen(m) = v[m] /\ v[0] = 1
        /\ \A i \in 1..m : v[i] = 10 * v[i - 1]
    BY PowersByTens
  <2>2. m + 1 \in Nat
    OBVIOUS
  <2>3. /\ PowerOfTen(m + 1) = w[m + 1] /\ w[0] = 1
        /\ \A i \in 1..(m + 1) : w[i] = 10 * w[i - 1]
    BY <2>2, PowersByTens
  <2> HIDE DEF v, w
  <2>4. GoOnAlike(m, w, v)
    BY <2>1, <2>3 DEF GoOnAlike
  <2>5. \A i \in 0..m : w[i] = v[i]
    BY <2>4, AlikeFromTheLeft
  <2>6. w[m + 1] = 10 * w[m]
    BY <2>3
  <2>7. QED
    BY <2>1, <2>3, <2>5, <2>6
<1>2. PowerOfTen(0) = 1
  BY PowersByTens
<1> DEFINE Positive == {m \in Nat : PowerOfTen(m) # 0}
<1>3. 0 \in Positive
  BY <1>2
<1>4. \A m \in Nat : m \in Positive => m + 1 \in Positive
  BY <1>1
<1>5. Nat \subseteq Positive
  <2> HIDE DEF Positive
  <2>1. QED
    BY <1>3, <1>4, SetInduction
<1>6. QED
  BY <1>1, <1>2, <1>5

\* A higher power of ten is larger, and every number is below some.
LEMMA PowersGrow ==
  /\ \A i, j \in Nat : i < j => PowerOfTen(i) < PowerOfTen(j)
  /\ \A n \in Nat : n < PowerOfTen(n)
<1> DEFINE Above == {j \in Nat : \A i \in Nat : i < j => PowerOfTen(i) < PowerOfTen(j)}
           Below == {n \in Nat : n < PowerOfTen(n)}
<1>1. 0 \in Above /\ 0 \in Below
  BY PowersOfTen
<1>2. ASSUME NEW j \in Nat, j \in Above
      PROVE  j + 1 \in Above
  <2> SUFFICES ASSUME NEW i \in Nat, i < j + 1
               PROVE  PowerOfTen(i) < PowerOfTen(j + 1)
    OBVIOUS
  <2>1. PowerOfTen(j) < PowerOfTen(j + 1)
    BY PowersOfTen
  <2>2. i < j => PowerOfTen(i) < PowerOfTen(j)
    BY <1>2
  <2>3. PowerOfTen(i) \in Nat /\ PowerOfTen(j) \in Nat /\ PowerOfTen(j + 1) \in Nat
    BY PowersOfTen
  <2>4. i < j \/ i = j
    OBVIOUS
  <2>5. QED
    BY <2>1, <2>2, <2>3, <2>4
<1>3. ASSUME NEW n \in Nat, n \in Below
      PROVE  n + 1 \in Below
  <2>1. PowerOfTen(n + 1) = 10 * PowerOfTen(n) /\ PowerOfTen(n) \in Nat
    BY PowersOfTen
  <2>2. QED
    BY <1>3, <2>1
<1> HIDE DEF Above, Below
<1>4. Nat \subseteq Above
  BY <1>1, <1>2, SetInduction
<1>5. Nat \subseteq Below
  BY <1>1, <1>3, SetInduction
<1>6. QED
  BY <1>4, <1>5 DEF Above, Below

\* The number of two texts put together.
LEMMA NumberOfBoth ==
  ASSUME NEW s \in Seq(Nat), NEW t \in Seq(Nat)
  PROVE  Number(s \o t) = Number(s) * PowerOfTen(Len(t)) + Number(t)
<1> DEFINE c == s \o t
           v == Numbers(c)
           a == Numbers(s)
           b == Numbers(t)
           m == Len(s)
           n == Len(t)
<1>1. /\ c \in Seq(Nat) /\ Len(c) = m + n /\ m \in Nat /\ n \in Nat
      /\ \A i \in 1..m : c[i] = s[i]
      /\ \A i \in 1..n : c[m + i] = t[i] /\ t[i] \in Nat
  OBVIOUS
<1> HIDE DEF c
<1>2. /\ Number(c) = v[m + n] /\ v[0] = 0
      /\ \A i \in 1..(m + n) : v[i] = 10 * v[i - 1] + c[i]
  BY <1>1, NumberByDigits
<1>3. /\ Number(s) = a[m] /\ a[0] = 0 /\ a \in [0..m -> Nat]
      /\ \A i \in 1..m : a[i] = 10 * a[i - 1] + s[i]
  BY NumberByDigits
<1>4. /\ Number(t) = b[n] /\ b[0] = 0 /\ b \in [0..n -> Nat]
      /\ \A i \in 1..n : b[i] = 10 * b[i - 1] + t[i]
  BY NumberByDigits
<1> HIDE DEF v, a, b, m, n
<1>5. v[m] = a[m]
  <2>1. v[0] = a[0]
    BY <1>2, <1>3
  <2>2. ASSUME NEW i \in 1..m, v[i - 1] = a[i - 1]
        PROVE  v[i] = a[i]
    <3>1. i \in 1..(m + n)
      BY <1>1
    <3>2. v[i] = 10 * v[i - 1] + c[i]
      BY <1>2, <3>1
    <3>3. a[i] = 10 * a[i - 1] + s[i]
      BY <1>3
    <3>4. c[i] = s[i]
      BY <1>1
    <3>5. QED
      BY <2>2, <3>2, <3>3, <3>4
  <2>3. GoOnAlike(m, v, a)
    BY <2>1, <2>2 DEF GoOnAlike
  <2>4. \A i \in 0..m : v[i] = a[i]
    BY <1>1, <2>3, AlikeFromTheLeft
  <2>5. QED
    BY <1>1, <2>4
<1> DEFINE Right == {i \in Nat : i <= n => v[m + i] = a[m] * PowerOfTen(i) + b[i]}
<1>6. 0 \in Right
  <2>1. a[m] \in Nat /\ PowerOfTen(0) = 1 /\ b[0] = 0 /\ v[m + 0] = v[m]
    BY <1>1, <1>3, <1>4, PowersOfTen
  <2>2. v[m + 0] = a[m] * PowerOfTen(0) + b[0]
    BY <1>5, <2>1
  <2>3. QED
    BY <2>2
<1>7. ASSUME NEW i \in Nat, i \in Right
      PROVE  i + 1 \in Right
  <2> SUFFICES ASSUME i + 1 <= n
               PROVE  v[m + (i + 1)] = a[m] * PowerOfTen(i + 1) + b[i + 1]
    OBVIOUS
  <2>1. v[m + i] = a[m] * PowerOfTen(i) + b[i]
    BY <1>1, <1>7
  <2>2. /\ m + (i + 1) \in 1..(m + n) /\ (m + (i + 1)) - 1 = m + i
        /\ i + 1 \in 1..n /\ (i + 1) - 1 = i
    BY <1>1
  <2>3. v[m + (i + 1)] = 10 * v[m + i] + t[i + 1]
    BY <1>1, <1>2, <2>2
  <2>4. b[i + 1] = 10 * b[i] + t[i + 1]
    BY <1>4, <2>2
  <2>5. PowerOfTen(i + 1) = 10 * PowerOfTen(i) /\ PowerOfTen(i) \in Nat
    BY PowersOfTen
  <2>6. t[i + 1] \in Nat
    BY <1>1, <2>2
  <2>7. a[m] \in Nat
    BY <1>1, <1>3
  <2>8. b[i] \in Nat
    BY <1>1, <1>4
  <2> DEFINE p == PowerOfTen(i)
             q == PowerOfTen(i + 1)
             x == a[m]
             y == b[i]
             z == t[i + 1]
  <2>9. v[m + (i + 1)] = 10 * (x * p + y) + z /\ b[i + 1] = 10 * y + z
    BY <2>1, <2>3, <2>4
  <2>10. q = 10 * p /\ p \in Nat /\ x \in Nat /\ y \in Nat /\ z \in Nat
    BY <2>5, <2>6, <2>7, <2>8
  <2> HIDE DEF p, q, x, y, z
  <2>11. 10 * (x * p + y) + z = x * q + (10 * y + z)
    BY <2>10
  <2>12. QED
    BY <2>9, <2>11 DEF q, x
<1>8. Nat \subseteq Right
  <2> HIDE DEF Right
  <2>1. QED
    BY <1>6, <1>7, SetInduction
<1>9. v[m + n] = a[m] * PowerOfTen(n) + b[n]
  BY <1>1, <1>8
<1>10. QED
  BY <1>2, <1>3, <1>4, <1>9 DEF n, c

Zeros(n) == [i \in 1..n |-> 0]

\* Zeros are nothing.
LEMMA NumberOfZeros ==
  ASSUME NEW n \in Nat
  PROVE  /\ Zeros(n) \in Seq(Nat) /\ Len(Zeros(n)) = n
         /\ Number(Zeros(n)) = 0
<1>1. Zeros(n) \in Seq(Nat) /\ Len(Zeros(n)) = n /\ \A i \in 1..n : Zeros(n)[i] = 0
  BY DEF Zeros
<1> DEFINE v == Numbers(Zeros(n))
           w == [i \in 0..n |-> 0]
<1>2. /\ Number(Zeros(n)) = v[n] /\ v[0] = 0
      /\ \A i \in 1..n : v[i] = 10 * v[i - 1] + Zeros(n)[i]
  BY <1>1, NumberByDigits
<1> HIDE DEF v
<1>3. GoOnAlike(n, v, w)
  BY <1>1, <1>2 DEF GoOnAlike
<1>4. \A i \in 0..n : v[i] = w[i]
  <2> HIDE DEF w
  <2>1. QED
    BY <1>3, AlikeFromTheLeft
<1>5. v[n] = 0
  BY <1>4
<1>6. QED
  BY <1>1, <1>2, <1>5

\* A set of numbers that is not empty has a least one.
LEMMA LeastNumber ==
  ASSUME NEW S, S \subseteq Nat, S # {}
  PROVE  \E n \in S : \A m \in S : n <= m
<1>1. PICK n \in S : \A m \in S : ~(<<m, n>> \in OpToRel(<, Nat))
  BY NatLessThanWellFounded, WFMin
<1>2. \A m \in S : ~(m < n)
  BY <1>1, Zenon DEF OpToRel
<1>3. QED
  BY <1>2

\* How many digits Digits(n) has.
Count(n) ==
    CHOOSE k \in 1..(n + 1) : n < PowerOfTen(k) /\ (k = 1 \/ n >= PowerOfTen(k - 1))

LEMMA CountIsDefined ==
  ASSUME NEW n \in Nat
  PROVE  /\ Count(n) \in Nat \ {0}
         /\ n < PowerOfTen(Count(n))
         /\ Count(n) = 1 \/ n >= PowerOfTen(Count(n) - 1)
<1> DEFINE Enough == {k \in 1..(n + 1) : n < PowerOfTen(k)}
<1>1. n + 1 \in Enough
  <2>1. n + 1 < PowerOfTen(n + 1) /\ PowerOfTen(n + 1) \in Nat
    BY PowersGrow, PowersOfTen
  <2>2. QED
    BY <2>1
<1>2. PICK k \in Enough : \A j \in Enough : k <= j
  <2>1. Enough \subseteq Nat
    OBVIOUS
  <2> HIDE DEF Enough
  <2>2. QED
    BY <1>1, <2>1, LeastNumber
<1>3. k = 1 \/ n >= PowerOfTen(k - 1)
  <2>1. SUFFICES ASSUME k # 1, ~(n >= PowerOfTen(k - 1))
                 PROVE  FALSE
    OBVIOUS
  <2>2. k - 1 \in 1..(n + 1) /\ PowerOfTen(k - 1) \in Nat
    <3>1. k - 1 \in 1..(n + 1) /\ k - 1 \in Nat
      BY <2>1
    <3>2. QED
      BY <3>1, PowersOfTen
  <2>3. k - 1 \in Enough
    BY <2>1, <2>2
  <2>4. QED
    BY <1>2, <2>3
<1>4. \E j \in 1..(n + 1) : n < PowerOfTen(j) /\ (j = 1 \/ n >= PowerOfTen(j - 1))
  BY <1>3
<1>5. QED
  BY <1>4 DEF Count

\* Digits(n) is a text of digits, with the number n, and as short as n allows.
LEMMA NumberOfDigits ==
  ASSUME NEW n \in Nat
  PROVE  /\ Digits(n) \in Seq(Digit)
         /\ Number(Digits(n)) = n
         /\ Digits(n) # <<>>
         /\ \A k \in Nat \ {0} : n < PowerOfTen(k) => Len(Digits(n)) <= k
<1> DEFINE c == Count(n)
           d == Digits(n)
           v == Numbers(d)
           w == [i \in 0..c |-> n \div PowerOfTen(c - i)]
<1>1. c \in Nat \ {0} /\ n < PowerOfTen(c) /\ (c = 1 \/ n >= PowerOfTen(c - 1))
  BY CountIsDefined
<1>2. d = [i \in 1..c |-> (n \div PowerOfTen(c - i)) % 10]
  BY DEF Digits, Count
<1> HIDE DEF c, d, v
<1>3. \A i \in 0..c : c - i \in Nat /\ PowerOfTen(c - i) \in Nat \ {0}
  <2>1. \A i \in 0..c : c - i \in Nat
    BY <1>1
  <2>2. QED
    BY <2>1, PowersOfTen
<1>4. \A i \in 0..c : w[i] \in Nat
  <2> SUFFICES ASSUME NEW i \in 0..c
               PROVE  n \div PowerOfTen(c - i) \in Nat
    OBVIOUS
  <2> DEFINE p == PowerOfTen(c - i)
  <2>1. p \in Nat \ {0}
    BY <1>3
  <2> HIDE DEF p
  <2>2. n \div p \in Nat
    BY <2>1
  <2>3. QED
    BY <2>2 DEF p
<1>5. \A i \in 1..c : d[i] = w[i] % 10 /\ d[i] \in Digit /\ d[i] \in Nat
  <2> SUFFICES ASSUME NEW i \in 1..c
               PROVE  d[i] = w[i] % 10 /\ d[i] \in Digit /\ d[i] \in Nat
    OBVIOUS
  <2>1. i \in 0..c
    BY <1>1
  <2>2. d[i] = w[i] % 10
    BY <1>2, <2>1
  <2>3. w[i] \in Nat
    BY <1>4, <2>1
  <2> HIDE DEF w
  <2>4. QED
    BY <2>2, <2>3 DEF Digit
<1>6. d \in Seq(Digit) /\ d \in Seq(Nat) /\ Len(d) = c
  <2>1. d \in [1..c -> Digit] /\ d \in [1..c -> Nat]
    BY <1>2, <1>5
  <2>2. QED
    BY <1>1, <2>1
<1>7. \A i \in 1..c : w[i - 1] = w[i] \div 10
  <2> SUFFICES ASSUME NEW i \in 1..c
               PROVE  w[i - 1] = w[i] \div 10
    OBVIOUS
  <2> DEFINE p == PowerOfTen(c - i)
             q == PowerOfTen((c - i) + 1)
  <2>1. c - i \in Nat /\ c - (i - 1) = (c - i) + 1 /\ i - 1 \in 0..c /\ i \in 0..c
    BY <1>1
  <2>2. p \in Nat \ {0} /\ q = 10 * p
    BY <2>1, PowersOfTen
  <2>3. w[i] = n \div p /\ w[i - 1] = n \div q
    BY <2>1
  <2> HIDE DEF p, q, w
  <2>4. n \div (10 * p) = (n \div p) \div 10
    BY <2>2
  <2>5. QED
    BY <2>2, <2>3, <2>4
<1>8. w[0] = 0 /\ w[c] = n
  <2> DEFINE p == PowerOfTen(c)
  <2>1. PowerOfTen(0) = 1
    BY PowersOfTen
  <2>2. p \in Nat \ {0} /\ n < p
    BY <1>1, PowersOfTen
  <2>3. w[0] = n \div p
    BY <1>1
  <2>4. w[c] = n \div 1
    BY <1>1, <2>1
  <2> HIDE DEF p, w
  <2>5. n \div p = 0
    BY <2>2
  <2>6. QED
    BY <2>3, <2>4, <2>5
<1> HIDE DEF w
<1>9. /\ Number(d) = v[c] /\ v[0] = 0
      /\ \A i \in 1..c : v[i] = 10 * v[i - 1] + d[i]
  BY <1>6, NumberByDigits DEF v
<1>10. \A i \in 1..c : 10 * w[i - 1] + d[i] = w[i]
  <2> SUFFICES ASSUME NEW i \in 1..c
               PROVE  10 * w[i - 1] + d[i] = w[i]
    OBVIOUS
  <2>1. w[i] \in Nat
    BY <1>4
  <2>2. 10 * (w[i] \div 10) + (w[i] % 10) = w[i]
    BY <2>1
  <2>3. QED
    BY <1>5, <1>7, <2>2
<1>11. GoOnAlike(c, v, w)
  BY <1>8, <1>9, <1>10 DEF GoOnAlike
<1>12. v[c] = w[c]
  BY <1>1, <1>11, AlikeFromTheLeft
<1>13. \A k \in Nat \ {0} : n < PowerOfTen(k) => c <= k
  <2> SUFFICES ASSUME NEW k \in Nat \ {0}, n < PowerOfTen(k), ~(c <= k)
               PROVE  FALSE
    OBVIOUS
  <2>1. c # 1 /\ c - 1 \in Nat /\ (k = c - 1 \/ k < c - 1)
    BY <1>1
  <2>2. PowerOfTen(k) \in Nat /\ PowerOfTen(c - 1) \in Nat
    BY <2>1, PowersOfTen
  <2>3. k = c - 1 \/ PowerOfTen(k) < PowerOfTen(c - 1)
    BY <2>1, PowersGrow
  <2>4. QED
    BY <1>1, <2>1, <2>2, <2>3
<1>14. QED
  BY <1>1, <1>6, <1>8, <1>9, <1>12, <1>13 DEF d

\* Two texts put together.
LEMMA PutTogether ==
  ASSUME NEW X, NEW s \in Seq(X), NEW t \in Seq(X)
  PROVE  /\ s \o t \in Seq(X) /\ Len(s \o t) = Len(s) + Len(t)
         /\ \A i \in 1..Len(s) : (s \o t)[i] = s[i]
         /\ \A i \in 1..Len(t) : (s \o t)[Len(s) + i] = t[i]
OBVIOUS

\* What replace(/0+$/, '') takes away is zeros.
LEMMA StrippedIsZeros ==
  ASSUME NEW digits \in Seq(Digit)
  PROVE  \E n \in Nat : /\ StripEnd(digits) \in Seq(Digit)
                        /\ Len(StripEnd(digits)) + n = Len(digits)
                        /\ digits = StripEnd(digits) \o Zeros(n)
<1> DEFINE LastNonzero(k) == /\ k = 0 \/ digits[k] # 0
                             /\ \A i \in (k + 1)..Len(digits) : digits[i] = 0
           last == CHOOSE k \in 0..Len(digits) : LastNonzero(k)
           Ends == {k \in 0..Len(digits) : \A i \in (k + 1)..Len(digits) : digits[i] = 0}
<1>1. Len(digits) \in Ends
  OBVIOUS
<1>2. PICK k \in Ends : \A j \in Ends : k <= j
  <2>1. Ends \subseteq Nat
    OBVIOUS
  <2> HIDE DEF Ends
  <2>2. QED
    BY <1>1, <2>1, LeastNumber
<1>3. LastNonzero(k)
  <2>1. SUFFICES ASSUME k # 0, digits[k] = 0
                 PROVE  FALSE
    OBVIOUS
  <2>2. k - 1 \in 0..Len(digits)
    BY <2>1
  <2>3. \A i \in ((k - 1) + 1)..Len(digits) : digits[i] = 0
    BY <2>1
  <2>4. k - 1 \in Ends
    BY <2>2, <2>3
  <2>5. k \in Nat
    BY <1>2
  <2> HIDE DEF Ends
  <2>6. k <= k - 1
    BY <1>2, <2>4
  <2>7. QED
    BY <2>5, <2>6
<1>4. last \in 0..Len(digits) /\ LastNonzero(last)
  <2>1. \E j \in 0..Len(digits) : LastNonzero(j)
    BY <1>3
  <2> HIDE DEF LastNonzero
  <2>2. QED
    BY <2>1
<1>5. StripEnd(digits) = SubSeq(digits, 1, last)
  BY DEF StripEnd
<1> HIDE DEF last
<1> DEFINE n == Len(digits) - last
           kept == SubSeq(digits, 1, last)
<1>6. n \in Nat
  BY <1>4
<1>7. /\ kept \in Seq(Digit) /\ Len(kept) = last
      /\ \A i \in 1..last : kept[i] = digits[i]
  BY <1>4
<1> HIDE DEF kept
<1>8. /\ Zeros(n) \in Seq(Digit) /\ Len(Zeros(n)) = n
      /\ \A i \in 1..n : Zeros(n)[i] = 0
  BY <1>6 DEF Zeros, Digit
<1> DEFINE both == kept \o Zeros(n)
<1>9. /\ both \in Seq(Digit) /\ Len(both) = Len(digits)
      /\ \A i \in 1..last : both[i] = kept[i]
      /\ \A i \in 1..n : both[last + i] = Zeros(n)[i]
  <2>1. /\ both \in Seq(Digit) /\ Len(both) = Len(kept) + Len(Zeros(n))
        /\ \A i \in 1..Len(kept) : both[i] = kept[i]
        /\ \A i \in 1..Len(Zeros(n)) : both[Len(kept) + i] = Zeros(n)[i]
    BY <1>7, <1>8, PutTogether
  <2> HIDE DEF both
  <2>2. QED
    BY <1>4, <1>7, <1>8, <2>1
<1> HIDE DEF both
<1>10. \A i \in 1..Len(digits) : both[i] = digits[i]
  <2> SUFFICES ASSUME NEW i \in 1..Len(digits)
               PROVE  both[i] = digits[i]
    OBVIOUS
  <2>1. CASE i <= last
    BY <1>7, <1>9, <2>1
  <2>2. CASE ~(i <= last)
    <3>1. i \in (last + 1)..Len(digits) /\ i - last \in 1..n /\ last + (i - last) = i
      BY <1>4, <2>2
    <3>2. digits[i] = 0
      BY <1>4, <3>1
    <3>3. both[i] = Zeros(n)[i - last]
      BY <1>9, <3>1
    <3>4. QED
      BY <1>8, <3>1, <3>2, <3>3
  <2>3. QED
    BY <2>1, <2>2
<1>11. both = digits
  BY <1>9, <1>10
<1>12. StripEnd(digits) = kept
  BY <1>5 DEF kept
<1>13. Len(kept) + n = Len(digits)
  BY <1>4, <1>7
<1>14. digits = kept \o Zeros(n)
  BY <1>11 DEF both
<1> HIDE DEF n
<1>15. QED
  BY <1>6, <1>7, <1>12, <1>13, <1>14

\* An amount as it is read is the amount it says.
LEMMA ReadAsWritten ==
  ASSUME NEW text \in Text, Len(text.fraction) <= DECIMAL_PLACES
  PROVE  xlmToStroops(text) = Denoted(text)
<1> DEFINE s == text.whole
           t == text.fraction
           n == DECIMAL_PLACES - Len(t)
           e == t \o Zeros(n)
<1>1. s \in Seq(Nat) /\ t \in Seq(Nat) /\ Len(t) <= DECIMAL_PLACES
  BY DEF Text, Digit
<1>2. PadEnd(t) = e
  BY DEF PadEnd, Zeros
<1>3. xlmToStroops(text) = Number(s \o e)
  BY <1>2 DEF xlmToStroops
<1>4. Denoted(text) = Number(s) * PowerOfTen(DECIMAL_PLACES) + Number(t) * PowerOfTen(n)
  BY DEF Denoted, STROOPS_PER_XLM
<1> HIDE DEF s, t
<1>5. n \in Nat /\ Len(t) + n = DECIMAL_PLACES /\ DECIMAL_PLACES \in Nat
  BY <1>1, XlmAssumption
<1> HIDE DEF n
<1>6. Zeros(n) \in Seq(Nat) /\ Len(Zeros(n)) = n /\ Number(Zeros(n)) = 0
  BY <1>5, NumberOfZeros
<1>7. e \in Seq(Nat) /\ Len(e) = DECIMAL_PLACES
  <2>1. e \in Seq(Nat) /\ Len(e) = Len(t) + Len(Zeros(n))
    BY <1>1, <1>6, PutTogether
  <2> HIDE DEF e
  <2>2. QED
    BY <1>5, <1>6, <2>1
<1>8. Number(e) = Number(t) * PowerOfTen(n) + 0
  BY <1>1, <1>6, NumberOfBoth
<1> HIDE DEF e
<1>9. Number(s \o e) = Number(s) * PowerOfTen(DECIMAL_PLACES) + Number(e)
  BY <1>1, <1>7, NumberOfBoth
<1>10. Number(t) \in Nat /\ PowerOfTen(n) \in Nat
  BY <1>1, <1>5, NumbersAreNatural, PowersOfTen
<1> DEFINE p == PowerOfTen(n)
           y == Number(t)
<1> HIDE DEF p, y
<1>11. y * p + 0 = y * p
  BY <1>10 DEF p, y
<1>12. QED
  BY <1>3, <1>4, <1>8, <1>9, <1>11 DEF p, y

\* An amount as it is shown says the amount that is stored.
LEMMA WrittenAsStored ==
  ASSUME NEW n \in Nat
  PROVE  Denoted(formatXlm(n)) = n
<1> DEFINE S == STROOPS_PER_XLM
           q == n \div S
           f == n % S
           whole == Digits(q)
           fraction == IF f = 0 THEN <<>> ELSE StripEnd(PadStart(Digits(f)))
           shown == Number(fraction) * PowerOfTen(DECIMAL_PLACES - Len(fraction))
<1>1. S \in Nat \ {0} /\ S = PowerOfTen(DECIMAL_PLACES) /\ DECIMAL_PLACES \in Nat
  BY XlmAssumption, PowersOfTen DEF STROOPS_PER_XLM
<1>2. Denoted(formatXlm(n)) = Number(whole) * S + shown
  BY DEF Denoted, formatXlm
<1> HIDE DEF S
<1>3. q \in Nat /\ f \in Nat /\ f < S /\ q * S + f = n
  BY <1>1
<1> HIDE DEF q, f
<1>4. Number(whole) = q
  BY <1>3, NumberOfDigits
<1>5. shown = f
  <2>1. CASE f = 0
    <3>1. Number(<<>>) = 0 /\ Len(<<>>) = 0
      <4>1. <<>> \in Seq(Nat) /\ Len(<<>>) = 0
        OBVIOUS
      <4>2. QED
        BY <4>1, NumberByDigits
    <3> DEFINE p == PowerOfTen(DECIMAL_PLACES - Len(fraction))
    <3>2. fraction = <<>>
      BY <2>1
    <3>3. p \in Nat
      <4>1. DECIMAL_PLACES - Len(fraction) \in Nat
        BY <1>1, <3>1, <3>2
      <4>2. QED
        BY <4>1, PowersOfTen
    <3> HIDE DEF p
    <3>4. 0 * p = 0
      BY <3>3
    <3>5. QED
      BY <2>1, <3>1, <3>2, <3>4 DEF p
  <2>2. CASE f # 0
    <3> DEFINE d == Digits(f)
               m == DECIMAL_PLACES - Len(d)
               padded == PadStart(d)
    <3>1. DECIMAL_PLACES # 0
      BY <1>1, <1>3, <2>2, PowersOfTen
    <3>2. d \in Seq(Digit) /\ Number(d) = f /\ Len(d) <= DECIMAL_PLACES
      BY <1>1, <1>3, <3>1, NumberOfDigits
    <3>3. padded = Zeros(m) \o d
      BY DEF PadStart, Zeros
    <3> HIDE DEF d
    <3>4. m \in Nat /\ Len(d) + m = DECIMAL_PLACES /\ d \in Seq(Nat)
      BY <1>1, <3>2 DEF Digit
    <3> HIDE DEF m
    <3>5. /\ Zeros(m) \in Seq(Nat) /\ Zeros(m) \in Seq(Digit) /\ Len(Zeros(m)) = m
          /\ Number(Zeros(m)) = 0
      <4>1. Zeros(m) \in Seq(Digit)
        BY <3>4 DEF Zeros, Digit
      <4>2. QED
        BY <3>4, <4>1, NumberOfZeros
    <3>6. padded \in Seq(Digit) /\ Len(padded) = DECIMAL_PLACES
      BY <3>2, <3>3, <3>4, <3>5
    <3>7. Number(padded) = f
      <4>1. Number(padded) = 0 * PowerOfTen(Len(d)) + f
        BY <3>2, <3>3, <3>4, <3>5, NumberOfBoth
      <4> DEFINE p == PowerOfTen(Len(d))
      <4>2. p \in Nat
        BY <3>4, PowersOfTen
      <4> HIDE DEF p
      <4>3. 0 * p + f = f
        BY <1>3, <4>2
      <4>4. QED
        BY <4>1, <4>3 DEF p
    <3> HIDE DEF padded
    <3> DEFINE kept == StripEnd(padded)
    <3>8. PICK k \in Nat : /\ kept \in Seq(Digit) /\ Len(kept) + k = DECIMAL_PLACES
                           /\ padded = kept \o Zeros(k)
      BY <3>6, StrippedIsZeros
    <3>9. fraction = kept
      BY <2>2 DEF padded, d
    <3> HIDE DEF kept
    <3>10. kept \in Seq(Nat) /\ DECIMAL_PLACES - Len(kept) = k
      BY <1>1, <3>8 DEF Digit
    <3>11. Zeros(k) \in Seq(Nat) /\ Len(Zeros(k)) = k /\ Number(Zeros(k)) = 0
      BY NumberOfZeros
    <3>12. f = Number(kept) * PowerOfTen(k) + 0
      BY <3>7, <3>8, <3>10, <3>11, NumberOfBoth
    <3> DEFINE p == PowerOfTen(k)
               y == Number(kept)
    <3>13. p \in Nat /\ y \in Nat
      BY <3>10, PowersOfTen, NumbersAreNatural
    <3> HIDE DEF p, y
    <3>14. y * p + 0 = y * p
      BY <3>13
    <3>15. shown = Number(kept) * PowerOfTen(k)
      BY <3>9, <3>10
    <3> HIDE DEF shown
    <3>16. QED
      BY <3>12, <3>14, <3>15 DEF p, y
  <2>3. QED
    BY <2>1, <2>2
<1>6. QED
  BY <1>2, <1>3, <1>4, <1>5

-----------------------------------------------------------------------------
(* Sequences and forms. *)

LEMMA RemoveAtProperties ==
    ASSUME NEW S, NEW s \in Seq(S), NEW i \in 1..Len(s)
    PROVE  /\ RemoveAt(s, i) \in Seq(S)
           /\ Len(RemoveAt(s, i)) = Len(s) - 1
           /\ \A j \in 1..(Len(s) - 1) :
                RemoveAt(s, i)[j] = IF j < i THEN s[j] ELSE s[j + 1]
<1> DEFINE before == SubSeq(s, 1, i - 1)
           after == SubSeq(s, i + 1, Len(s))
<1>1. /\ before \in Seq(S) /\ Len(before) = i - 1
      /\ \A j \in 1..(i - 1) : before[j] = s[j]
  <2>1. \A j \in 1..(i - 1) : s[j] \in S
    OBVIOUS
  <2> QED BY <2>1, SubSeqProperties
<1>2. /\ after \in Seq(S) /\ Len(after) = Len(s) - i
      /\ \A j \in 1..(Len(s) - i) : after[j] = s[j + i]
  <2>1. \A j \in (i + 1)..Len(s) : s[j] \in S
    OBVIOUS
  <2> QED BY <2>1, SubSeqProperties
<1>3. RemoveAt(s, i) = before \o after
  BY DEF RemoveAt
<1> HIDE DEF before, after
<1>4. /\ before \o after \in Seq(S)
      /\ Len(before \o after) = Len(s) - 1
      /\ \A j \in 1..(Len(s) - 1) : (before \o after)[j] =
            IF j <= i - 1 THEN before[j] ELSE after[j - (i - 1)]
  BY <1>1, <1>2, ConcatProperties
<1>5. \A j \in 1..(Len(s) - 1) :
        (before \o after)[j] = IF j < i THEN s[j] ELSE s[j + 1]
  <2> TAKE j \in 1..(Len(s) - 1)
  <2>1. CASE j < i
    BY <2>1, <1>1, <1>4
  <2>2. CASE ~(j < i)
    <3>1. j - (i - 1) \in 1..(Len(s) - i) /\ ~(j <= i - 1) /\ j - (i - 1) + i = j + 1
      BY <2>2
    <3> QED BY <2>2, <3>1, <1>2, <1>4
  <2> QED BY <2>1, <2>2
<1> QED BY <1>3, <1>4, <1>5

LEMMA BlankForm ==
    /\ EmptyForm \in Form
    /\ Len(EmptyForm.criteria) = 1
    /\ NewCriterion \in Criterion
    /\ <<>> \in Seq(BOOLEAN)
<1>1. NewCriterion \in Criterion
  BY DEF NewCriterion, Criterion
<1>2. EmptyForm \in Form
  BY <1>1, CreationAssumption DEF EmptyForm, Form
<1>3. EmptyForm.criteria = <<NewCriterion>>
  BY DEF EmptyForm
<1> QED BY <1>1, <1>2, <1>3

\* The criteria of a form, one by one.
LEMMA FormCriteria ==
    ASSUME CreationTypeOK
    PROVE  /\ form.criteria \in Seq(Criterion)
           /\ DOMAIN form.criteria = 1..Len(form.criteria)
           /\ Len(form.criteria) \in 1..MaxCriteria
           /\ \A i \in DOMAIN form.criteria : form.criteria[i] \in Criterion
  BY CreationAssumption DEF CreationTypeOK, WizardTypeOK, Form

\* The posts, one by one.
LEMMA PostRows ==
    ASSUME CreationTypeOK
    PROVE  /\ posts \in Seq(Post) /\ DOMAIN posts = 1..Len(posts)
           /\ visit \in Nat /\ now \in Nat
           /\ \A p \in DOMAIN posts :
                /\ posts[p] \in Post
                /\ posts[p].visit \in Nat
                /\ posts[p].form \in Form /\ posts[p].form.deadline \in Nat
                /\ posts[p].draft \in {0} \cup DOMAIN drafts
<1>1. posts \in Seq(Post) /\ DOMAIN posts = 1..Len(posts)
  BY DEF CreationTypeOK, RecordsTypeOK
<1>2. \A p \in DOMAIN posts : posts[p] \in Post
  BY <1>1
<1>3. \A f \in Form : f.deadline \in Nat
  <2> TAKE f \in Form
  <2>1. f.deadline \in Deadlines \cup {0}
    BY DEF Form
  <2>2. Deadlines \cup {0} \subseteq Nat
    BY CreationAssumption
  <2> QED BY <2>1, <2>2
<1> QED
  BY <1>1, <1>2, <1>3, CreationAssumption DEF CreationTypeOK, RecordsTypeOK, Post

-----------------------------------------------------------------------------
(* What a step has to keep, when it leaves the rest alone. *)

LEMMA WizardKept ==
    ASSUME WizardInv, UNCHANGED wizardVars, CreationTypeOK', OpenWizardIsCounted'
    PROVE  WizardInv'
  BY DEF WizardInv, wizardVars, RightBehind, ErrorsFollowCriteria, CriterionErrorIsItsOwn

LEMMA WizardReset ==
    ASSUME ResetWizard
    PROVE  /\ WizardTypeOK'
           /\ CreationTypeOK' /\ OpenWizardIsCounted' => WizardInv'
<1>1. /\ step' = 0 /\ criteriaErrors' = <<>>
  BY DEF ResetWizard
<1>2. RightBehind' /\ ErrorsFollowCriteria'
  BY <1>1 DEF RightBehind, ErrorsFollowCriteria
<1>3. CriterionErrorIsItsOwn'
  BY <1>1 DEF CriterionErrorIsItsOwn
<1>4. WizardTypeOK'
  <2>1. 1 \in 1..MaxCriteria
    BY CreationAssumption
  <2>2. form' \in Form /\ Len(form'.criteria) \in 1..MaxCriteria
    BY <2>1, BlankForm DEF ResetWizard
  <2>3. criteriaErrors' \in Seq(BOOLEAN)
    BY BlankForm DEF ResetWizard
  <2>4. step' \in 0..3 /\ fieldErrors' \subseteq FieldNames
    BY DEF ResetWizard
  <2>5. submitting' \in BOOLEAN
    BY DEF ResetWizard
  <2> QED BY <2>2, <2>3, <2>4, <2>5 DEF WizardTypeOK
<1> QED BY <1>2, <1>3, <1>4 DEF WizardInv

\* The drafts may be added to and funded, the clock and the session may change.
LEMMA PostsKept ==
    ASSUME PostsInv, UNCHANGED <<route, visit, step, form, submitting, posts>>
    PROVE  PostsInv'
  BY DEF PostsInv, PostsOfThePage, OneAtATime, ReviewedIsCreated

\* While nothing is being sent the wizard may change.
LEMMA PostsEdited ==
    ASSUME PostsInv, ~submitting, UNCHANGED <<route, visit, submitting, posts>>
    PROVE  PostsInv'
  BY DEF PostsInv, PostsOfThePage, OneAtATime, ReviewedIsCreated

\* The page is left, or opened for the next visit.
LEMMA PostsLeft ==
    ASSUME CreationTypeOK, PostsInv, ~submitting', UNCHANGED posts,
           \/ visit' = visit /\ route' # "create"
           \/ visit' = visit + 1
    PROVE  PostsInv'
<1>1. PostsOfThePage'
  BY PostRows DEF PostsInv, PostsOfThePage
<1>2. OneAtATime' /\ ReviewedIsCreated'
  BY DEF PostsInv, OneAtATime, ReviewedIsCreated
<1> QED BY <1>1, <1>2 DEF PostsInv

\* A board that waits for its first answer, and none at all.
LEMMA BoardsWithout == NoBoard \in Board /\ LoadEffect(NoBoard) \in Board
<1>1. 0 \in 0..MaxReloads /\ -1 \in -1..MaxReloads
  BY CreationAssumption
<1>2. NoBoard \in Board
  BY <1>1 DEF NoBoard, Board
<1>3. LoadEffect(NoBoard) \in Board
  BY <1>1, <1>2 DEF NoBoard, Board, LoadEffect
<1> QED BY <1>2, <1>3

\* An answer and "Try again" keep the shape of the board.
LEMMA BoardsWith ==
    ASSUME CreationTypeOK, LoadBoard \/ ReloadBoard
    PROVE  board' \in Board
<1>1. board \in Board
  BY DEF CreationTypeOK
<1>2. CASE LoadBoard
  <2>1. PICK token \in board.asked, state \in {"ready", "error"} :
          board' = [board EXCEPT
            !.asked = @ \ {token},
            !.result = [token |-> token, state |-> state,
                        bounties |-> IF state = "ready" THEN list_bounties ELSE {}]]
    BY <1>2 DEF LoadBoard
  <2>2. list_bounties \in SUBSET Nat
    BY DEF list_bounties, CreationTypeOK, RecordsTypeOK
  <2>3. token \in 0..MaxReloads /\ token \in -1..MaxReloads
    BY <1>1, CreationAssumption DEF Board
  <2> QED BY <1>1, <2>1, <2>2, <2>3 DEF Board
<1>3. CASE ReloadBoard
  <2>1. board.reloadToken + 1 \in 0..MaxReloads
    BY <1>1, <1>3, CreationAssumption DEF ReloadBoard, Board
  <2> QED BY <1>1, <1>3, <2>1 DEF ReloadBoard, LoadEffect, Board
<1> QED BY <1>2, <1>3

LEMMA InitialCreation == CreationInit => CreationInv
<1> SUFFICES ASSUME CreationInit PROVE CreationInv
  OBVIOUS
<1> USE CreationAssumption DEF CreationInit
<1>1. CreationTypeOK
  <2>1. WizardTypeOK
    <3>1. 1 \in 1..MaxCriteria
      OBVIOUS
    <3>2. /\ form \in Form /\ Len(form.criteria) \in 1..MaxCriteria
          /\ criteriaErrors \in Seq(BOOLEAN)
      BY <3>1, BlankForm
    <3>3. step \in 0..3 /\ fieldErrors \subseteq FieldNames
      OBVIOUS
    <3>4. submitting \in BOOLEAN
      OBVIOUS
    <3> QED BY <3>2, <3>3, <3>4 DEF WizardTypeOK
  <2>2. board \in Board
    BY BoardsWithout
  <2>3. RecordsTypeOK
    BY DEF RecordsTypeOK
  <2> QED BY <2>1, <2>2, <2>3 DEF CreationTypeOK
<1>2. WizardInv
  BY <1>1 DEF WizardInv, OpenWizardIsCounted, RightBehind, ErrorsFollowCriteria,
              CriterionErrorIsItsOwn
<1>3. PostsInv
  BY DEF PostsInv, PostsOfThePage, OneAtATime, ReviewedIsCreated
<1> QED BY <1>2, <1>3 DEF CreationInv

-----------------------------------------------------------------------------
(* The routes and the board. *)

LEMMA OpenMarketplaceKeeps == CreationInv /\ OpenMarketplace => CreationInv'
<1> SUFFICES ASSUME CreationInv, OpenMarketplace PROVE CreationInv'
  OBVIOUS
<1> USE DEF CreationInv, WizardInv, OpenMarketplace
<1>1. CreationTypeOK'
  <2>1. WizardTypeOK'
    BY WizardReset
  <2> QED BY <2>1, BoardsWithout DEF CreationTypeOK, RecordsTypeOK
<1>2. WizardInv'
  BY <1>1, WizardReset DEF OpenWizardIsCounted, ResetWizard
<1>3. PostsInv'
  BY PostsLeft DEF ResetWizard
<1> QED BY <1>2, <1>3

LEMMA OpenWizardKeeps == CreationInv /\ OpenWizard => CreationInv'
<1> SUFFICES ASSUME CreationInv, OpenWizard PROVE CreationInv'
  OBVIOUS
<1> USE DEF CreationInv, WizardInv, OpenWizard
<1>1. CreationTypeOK'
  <2>1. WizardTypeOK'
    BY WizardReset
  <2>2. visit' \in 0..MaxTurns /\ visit' + Len(posts') <= MaxTurns
    BY CreationAssumption DEF CreationTypeOK, RecordsTypeOK
  <2>3. RecordsTypeOK'
    BY <2>2 DEF CreationTypeOK, RecordsTypeOK
  <2> QED BY <2>1, <2>3, BoardsWithout DEF CreationTypeOK
<1>2. WizardInv'
  <2>1. visit' > 0
    BY PostRows
  <2>2. ~submitting'
    BY DEF ResetWizard
  <2> QED BY <1>1, <2>1, <2>2, WizardReset DEF OpenWizardIsCounted
<1>3. PostsInv'
  BY PostsLeft DEF ResetWizard
<1> QED BY <1>2, <1>3

\* Steps that touch neither the wizard nor the posts.
LEMMA ElsewhereKeeps ==
    ASSUME CreationInv, LoadBoard \/ ReloadBoard \/ SwitchSession \/ PassTime
    PROVE  CreationInv'
<1> USE DEF CreationInv, WizardInv
<1>1. /\ UNCHANGED <<route, visit, wizardVars, posts, drafts>>
      /\ session' \in Wallets \cup {None} /\ now' \in 0..MaxTime /\ board' \in Board
  <2>1. CASE LoadBoard \/ ReloadBoard
    BY <2>1, BoardsWith DEF LoadBoard, ReloadBoard, CreationTypeOK
  <2>2. CASE SwitchSession \/ PassTime
    BY <2>2, CreationAssumption DEF SwitchSession, PassTime, CreationTypeOK
  <2> QED BY <2>1, <2>2
<1>2. CreationTypeOK'
  BY <1>1 DEF CreationTypeOK, WizardTypeOK, RecordsTypeOK, wizardVars
<1>3. WizardInv'
  BY <1>1, <1>2, WizardKept DEF OpenWizardIsCounted, wizardVars
<1>4. PostsInv'
  BY <1>1, PostsKept DEF wizardVars
<1> QED BY <1>3, <1>4

-----------------------------------------------------------------------------
(* The form. *)

\* An edit of step s concerns nothing that lies behind it.
LEMMA EditKeeps ==
    ASSUME CreationInv, NEW s \in 0..2, NEW f \in Form, Edit(s, f),
           Len(f.criteria) \in 1..MaxCriteria,
           s > 0 => f.filled = form.filled,
           s > 1 => f.criteria = form.criteria,
           criteriaErrors' \in Seq(BOOLEAN), ErrorsFollowCriteria', CriterionErrorIsItsOwn'
    PROVE  CreationInv'
<1> USE DEF CreationInv, WizardInv, Edit
<1>1. step = s /\ form' = f /\ route = "create"
  OBVIOUS
<1>2. CreationTypeOK'
  <2>1. WizardTypeOK'
    BY DEF CreationTypeOK, WizardTypeOK
  <2> QED BY <2>1 DEF CreationTypeOK, RecordsTypeOK
<1>3. RightBehind'
  BY DEF RightBehind
<1>4. ~submitting
  BY <1>1 DEF PostsInv, ReviewedIsCreated
<1>5. OpenWizardIsCounted'
  BY DEF OpenWizardIsCounted
<1>6. PostsInv'
  BY <1>4, PostsEdited
<1> QED BY <1>2, <1>3, <1>5, <1>6

LEMMA EditTaskKeeps == CreationInv /\ EditTask => CreationInv'
<1> SUFFICES ASSUME CreationInv,
                    NEW filled \in SUBSET TaskFields,
                    Edit(0, [form EXCEPT !.filled = filled]),
                    UNCHANGED criteriaErrors
             PROVE  CreationInv'
  BY DEF EditTask
<1> DEFINE f == [form EXCEPT !.filled = filled]
<1>1. CreationTypeOK /\ WizardTypeOK /\ form \in Form
  BY DEF CreationInv, WizardInv, CreationTypeOK, WizardTypeOK
<1>2. f \in Form /\ f.criteria = form.criteria
  BY <1>1 DEF Form
<1>3. UNCHANGED <<step, criteriaErrors>> /\ form' = f
  BY DEF Edit
<1>4. criteriaErrors' \in Seq(BOOLEAN) /\ Len(f.criteria) \in 1..MaxCriteria
  BY <1>1, <1>2, <1>3 DEF WizardTypeOK
<1>5. ErrorsFollowCriteria' /\ CriterionErrorIsItsOwn'
  BY <1>2, <1>3 DEF CreationInv, WizardInv, ErrorsFollowCriteria, CriterionErrorIsItsOwn
<1>6. Edit(0, f)
  OBVIOUS
<1> HIDE DEF f
<1>7. 0 \in 0..2 /\ ~(0 > 0) /\ ~(0 > 1)
  OBVIOUS
<1> QED BY <1>2, <1>4, <1>5, <1>6, <1>7, EditKeeps

LEMMA EditRewardKeeps == CreationInv /\ EditReward => CreationInv'
<1> SUFFICES ASSUME CreationInv,
                    NEW reward \in Rewards, NEW deadline \in Deadlines \cup {0},
                    Edit(2, [form EXCEPT !.reward = reward, !.deadline = deadline]),
                    UNCHANGED criteriaErrors
             PROVE  CreationInv'
  BY DEF EditReward
<1> DEFINE f == [form EXCEPT !.reward = reward, !.deadline = deadline]
<1>1. CreationTypeOK /\ WizardTypeOK /\ form \in Form
  BY DEF CreationInv, WizardInv, CreationTypeOK, WizardTypeOK
<1>2. f \in Form /\ f.criteria = form.criteria /\ f.filled = form.filled
  BY <1>1 DEF Form
<1>3. UNCHANGED <<step, criteriaErrors>> /\ form' = f
  BY DEF Edit
<1>4. criteriaErrors' \in Seq(BOOLEAN) /\ Len(f.criteria) \in 1..MaxCriteria
  BY <1>1, <1>2, <1>3 DEF WizardTypeOK
<1>5. ErrorsFollowCriteria' /\ CriterionErrorIsItsOwn'
  BY <1>2, <1>3 DEF CreationInv, WizardInv, ErrorsFollowCriteria, CriterionErrorIsItsOwn
<1>6. Edit(2, f)
  OBVIOUS
<1> HIDE DEF f
<1>7. 2 \in 0..2
  OBVIOUS
<1> QED BY <1>2, <1>4, <1>5, <1>6, <1>7, EditKeeps

LEMMA UpdateCriterionKeeps ==
    ASSUME CreationInv, NEW i \in DOMAIN form.criteria, updateCriterion(i)
    PROVE  CreationInv'
<1> DEFINE new == [form.criteria[i] EXCEPT !.text = ~form.criteria[i].text]
           changed == [form.criteria EXCEPT ![i] = new]
           f == [form EXCEPT !.criteria[i].text = ~@]
<1>1. CreationTypeOK /\ WizardTypeOK /\ form \in Form
  BY DEF CreationInv, WizardInv, CreationTypeOK, WizardTypeOK
<1>2. f.criteria = changed /\ f.filled = form.filled /\ f = [form EXCEPT !.criteria = changed]
  BY <1>1 DEF Form
<1>3. new \in Criterion /\ new.refused = form.criteria[i].refused
  BY <1>1, FormCriteria DEF Criterion
<1>4. Edit(1, f) /\ UNCHANGED criteriaErrors
  BY DEF updateCriterion
<1>5. /\ changed \in Seq(Criterion) /\ Len(changed) = Len(form.criteria)
      /\ \A j \in DOMAIN form.criteria : changed[j].refused = form.criteria[j].refused
  <2> HIDE DEF new
  <2> QED BY <1>1, <1>3, FormCriteria
<1> HIDE DEF changed, f
<1>6. f \in Form /\ Len(f.criteria) \in 1..MaxCriteria
  BY <1>1, <1>2, <1>5, FormCriteria DEF Form
<1>7. form' = f /\ step' = step
  BY <1>4 DEF Edit
<1>8. criteriaErrors' \in Seq(BOOLEAN) /\ ErrorsFollowCriteria'
  BY <1>1, <1>2, <1>4, <1>5, <1>7
     DEF WizardTypeOK, CreationInv, WizardInv, ErrorsFollowCriteria
<1>9. CriterionErrorIsItsOwn'
  BY <1>1, <1>2, <1>4, <1>5, <1>7, FormCriteria
     DEF CreationInv, WizardInv, CriterionErrorIsItsOwn
<1>10. 1 \in 0..2 /\ ~(1 > 1)
  OBVIOUS
<1> QED BY <1>2, <1>4, <1>6, <1>8, <1>9, <1>10, EditKeeps

\* At the step where criteria are edited there is an entry for each of them.
LEMMA EntriesAtHand ==
    ASSUME CreationInv, step = 1
    PROVE  Len(criteriaErrors) = Len(form.criteria)
  BY DEF CreationInv, WizardInv, ErrorsFollowCriteria

LEMMA AddCriterionKeeps == CreationInv /\ addCriterion => CreationInv'
<1> SUFFICES ASSUME CreationInv, addCriterion PROVE CreationInv'
  OBVIOUS
<1> DEFINE longer == Append(form.criteria, NewCriterion)
           f == [form EXCEPT !.criteria = longer]
<1>1. CreationTypeOK /\ WizardTypeOK /\ form \in Form
  BY DEF CreationInv, WizardInv, CreationTypeOK, WizardTypeOK
<1>2. f.criteria = longer /\ f.filled = form.filled
  BY <1>1 DEF Form
<1>3. Edit(1, f) /\ criteriaErrors' = Append(criteriaErrors, FALSE)
  BY DEF addCriterion
<1>4. /\ longer \in Seq(Criterion) /\ Len(longer) = Len(form.criteria) + 1
      /\ \A j \in DOMAIN form.criteria : longer[j] = form.criteria[j]
  BY <1>1, FormCriteria, BlankForm
<1>5. Len(form.criteria) < MaxCriteria
  BY DEF addCriterion
<1> HIDE DEF longer
<1>6. f \in Form /\ Len(f.criteria) \in 1..MaxCriteria
  BY <1>1, <1>2, <1>4, <1>5, FormCriteria, CreationAssumption DEF Form
<1>7. step = 1 /\ form' = f /\ step' = step
  BY <1>3 DEF Edit
<1>8. /\ criteriaErrors' \in Seq(BOOLEAN)
      /\ Len(criteriaErrors') = Len(criteriaErrors) + 1
      /\ \A j \in DOMAIN criteriaErrors : criteriaErrors'[j] = criteriaErrors[j]
      /\ criteriaErrors'[Len(criteriaErrors) + 1] = FALSE
      /\ DOMAIN criteriaErrors' = DOMAIN criteriaErrors \cup {Len(criteriaErrors) + 1}
  <2>1. criteriaErrors \in Seq(BOOLEAN) /\ FALSE \in BOOLEAN
    BY <1>1 DEF WizardTypeOK
  <2>2. ASSUME NEW e \in BOOLEAN
        PROVE  /\ Append(criteriaErrors, e) \in Seq(BOOLEAN)
               /\ Len(Append(criteriaErrors, e)) = Len(criteriaErrors) + 1
               /\ \A j \in DOMAIN criteriaErrors :
                    Append(criteriaErrors, e)[j] = criteriaErrors[j]
               /\ Append(criteriaErrors, e)[Len(criteriaErrors) + 1] = e
               /\ DOMAIN Append(criteriaErrors, e) =
                    DOMAIN criteriaErrors \cup {Len(criteriaErrors) + 1}
    BY <2>1
  <2> QED BY <1>3, <2>2
<1> HIDE DEF f
<1>9. ErrorsFollowCriteria'
  BY <1>2, <1>4, <1>7, <1>8, EntriesAtHand DEF ErrorsFollowCriteria
<1>10. CriterionErrorIsItsOwn'
  BY <1>1, <1>2, <1>4, <1>7, <1>8, FormCriteria
     DEF CreationInv, WizardInv, CriterionErrorIsItsOwn
<1>11. 1 \in 0..2 /\ ~(1 > 1)
  OBVIOUS
<1> QED BY <1>2, <1>3, <1>6, <1>8, <1>9, <1>10, <1>11, EditKeeps

LEMMA RemoveCriterionKeeps ==
    ASSUME CreationInv, NEW i \in DOMAIN form.criteria, removeCriterion(i)
    PROVE  CreationInv'
<1> DEFINE shorter == RemoveAt(form.criteria, i)
           f == [form EXCEPT !.criteria = shorter]
           n == Len(form.criteria)
<1>1. CreationTypeOK /\ WizardTypeOK /\ form \in Form
  BY DEF CreationInv, WizardInv, CreationTypeOK, WizardTypeOK
<1>2. f.criteria = shorter /\ f.filled = form.filled
  BY <1>1 DEF Form
<1>3. Edit(1, f) /\ criteriaErrors' = RemoveAt(criteriaErrors, i) /\ n > 1
  BY DEF removeCriterion
<1>4. step = 1 /\ form' = f /\ step' = step
  BY <1>3 DEF Edit
<1>5. /\ shorter \in Seq(Criterion) /\ Len(shorter) = n - 1
      /\ \A j \in 1..(n - 1) :
            shorter[j] = IF j < i THEN form.criteria[j] ELSE form.criteria[j + 1]
  BY <1>1, FormCriteria, RemoveAtProperties
<1>6. /\ criteriaErrors' \in Seq(BOOLEAN) /\ Len(criteriaErrors') = n - 1
      /\ \A j \in 1..(n - 1) :
            criteriaErrors'[j] = IF j < i THEN criteriaErrors[j] ELSE criteriaErrors[j + 1]
  <2>1. criteriaErrors \in Seq(BOOLEAN) /\ Len(criteriaErrors) = n /\ i \in 1..n
    BY <1>1, <1>4, FormCriteria, EntriesAtHand DEF WizardTypeOK
  <2> QED BY <1>3, <2>1, RemoveAtProperties
<1> HIDE DEF shorter
<1>7. f \in Form /\ Len(f.criteria) \in 1..MaxCriteria
  <2>1. Len(shorter) \in 1..MaxCriteria
    BY <1>1, <1>3, <1>5, FormCriteria, CreationAssumption
  <2> QED BY <1>1, <1>2, <1>5, <2>1 DEF Form
<1> HIDE DEF f
<1>8. ErrorsFollowCriteria'
  BY <1>2, <1>4, <1>5, <1>6 DEF ErrorsFollowCriteria
<1>9. CriterionErrorIsItsOwn'
  <2> SUFFICES ASSUME NEW j \in DOMAIN criteriaErrors', criteriaErrors'[j]
               PROVE  j \in DOMAIN form'.criteria /\ form'.criteria[j].refused
    BY DEF CriterionErrorIsItsOwn
  <2>1. j \in 1..(n - 1) /\ j \in DOMAIN shorter
    BY <1>5, <1>6
  <2>2. PICK k \in DOMAIN criteriaErrors :
            /\ criteriaErrors[k]
            /\ shorter[j] = form.criteria[k]
    <3>1. n \in Nat /\ DOMAIN criteriaErrors = 1..n /\ i \in 1..n
      BY <1>1, <1>4, FormCriteria, EntriesAtHand DEF WizardTypeOK
    <3>2. CASE j < i
      <4>1. criteriaErrors'[j] = criteriaErrors[j] /\ shorter[j] = form.criteria[j]
        BY <2>1, <3>2, <1>5, <1>6
      <4>2. j \in DOMAIN criteriaErrors
        BY <2>1, <3>1
      <4> QED BY <4>1, <4>2
    <3>3. CASE ~(j < i)
      <4>1. criteriaErrors'[j] = criteriaErrors[j + 1] /\ shorter[j] = form.criteria[j + 1]
        BY <2>1, <3>3, <1>5, <1>6
      <4>2. j + 1 \in DOMAIN criteriaErrors
        BY <2>1, <3>1
      <4> QED BY <4>1, <4>2
    <3> QED BY <3>2, <3>3
  <2>3. form.criteria[k].refused
    BY <2>2 DEF CreationInv, WizardInv, CriterionErrorIsItsOwn
  <2> QED BY <1>2, <1>4, <2>1, <2>2, <2>3
<1>10. 1 \in 0..2 /\ ~(1 > 1)
  OBVIOUS
<1> QED BY <1>2, <1>3, <1>6, <1>7, <1>8, <1>9, <1>10, EditKeeps

\* Going back looks at fewer steps.
LEMMA GoBackKeeps ==
    ASSUME CreationInv, NEW s \in 0..2, GoBack(s)
    PROVE  CreationInv'
<1> USE DEF CreationInv, WizardInv, GoBack
<1>1. step \in 0..3 /\ s < step /\ step' = s
  BY DEF CreationTypeOK, WizardTypeOK
<1>2. CreationTypeOK'
  <2>1. WizardTypeOK'
    BY <1>1 DEF CreationTypeOK, WizardTypeOK
  <2> QED BY <2>1 DEF CreationTypeOK, RecordsTypeOK
<1>3. RightBehind'
  BY <1>1 DEF RightBehind
<1>4. ErrorsFollowCriteria'
  <2>1. step # 0
    BY <1>1
  <2> QED BY <2>1 DEF ErrorsFollowCriteria
<1>5. CriterionErrorIsItsOwn' /\ OpenWizardIsCounted'
  BY DEF CriterionErrorIsItsOwn, OpenWizardIsCounted
<1>6. PostsInv'
  BY PostsEdited
<1> QED BY <1>2, <1>3, <1>4, <1>5, <1>6

-----------------------------------------------------------------------------
(* Validation and the POST. *)

\* What is shown beside the fields changes nothing of what is typed.
LEMMA ShownErrors ==
    ASSUME CreationInv, NEW s \in 0..3, ShowErrors(s)
    PROVE  /\ form' \in Form /\ Len(form'.criteria) = Len(form.criteria)
           /\ form'.filled = form.filled /\ form'.reward = form.reward
           /\ form'.deadline = form.deadline
           /\ \A i \in DOMAIN form'.criteria :
                i \in DOMAIN form.criteria /\ form'.criteria[i].text = form.criteria[i].text
           /\ fieldErrors' \subseteq FieldNames
           /\ criteriaErrors' \in Seq(BOOLEAN)
           /\ Len(criteriaErrors') = Len(form.criteria)
           /\ CriterionErrorIsItsOwn'
<1> DEFINE n == Len(form.criteria)
<1>1. /\ CreationTypeOK /\ form \in Form
      /\ n \in Nat /\ DOMAIN form.criteria = 1..n
  BY FormCriteria DEF CreationInv, WizardInv, CreationTypeOK, WizardTypeOK
<1>2. /\ form' = [form EXCEPT !.criteria = Refused(s)]
      /\ criteriaErrors' = CriteriaErrors(s) /\ fieldErrors' = FieldErrors(s)
  BY DEF ShowErrors
<1>3. /\ CriteriaErrors(s) \in [1..n -> BOOLEAN]
      /\ CriteriaErrors(s) \in Seq(BOOLEAN) /\ Len(CriteriaErrors(s)) = n
  <2>1. CriteriaErrors(s) \in [1..n -> BOOLEAN]
    BY <1>1 DEF CriteriaErrors
  <2> QED BY <2>1, <1>1
<1>4. \A i \in 1..n : /\ Refused(s)[i].text = form.criteria[i].text
                      /\ Refused(s)[i].refused = CriteriaErrors(s)[i]
  BY <1>1 DEF Refused
<1>5. Refused(s) \in Seq(Criterion) /\ Len(Refused(s)) = n
  <2>1. \A i \in 1..n : form.criteria[i].text \in BOOLEAN
    BY <1>1, FormCriteria DEF Criterion
  <2>2. Refused(s) \in [1..n -> Criterion]
    BY <1>1, <1>3, <2>1 DEF Refused, Criterion
  <2> QED BY <1>1, <2>2
<1>6. /\ form' \in Form /\ form'.criteria = Refused(s)
      /\ form'.filled = form.filled /\ form'.reward = form.reward
      /\ form'.deadline = form.deadline
  BY <1>1, <1>2, <1>5 DEF Form
<1>7. fieldErrors' \subseteq FieldNames
  BY <1>2 DEF FieldErrors, WrongFields, FieldNames
<1>8. CriterionErrorIsItsOwn'
  <2>1. DOMAIN criteriaErrors' = 1..n /\ DOMAIN form'.criteria = 1..n
    BY <1>1, <1>2, <1>3, <1>5, <1>6
  <2> QED BY <2>1, <1>2, <1>4, <1>6 DEF CriterionErrorIsItsOwn
<1>9. \A i \in DOMAIN form'.criteria :
          i \in DOMAIN form.criteria /\ form'.criteria[i].text = form.criteria[i].text
  BY <1>1, <1>4, <1>5, <1>6
<1> QED BY <1>2, <1>3, <1>5, <1>6, <1>7, <1>8, <1>9

\* A step without errors is right.
LEMMA NoErrors ==
    ASSUME CreationInv, NEW s \in 0..3, ~HasErrors(FieldErrors(s), CriteriaErrors(s))
    PROVE  /\ s \in {0, 3} => form.filled = TaskFields
           /\ s \in {1, 3} => \A i \in DOMAIN form.criteria : form.criteria[i].text
           /\ s \in {2, 3} => Parses(form.reward) /\ form.deadline > now
<1>1. /\ form.filled \subseteq TaskFields /\ form.deadline \in Nat /\ now \in Nat
  <2>1. form.filled \subseteq TaskFields /\ form.deadline \in Deadlines \cup {0}
    BY DEF CreationInv, WizardInv, CreationTypeOK, WizardTypeOK, Form
  <2>2. Deadlines \cup {0} \subseteq Nat
    BY CreationAssumption
  <2> QED BY <2>1, <2>2, PostRows DEF CreationInv, WizardInv
<1>2. FieldErrors(s) = {} /\ \A i \in DOMAIN form.criteria : ~CriteriaErrors(s)[i]
  BY DEF HasErrors, CriteriaErrors
<1>3. s \in {0, 3} => form.filled = TaskFields
  BY <1>1, <1>2 DEF FieldErrors, WrongFields, FieldsOf, FieldNames
<1>4. s \in {1, 3} => \A i \in DOMAIN form.criteria : form.criteria[i].text
  BY <1>2 DEF CriteriaErrors
<1>5. s \in {2, 3} => {"reward", "deadline"} \cap WrongFields = {}
  BY <1>2 DEF FieldErrors, FieldsOf, FieldNames
<1>6. s \in {2, 3} => Parses(form.reward) /\ ~(form.deadline <= now)
  BY <1>5 DEF WrongFields
<1> QED BY <1>1, <1>3, <1>4, <1>6

LEMMA ContinueKeeps == CreationInv /\ Continue => CreationInv'
<1> SUFFICES ASSUME CreationInv, Continue PROVE CreationInv'
  OBVIOUS
<1> USE DEF CreationInv, WizardInv
<1>1. /\ step \in 0..2 /\ ShowErrors(step) /\ route = "create"
      /\ UNCHANGED <<now, session, route, visit, submitting, posts, drafts, board>>
  BY DEF Continue, CreationTypeOK, WizardTypeOK
<1>2. /\ step' \in {step, step + 1}
      /\ step' # step => ~HasErrors(FieldErrors(step), CriteriaErrors(step))
  BY DEF Continue
<1>3. CreationTypeOK'
  <2>1. step' \in 0..3
    BY <1>1, <1>2
  <2>2. WizardTypeOK'
    BY <1>1, <2>1, ShownErrors DEF CreationTypeOK, WizardTypeOK
  <2> QED BY <1>1, <2>2 DEF CreationTypeOK, RecordsTypeOK
<1>4. RightBehind'
  <2>1. CASE step' = step
    BY <2>1, <1>1, ShownErrors DEF RightBehind
  <2>2. CASE step' # step
    BY <2>2, <1>1, <1>2, ShownErrors, NoErrors DEF RightBehind
  <2> QED BY <2>1, <2>2
<1>5. ErrorsFollowCriteria' /\ CriterionErrorIsItsOwn'
  BY <1>1, ShownErrors DEF ErrorsFollowCriteria
<1>6. OpenWizardIsCounted'
  BY <1>1 DEF OpenWizardIsCounted
<1>7. PostsInv'
  <2>1. ~submitting
    BY <1>1 DEF PostsInv, ReviewedIsCreated
  <2> QED BY <1>1, <2>1, PostsEdited
<1> QED BY <1>3, <1>4, <1>5, <1>6, <1>7

LEMMA RefuseFormKeeps == CreationInv /\ RefuseForm => CreationInv'
<1> SUFFICES ASSUME CreationInv, RefuseForm PROVE CreationInv'
  OBVIOUS
<1> USE DEF CreationInv, WizardInv
<1>1. /\ step = 3 /\ ShowErrors(3) /\ ~submitting
      /\ UNCHANGED <<now, session, route, visit, submitting, posts, drafts, board>>
  BY DEF RefuseForm, MaySubmit
<1>2. step' \in 0..2
  BY DEF RefuseForm, FirstStepWithErrors
<1>3. CreationTypeOK'
  <2>1. WizardTypeOK'
    BY <1>1, <1>2, ShownErrors DEF CreationTypeOK, WizardTypeOK
  <2> QED BY <1>1, <2>1 DEF CreationTypeOK, RecordsTypeOK
<1>4. RightBehind'
  BY <1>1, <1>2, ShownErrors DEF RightBehind
<1>5. ErrorsFollowCriteria' /\ CriterionErrorIsItsOwn'
  BY <1>1, ShownErrors DEF ErrorsFollowCriteria
<1>6. OpenWizardIsCounted'
  BY <1>1 DEF OpenWizardIsCounted
<1>7. PostsInv'
  BY <1>1, PostsEdited
<1> QED BY <1>3, <1>4, <1>5, <1>6, <1>7

\* The post appended is of the form on the page, and the only one under way there.
LEMMA SubmitFormKeeps == CreationInv /\ SubmitForm => CreationInv'
<1> SUFFICES ASSUME CreationInv, SubmitForm PROVE CreationInv'
  OBVIOUS
<1> DEFINE post == [visit |-> visit, form |-> form', client_wallet |-> session,
                    answer |-> "awaited", draft |-> 0]
           n == Len(posts) + 1
<1>1. /\ CreationTypeOK /\ WizardTypeOK /\ RecordsTypeOK /\ RightBehind
      /\ OpenWizardIsCounted /\ PostsInv
  BY DEF CreationInv, WizardInv, CreationTypeOK
<1>2. /\ step = 3 /\ ShowErrors(3) /\ ~submitting /\ submitting' = TRUE
      /\ route = "create" /\ session # None
      /\ ~HasErrors(FieldErrors(3), CriteriaErrors(3))
      /\ posts' = Append(posts, post) /\ visit + Len(posts) < MaxTurns
      /\ UNCHANGED <<now, session, route, visit, step, drafts, board>>
  BY DEF SubmitForm, MaySubmit
<1>3. /\ post \in Post /\ post.visit = visit /\ post.form = form'
      /\ post.answer = "awaited" /\ post.draft = 0
  <2>1. visit \in 1..MaxTurns /\ session \in Wallets
    BY <1>1, <1>2, PostRows, CreationAssumption
       DEF OpenWizardIsCounted, RecordsTypeOK, CreationTypeOK
  <2>2. form' \in Form
    BY <1>2, ShownErrors
  <2> QED BY <2>1, <2>2 DEF Post
<1> HIDE DEF post
<1>4. /\ posts' \in Seq(Post) /\ Len(posts') = n /\ posts'[n] = post
      /\ DOMAIN posts' = DOMAIN posts \cup {n} /\ n \notin DOMAIN posts
      /\ \A p \in DOMAIN posts : posts'[p] = posts[p] /\ p < n
  BY <1>1, <1>2, <1>3 DEF RecordsTypeOK
<1>5. CreationTypeOK'
  <2>1. WizardTypeOK'
    <3>1. submitting' \in BOOLEAN
      BY <1>2
    <3> QED BY <3>1, <1>1, <1>2, ShownErrors DEF WizardTypeOK
  <2>2. RecordsTypeOK'
    <3>1. visit' + Len(posts') <= MaxTurns /\ visit' \in 0..MaxTurns
      BY <1>1, <1>2, <1>4, CreationAssumption DEF RecordsTypeOK
    <3>2. \A p \in DOMAIN posts' : posts'[p].draft \in {0} \cup DOMAIN drafts
      BY <1>1, <1>3, <1>4 DEF RecordsTypeOK
    <3> QED BY <3>1, <3>2, <1>1, <1>2, <1>4 DEF RecordsTypeOK
  <2> QED BY <1>1, <1>2, <2>1, <2>2 DEF CreationTypeOK
<1>6. RightBehind'
  BY <1>1, <1>2, ShownErrors DEF RightBehind
<1>7. ErrorsFollowCriteria' /\ CriterionErrorIsItsOwn'
  BY <1>2, ShownErrors DEF ErrorsFollowCriteria
<1>8. OpenWizardIsCounted'
  BY <1>1, <1>2 DEF OpenWizardIsCounted
<1>9. PostsOfThePage'
  BY <1>1, <1>2, <1>3, <1>4, PostRows DEF PostsInv, PostsOfThePage
<1>10. OneAtATime'
  <2> SUFFICES ASSUME NEW p \in DOMAIN posts', NEW q \in DOMAIN posts',
                      p < q, posts'[p].visit = posts'[q].visit
               PROVE  posts'[p].answer = "error"
    BY DEF OneAtATime
  <2>1. p \in DOMAIN posts
    BY <1>1, <1>4, PostRows
  <2>2. CASE q \in DOMAIN posts
    BY <2>1, <2>2, <1>1, <1>4 DEF PostsInv, OneAtATime
  <2>3. CASE q = n
    <3>1. posts[p].visit = visit
      BY <2>1, <2>3, <1>3, <1>4
    <3>2. posts[p].answer \notin {"created", "awaited"}
      BY <2>1, <3>1, <1>1, <1>2 DEF PostsInv, PostsOfThePage
    <3> QED BY <2>1, <3>2, <1>1, <1>4, PostRows DEF Post
  <2> QED BY <2>2, <2>3, <1>4
<1>11. ReviewedIsCreated'
  BY <1>2, <1>3, <1>4 DEF ReviewedIsCreated
<1> QED
  BY <1>5, <1>6, <1>7, <1>8, <1>9, <1>10, <1>11 DEF CreationInv, WizardInv, PostsInv

\* The draft appended is the one its post names.
LEMMA StoreDraftKeeps ==
    ASSUME CreationInv, NEW p \in DOMAIN posts, StoreDraft(p)
    PROVE  CreationInv'
<1> DEFINE f == posts[p].form
           draft == [client_wallet |-> posts[p].client_wallet, reward |-> f.reward,
                     amount_stroops |-> xlmToStroops(f.reward),
                     deadline |-> f.deadline, created_at |-> now, status |-> "DRAFT"]
           n == Len(drafts) + 1
<1>1. /\ CreationTypeOK /\ RecordsTypeOK /\ PostsInv /\ WizardInv
      /\ posts[p] \in Post /\ posts \in Seq(Post)
  BY PostRows DEF CreationInv, WizardInv, CreationTypeOK
<1>2. /\ drafts' = Append(drafts, draft) /\ xlmToStroops(f.reward) \in 1..MAX_INTEGER
      /\ posts' = [posts EXCEPT ![p].draft = n]
      /\ UNCHANGED <<now, session, route, visit, wizardVars, board>>
  BY DEF StoreDraft
<1>3. draft \in Draft
  <2>1. f.deadline \in Nat /\ f.reward \in Rewards /\ now \in Nat
    BY <1>1, PostRows DEF Form
  <2> QED BY <1>1, <1>2, <2>1 DEF Post, Draft
<1> HIDE DEF draft
<1>4. /\ drafts' \in Seq(Draft) /\ n \in Nat /\ drafts'[n] = draft
      /\ DOMAIN drafts' = DOMAIN drafts \cup {n} /\ n \notin DOMAIN drafts
      /\ \A d \in DOMAIN drafts : drafts'[d] = drafts[d]
  BY <1>1, <1>2, <1>3 DEF RecordsTypeOK
<1>5. /\ posts' \in Seq(Post) /\ Len(posts') = Len(posts) /\ DOMAIN posts' = DOMAIN posts
      /\ \A q \in DOMAIN posts :
            /\ posts'[q].visit = posts[q].visit /\ posts'[q].form = posts[q].form
            /\ posts'[q].answer = posts[q].answer
            /\ posts'[q].draft = IF q = p THEN n ELSE posts[q].draft
  <2> DEFINE stored == [posts[p] EXCEPT !.draft = n]
  <2>1. /\ stored \in Post /\ stored.visit = posts[p].visit /\ stored.form = f
        /\ stored.answer = posts[p].answer
        /\ stored.draft = n
    BY <1>1, <1>4 DEF Post
  <2>2. posts' = [posts EXCEPT ![p] = stored]
    BY <1>1, <1>2
  <2> HIDE DEF stored
  <2> QED BY <1>1, <2>1, <2>2
<1>6. CreationTypeOK'
  <2>1. \A q \in DOMAIN posts' : posts'[q].draft \in {0} \cup DOMAIN drafts'
    BY <1>1, <1>4, <1>5 DEF RecordsTypeOK
  <2>2. RecordsTypeOK'
    BY <2>1, <1>1, <1>2, <1>4, <1>5 DEF RecordsTypeOK
  <2> QED BY <1>1, <1>2, <2>2 DEF CreationTypeOK, WizardTypeOK, wizardVars
<1>7. WizardInv'
  BY <1>1, <1>2, <1>6, WizardKept DEF WizardInv, OpenWizardIsCounted, wizardVars
<1>8. PostsOfThePage' /\ OneAtATime'
  BY <1>1, <1>2, <1>5 DEF PostsInv, PostsOfThePage, OneAtATime, wizardVars
<1>9. ReviewedIsCreated'
  BY <1>1, <1>2, <1>5 DEF PostsInv, ReviewedIsCreated, wizardVars
<1> QED BY <1>7, <1>8, <1>9 DEF CreationInv, PostsInv

\* An answer changes nothing of a post but what was heard of it.
LEMMA AnsweredPosts ==
    ASSUME CreationInv, NEW p \in DOMAIN posts, NEW answer \in {"created", "error"},
           posts' = [posts EXCEPT ![p].answer = answer]
    PROVE  /\ posts' \in Seq(Post) /\ Len(posts') = Len(posts) /\ DOMAIN posts' = DOMAIN posts
           /\ \A q \in DOMAIN posts :
                /\ posts'[q].visit = posts[q].visit /\ posts'[q].form = posts[q].form
                /\ posts'[q].draft = posts[q].draft
                /\ posts'[q].answer = IF q = p THEN answer ELSE posts[q].answer
<1> DEFINE answered == [posts[p] EXCEPT !.answer = answer]
<1>1. posts \in Seq(Post) /\ posts[p] \in Post
  BY PostRows DEF CreationInv, WizardInv
<1>2. /\ answered \in Post /\ answered.visit = posts[p].visit
      /\ answered.form = posts[p].form
      /\ answered.draft = posts[p].draft /\ answered.answer = answer
  BY <1>1 DEF Post
<1>3. posts' = [posts EXCEPT ![p] = answered]
  BY <1>1
<1> HIDE DEF answered
<1> QED BY <1>1, <1>2, <1>3

\* The page is left for the new task, wherever the user is.
LEMMA HearCreatedKeeps ==
    ASSUME CreationInv, NEW p \in DOMAIN posts, HearCreated(p)
    PROVE  CreationInv'
<1>1. CreationTypeOK /\ RecordsTypeOK /\ PostsInv
  BY DEF CreationInv, WizardInv, CreationTypeOK
<1>2. /\ posts[p].answer = "awaited" /\ posts' = [posts EXCEPT ![p].answer = "created"]
      /\ route' = "task" /\ board' = NoBoard /\ ResetWizard
      /\ UNCHANGED <<now, session, visit, drafts>>
  BY DEF HearCreated
<1>3. WizardTypeOK' /\ ~submitting'
  BY <1>2, WizardReset DEF ResetWizard
<1>4. CreationTypeOK'
  <2>1. RecordsTypeOK'
    BY <1>1, <1>2, AnsweredPosts DEF RecordsTypeOK
  <2> QED BY <2>1, <1>1, <1>2, <1>3, BoardsWithout DEF CreationTypeOK
<1>5. WizardInv'
  BY <1>2, <1>3, <1>4, WizardReset DEF OpenWizardIsCounted
<1>6. PostsOfThePage'
  BY <1>1, <1>2, AnsweredPosts DEF PostsInv, PostsOfThePage
<1>7. OneAtATime'
  BY <1>1, <1>2, AnsweredPosts DEF PostsInv, OneAtATime
<1>8. ReviewedIsCreated'
  BY <1>3 DEF ReviewedIsCreated
<1> QED BY <1>5, <1>6, <1>7, <1>8 DEF CreationInv, PostsInv

\* The error of a wizard that is gone changes nothing on the page.
LEMMA HearErrorKeeps ==
    ASSUME CreationInv, NEW p \in DOMAIN posts, HearError(p)
    PROVE  CreationInv'
<1>1. /\ CreationTypeOK /\ RecordsTypeOK /\ WizardTypeOK /\ WizardInv /\ PostsInv
  BY DEF CreationInv, WizardInv, CreationTypeOK
<1>2. /\ posts[p].answer = "awaited" /\ posts' = [posts EXCEPT ![p].answer = "error"]
      /\ UNCHANGED <<now, session, route, visit, step, form, fieldErrors, criteriaErrors,
                     drafts, board>>
  BY DEF HearError
<1>3. submitting' = IF OnPage(p) THEN FALSE ELSE submitting
  BY DEF HearError
<1>4. CreationTypeOK'
  <2>1. RecordsTypeOK'
    BY <1>1, <1>2, AnsweredPosts DEF RecordsTypeOK
  <2>2. submitting' \in BOOLEAN
    BY <1>1, <1>3 DEF WizardTypeOK
  <2>3. WizardTypeOK'
    BY <1>1, <1>2, <2>2 DEF WizardTypeOK
  <2> QED BY <2>1, <2>3, <1>1, <1>2 DEF CreationTypeOK
<1>5. WizardInv'
  <2>1. OpenWizardIsCounted'
    BY <1>1, <1>2, <1>3 DEF WizardInv, OpenWizardIsCounted
  <2> QED
    BY <1>1, <1>2, <1>4, <2>1
       DEF WizardInv, RightBehind, ErrorsFollowCriteria, CriterionErrorIsItsOwn
<1>6. OneAtATime'
  BY <1>1, <1>2, AnsweredPosts DEF PostsInv, OneAtATime
<1>7. PostsOfThePage' /\ ReviewedIsCreated'
  <2>1. CASE OnPage(p)
    <3>1. \A q \in DOMAIN posts \ {p} :
              posts[q].visit = visit => posts[q].answer # "awaited"
      <4> TAKE q \in DOMAIN posts \ {p}
      <4> HAVE posts[q].visit = visit
      <4>1. p < q \/ q < p
        BY <1>1, PostRows
      <4>2. posts[p].visit = posts[q].visit
        BY <2>1 DEF OnPage
      <4> QED BY <4>1, <4>2, <1>1, <1>2 DEF PostsInv, OneAtATime
    <3>2. ~submitting'
      BY <1>3, <2>1
    <3> QED
      BY <3>1, <3>2, <1>1, <1>2, AnsweredPosts
         DEF PostsInv, PostsOfThePage, ReviewedIsCreated
  <2>2. CASE ~OnPage(p)
    <3>1. submitting' = submitting
      BY <1>3, <2>2
    <3>2. PostsOfThePage'
      BY <3>1, <1>1, <1>2, AnsweredPosts DEF PostsInv, PostsOfThePage
    <3>3. ReviewedIsCreated'
      BY <3>1, <2>2, <1>1, <1>2, AnsweredPosts
         DEF PostsInv, ReviewedIsCreated, OnPage, WizardInv, OpenWizardIsCounted
    <3> QED BY <3>2, <3>3
  <2> QED BY <2>1, <2>2
<1> QED BY <1>5, <1>6, <1>7 DEF CreationInv, PostsInv

LEMMA FundDraftKeeps ==
    ASSUME CreationInv, NEW d \in DOMAIN drafts, FundDraft(d)
    PROVE  CreationInv'
<1> DEFINE funded == [drafts[d] EXCEPT !.status = "OPEN_FUNDED"]
<1>1. CreationTypeOK /\ RecordsTypeOK /\ PostsInv /\ WizardInv /\ drafts[d] \in Draft
  BY DEF CreationInv, WizardInv, CreationTypeOK, RecordsTypeOK
<1>2. /\ drafts' = [drafts EXCEPT ![d] = funded]
      /\ UNCHANGED <<now, session, route, visit, wizardVars, posts, board>>
  BY <1>1 DEF FundDraft
<1>3. funded \in Draft
  BY <1>1 DEF Draft
<1> HIDE DEF funded
<1>4. drafts' \in Seq(Draft) /\ DOMAIN drafts' = DOMAIN drafts
  BY <1>1, <1>2, <1>3 DEF RecordsTypeOK
<1>5. CreationTypeOK'
  BY <1>1, <1>2, <1>4 DEF CreationTypeOK, WizardTypeOK, RecordsTypeOK, wizardVars
<1>6. WizardInv'
  BY <1>1, <1>2, <1>5, WizardKept DEF WizardInv, OpenWizardIsCounted, wizardVars
<1>7. PostsInv'
  BY <1>1, <1>2, PostsKept DEF wizardVars
<1> QED BY <1>6, <1>7 DEF CreationInv

-----------------------------------------------------------------------------
LEMMA CreationStep == CreationInv /\ [CreationNext]_vars => CreationInv'
<1> SUFFICES ASSUME CreationInv, [CreationNext]_vars PROVE CreationInv'
  OBVIOUS
<1>1. CASE OpenMarketplace \/ OpenWizard
  BY <1>1, OpenMarketplaceKeeps, OpenWizardKeeps
<1>2. CASE EditTask \/ EditReward \/ addCriterion
  BY <1>2, EditTaskKeeps, EditRewardKeeps, AddCriterionKeeps
<1>3. CASE \E i \in DOMAIN form.criteria : updateCriterion(i) \/ removeCriterion(i)
  BY <1>3, UpdateCriterionKeeps, RemoveCriterionKeeps
<1>4. CASE \E s \in 0..2 : GoBack(s)
  BY <1>4, GoBackKeeps
<1>5. CASE Continue \/ RefuseForm \/ SubmitForm
  BY <1>5, ContinueKeeps, RefuseFormKeeps, SubmitFormKeeps
<1>6. CASE \E p \in DOMAIN posts : StoreDraft(p) \/ HearCreated(p) \/ HearError(p)
  BY <1>6, StoreDraftKeeps, HearCreatedKeeps, HearErrorKeeps
<1>7. CASE LoadBoard \/ ReloadBoard \/ SwitchSession \/ PassTime
  BY <1>7, ElsewhereKeeps
<1>8. CASE \E d \in DOMAIN drafts : FundDraft(d)
  BY <1>8, FundDraftKeeps
<1>9. CASE UNCHANGED vars
  <2>1. CreationTypeOK' /\ OpenWizardIsCounted'
    BY <1>9 DEF vars, wizardVars, CreationInv, WizardInv, CreationTypeOK, WizardTypeOK,
                RecordsTypeOK, OpenWizardIsCounted
  <2> QED
    BY <1>9, <2>1, WizardKept, PostsKept DEF vars, wizardVars, CreationInv, WizardInv
<1> QED
  BY <1>1, <1>2, <1>3, <1>4, <1>5, <1>6, <1>7, <1>8, <1>9 DEF CreationNext, Answer

THEOREM CreationIsInvariant == CreationSpec => []CreationInv
<1> QED BY InitialCreation, CreationStep, PTL DEF CreationSpec

\* Every reachable state of wizard, posts, database and board is well typed.
THEOREM CreationTypeCorrect == CreationSpec => []CreationTypeOK
<1>1. CreationInv => CreationTypeOK
  BY DEF CreationInv, WizardInv
<1> QED BY <1>1, CreationIsInvariant, PTL

\* Whatever way the user goes through the wizard, and however many criteria there
\* are, the steps behind are right, but for a deadline that has passed.
THEOREM NothingWrongBehind == CreationSpec => []StepsBehindAreRight
<1>1. ASSUME CreationInv, NEW s \in 0..(step - 1)
      PROVE  FieldErrors(s) \subseteq {"deadline"} /\ ~HasErrors({}, CriteriaErrors(s))
  <2>1. step \in 0..3 /\ RightBehind /\ form.filled = TaskFields
    BY <1>1 DEF CreationInv, WizardInv, CreationTypeOK, WizardTypeOK, RightBehind
  <2>2. s \in {0, 1, 2} /\ s < step
    BY <2>1
  <2>3. s = 2 => Parses(form.reward)
    BY <2>1, <2>2 DEF RightBehind
  <2>4. FieldErrors(s) \subseteq {"deadline"}
    <3>1. WrongFields \subseteq {"reward", "deadline"} /\ (s = 2 => "reward" \notin WrongFields)
      BY <2>1, <2>3, CreationAssumption DEF WrongFields
    <3>2. s = 0 => FieldsOf(s) \cap {"reward", "deadline"} = {}
      BY CreationAssumption DEF FieldsOf
    <3>3. s = 1 => FieldsOf(s) = {}
      BY DEF FieldsOf
    <3>4. CASE s \in {0, 1}
      BY <3>1, <3>2, <3>3, <3>4 DEF FieldErrors
    <3>5. CASE s = 2
      BY <3>1, <3>5 DEF FieldErrors
    <3> QED BY <2>2, <3>4, <3>5
  <2>5. s = 1 => \A i \in DOMAIN form.criteria : form.criteria[i].text
    BY <2>1, <2>2 DEF RightBehind
  <2>6. ~HasErrors({}, CriteriaErrors(s))
    <3>1. s # 3
      BY <2>2
    <3>2. \A i \in DOMAIN form.criteria : ~(s \in {1, 3} /\ ~form.criteria[i].text)
      BY <3>1, <2>5
    <3>3. DOMAIN CriteriaErrors(s) = DOMAIN form.criteria
      BY DEF CriteriaErrors
    <3>4. \A i \in DOMAIN form.criteria : ~CriteriaErrors(s)[i]
      BY <3>2 DEF CriteriaErrors
    <3> QED BY <3>3, <3>4 DEF HasErrors
  <2> QED BY <2>4, <2>6
<1>2. CreationInv => StepsBehindAreRight
  BY <1>1 DEF StepsBehindAreRight
<1> QED BY <1>2, CreationIsInvariant, PTL

\* For any number of criteria, added and removed in any order, an error stands
\* beside the criterion it was found in.
THEOREM ErrorsKeepTheirCriterion == CreationSpec => []CriterionErrorIsItsOwn
<1>1. CreationInv => CriterionErrorIsItsOwn
  BY DEF CreationInv, WizardInv
<1> QED BY <1>1, CreationIsInvariant, PTL

\* The review on the screen is what is being created, whatever posts of earlier
\* visits are answered meanwhile.
THEOREM ReviewIsLocked == CreationSpec => []ReviewedIsCreated
<1>1. CreationInv => ReviewedIsCreated
  BY DEF CreationInv, PostsInv
<1> QED BY <1>1, CreationIsInvariant, PTL

\* A wizard makes a second task only after it was told that the first attempt had
\* failed, for any number of visits and posts.
THEOREM OneDraftPerAnswer == CreationSpec => []NoSecondDraft
<1>1. CreationInv => NoSecondDraft
  BY DEF CreationInv, PostsInv, OneAtATime, NoSecondDraft
<1> QED BY <1>1, CreationIsInvariant, PTL

-----------------------------------------------------------------------------
(* The board.  A task can be paid for only before its deadline, so not at all if *)
(* it was stored too late, and what a board shows was paid for.                 *)
PaidInTime ==
    /\ \A d \in DOMAIN drafts :
            /\ drafts[d].created_at <= now
            /\ drafts[d].status = "OPEN_FUNDED" => drafts[d].created_at < drafts[d].deadline
    /\ board.result.bounties \subseteq list_bounties

LEMMA PaidInTimeStep ==
    ASSUME CreationInv, PaidInTime, [CreationNext]_vars
    PROVE  PaidInTime'
<1>1. /\ drafts \in Seq(Draft) /\ now \in Nat /\ board \in Board
      /\ \A d \in DOMAIN drafts : drafts[d] \in Draft
  BY PostRows DEF CreationInv, WizardInv, CreationTypeOK, RecordsTypeOK
<1>2. CASE UNCHANGED <<now, drafts>> /\ board'.result.bounties \subseteq list_bounties
  BY <1>2 DEF PaidInTime, list_bounties
<1>3. CASE UNCHANGED <<now, drafts, board>>
  BY <1>2, <1>3 DEF PaidInTime
<1>4. CASE UNCHANGED <<now, drafts>> /\ board' \in {NoBoard, LoadEffect(NoBoard)}
  <2>1. board'.result.bounties = {}
    BY <1>4 DEF NoBoard, LoadEffect
  <2> QED BY <1>2, <1>4, <2>1
<1>5. CASE ReloadBoard
  <2>1. UNCHANGED <<now, drafts>> /\ board'.result = board.result
    BY <1>1, <1>5 DEF ReloadBoard, LoadEffect, Board
  <2> QED BY <1>2, <2>1 DEF PaidInTime
<1>6. CASE LoadBoard
  <2>1. /\ UNCHANGED <<now, drafts>>
        /\ \E token, state : board' = [board EXCEPT
              !.asked = @ \ {token},
              !.result = [token |-> token, state |-> state,
                          bounties |-> IF state = "ready" THEN list_bounties ELSE {}]]
    BY <1>6 DEF LoadBoard
  <2>2. board'.result.bounties \subseteq list_bounties
    BY <1>1, <2>1 DEF Board
  <2> QED BY <1>2, <2>1, <2>2
<1>7. CASE PassTime
  <2>1. now' = now + 1 /\ UNCHANGED <<drafts, board>>
    BY <1>7 DEF PassTime
  <2>2. \A d \in DOMAIN drafts : drafts[d].created_at \in Nat
    BY <1>1 DEF Draft
  <2> QED BY <1>1, <2>1, <2>2 DEF PaidInTime, list_bounties
<1>8. ASSUME NEW p \in DOMAIN posts, StoreDraft(p)
      PROVE  PaidInTime'
  <2> DEFINE draft == [client_wallet |-> posts[p].client_wallet,
                       reward |-> posts[p].form.reward,
                       amount_stroops |-> xlmToStroops(posts[p].form.reward),
                       deadline |-> posts[p].form.deadline, created_at |-> now,
                       status |-> "DRAFT"]
             n == Len(drafts) + 1
  <2>1. drafts' = Append(drafts, draft) /\ UNCHANGED <<now, board>>
    BY <1>8 DEF StoreDraft
  <2>2. draft.created_at = now /\ draft.status = "DRAFT"
    OBVIOUS
  <2> HIDE DEF draft
  <2>3. /\ DOMAIN drafts' = DOMAIN drafts \cup {n} /\ drafts'[n] = draft
        /\ \A d \in DOMAIN drafts : drafts'[d] = drafts[d]
    BY <1>1, <2>1
  <2>4. list_bounties \subseteq list_bounties'
    BY <2>3 DEF list_bounties
  <2>5. \A d \in DOMAIN drafts' :
            /\ drafts'[d].created_at <= now
            /\ drafts'[d].status = "OPEN_FUNDED" => drafts'[d].created_at < drafts'[d].deadline
    BY <1>1, <2>2, <2>3 DEF PaidInTime
  <2> QED BY <2>1, <2>4, <2>5 DEF PaidInTime
<1>9. ASSUME NEW d \in DOMAIN drafts, FundDraft(d)
      PROVE  PaidInTime'
  <2> DEFINE funded == [drafts[d] EXCEPT !.status = "OPEN_FUNDED"]
  <2>1. /\ drafts' = [drafts EXCEPT ![d] = funded] /\ drafts[d].deadline > now
        /\ UNCHANGED <<now, board>>
    BY <1>1, <1>9 DEF FundDraft
  <2>2. /\ funded.created_at = drafts[d].created_at /\ funded.deadline = drafts[d].deadline
        /\ funded.status = "OPEN_FUNDED"
        /\ drafts[d].created_at \in Nat /\ drafts[d].deadline \in Nat
    BY <1>1 DEF Draft
  <2> HIDE DEF funded
  <2>3. /\ DOMAIN drafts' = DOMAIN drafts /\ drafts'[d] = funded
        /\ \A e \in DOMAIN drafts \ {d} : drafts'[e] = drafts[e]
    BY <1>1, <2>1
  <2>4. list_bounties \subseteq list_bounties'
    BY <2>2, <2>3 DEF list_bounties
  <2>5. drafts[d].created_at < drafts[d].deadline
    BY <1>1, <2>1, <2>2 DEF PaidInTime
  <2>6. \A e \in DOMAIN drafts' :
            /\ drafts'[e].created_at <= now
            /\ drafts'[e].status = "OPEN_FUNDED" => drafts'[e].created_at < drafts'[e].deadline
    BY <2>2, <2>3, <2>5 DEF PaidInTime
  <2> QED BY <2>1, <2>4, <2>6 DEF PaidInTime
<1>10. CASE OpenMarketplace \/ OpenWizard \/ \E p \in DOMAIN posts : HearCreated(p)
  BY <1>4, <1>10 DEF OpenMarketplace, OpenWizard, HearCreated
<1>11. CASE \/ EditTask \/ EditReward \/ addCriterion
            \/ \E i \in DOMAIN form.criteria : updateCriterion(i) \/ removeCriterion(i)
  BY <1>3, <1>11 DEF EditTask, EditReward, addCriterion, updateCriterion, removeCriterion, Edit
<1>12. CASE \/ \E s \in 0..2 : GoBack(s)
            \/ Continue \/ RefuseForm \/ SubmitForm \/ SwitchSession
            \/ \E p \in DOMAIN posts : HearError(p)
  BY <1>3, <1>12 DEF GoBack, Continue, RefuseForm, SubmitForm, SwitchSession, HearError
<1>13. CASE UNCHANGED vars
  BY <1>3, <1>13 DEF vars
<1> QED
  BY <1>5, <1>6, <1>7, <1>8, <1>9, <1>10, <1>11, <1>12, <1>13 DEF CreationNext, Answer

\* However late a POST reaches the database: a task stored at or after its deadline
\* never comes to anybody's board.
THEOREM LateDraftsStayOffTheBoard == CreationSpec => []LateDraftsAreNotListed
<1>1. CreationInit => PaidInTime
  BY DEF CreationInit, PaidInTime, NoBoard, LoadEffect
<1>2. CreationSpec => []PaidInTime
  BY <1>1, PaidInTimeStep, CreationIsInvariant, PTL DEF CreationSpec
<1>3. PaidInTime => LateDraftsAreNotListed
  BY DEF PaidInTime, list_bounties, shownBounties, LateDraftsAreNotListed
<1> QED BY <1>2, <1>3, PTL

-----------------------------------------------------------------------------
(* The rewards.  Every reward that was sent or stored is one that can be read. *)
RewardsRead ==
    /\ \A p \in DOMAIN posts : Parses(posts[p].form.reward)
    /\ \A d \in DOMAIN drafts :
            /\ Parses(drafts[d].reward)
            /\ drafts[d].amount_stroops = xlmToStroops(drafts[d].reward)

\* What happens between the form and the row leaves the reward as it is.
LEMMA RewardsStep ==
    ASSUME CreationInv, RewardsRead, [CreationNext]_vars
    PROVE  RewardsRead'
<1>1. /\ posts \in Seq(Post) /\ drafts \in Seq(Draft) /\ \A p \in DOMAIN posts : posts[p] \in Post
      /\ \A d \in DOMAIN drafts : drafts[d] \in Draft
  BY DEF CreationInv, WizardInv, CreationTypeOK, RecordsTypeOK
<1>2. CASE UNCHANGED <<posts, drafts>>
  BY <1>2 DEF RewardsRead
<1>3. CASE SubmitForm
  <2> DEFINE post == [visit |-> visit, form |-> form', client_wallet |-> session,
                      answer |-> "awaited", draft |-> 0]
  <2>1. posts' = Append(posts, post) /\ drafts' = drafts /\ post.form = form'
    BY <1>3 DEF SubmitForm
  <2>2. form'.reward = form.reward
    <3>1. form \in Form /\ form' = [form EXCEPT !.criteria = Refused(3)]
      BY <1>3 DEF SubmitForm, ShowErrors, CreationInv, WizardInv, CreationTypeOK, WizardTypeOK
    <3> QED BY <3>1 DEF Form
  <2>3. Parses(form.reward)
    BY <1>3, NoErrors DEF SubmitForm
  <2> HIDE DEF post
  <2>4. /\ DOMAIN posts' = DOMAIN posts \cup {Len(posts) + 1} /\ posts'[Len(posts) + 1] = post
        /\ \A p \in DOMAIN posts : posts'[p] = posts[p]
    BY <1>1, <2>1
  <2> QED BY <2>1, <2>2, <2>3, <2>4 DEF RewardsRead
<1>4. ASSUME NEW p \in DOMAIN posts, StoreDraft(p)
      PROVE  RewardsRead'
  <2> DEFINE f == posts[p].form
             draft == [client_wallet |-> posts[p].client_wallet, reward |-> f.reward,
                       amount_stroops |-> xlmToStroops(f.reward),
                       deadline |-> f.deadline, created_at |-> now, status |-> "DRAFT"]
             n == Len(drafts) + 1
  <2>1. drafts' = Append(drafts, draft) /\ posts' = [posts EXCEPT ![p].draft = n]
    BY <1>4 DEF StoreDraft
  <2>2. DOMAIN posts' = DOMAIN posts /\ \A q \in DOMAIN posts : posts'[q].form = posts[q].form
    BY <1>1, <2>1 DEF Post
  <2>3. draft.reward = f.reward /\ draft.amount_stroops = xlmToStroops(f.reward)
    OBVIOUS
  <2> HIDE DEF draft
  <2>4. /\ DOMAIN drafts' = DOMAIN drafts \cup {n} /\ drafts'[n] = draft
        /\ \A d \in DOMAIN drafts : drafts'[d] = drafts[d]
    BY <1>1, <2>1
  <2> QED BY <2>2, <2>3, <2>4 DEF RewardsRead
<1>5. ASSUME NEW p \in DOMAIN posts, HearCreated(p) \/ HearError(p)
      PROVE  RewardsRead'
  <2>1. /\ drafts' = drafts
        /\ \E answer \in {"created", "error"} : posts' = [posts EXCEPT ![p].answer = answer]
    BY <1>5 DEF HearCreated, HearError
  <2>2. DOMAIN posts' = DOMAIN posts /\ \A q \in DOMAIN posts : posts'[q].form = posts[q].form
    BY <2>1, AnsweredPosts
  <2> QED BY <2>1, <2>2 DEF RewardsRead
<1>6. ASSUME NEW d \in DOMAIN drafts, FundDraft(d)
      PROVE  RewardsRead'
  <2>1. posts' = posts /\ drafts' = [drafts EXCEPT ![d].status = "OPEN_FUNDED"]
    BY <1>6 DEF FundDraft
  <2>2. /\ DOMAIN drafts' = DOMAIN drafts
        /\ \A e \in DOMAIN drafts : /\ drafts'[e].reward = drafts[e].reward
                                    /\ drafts'[e].amount_stroops = drafts[e].amount_stroops
    BY <1>1, <2>1 DEF Draft
  <2> QED BY <2>1, <2>2 DEF RewardsRead
<1>7. CASE \/ OpenMarketplace \/ OpenWizard \/ ReloadBoard \/ LoadBoard
           \/ SwitchSession \/ PassTime
  BY <1>2, <1>7 DEF OpenMarketplace, OpenWizard, ReloadBoard, LoadBoard, SwitchSession, PassTime
<1>8. CASE EditTask \/ EditReward \/ addCriterion
  BY <1>2, <1>8 DEF EditTask, EditReward, addCriterion, Edit
<1>9. CASE \E i \in DOMAIN form.criteria : updateCriterion(i) \/ removeCriterion(i)
  BY <1>2, <1>9 DEF updateCriterion, removeCriterion, Edit
<1>10. CASE (\E s \in 0..2 : GoBack(s)) \/ Continue \/ RefuseForm
  BY <1>2, <1>10 DEF GoBack, Continue, RefuseForm
<1>11. CASE UNCHANGED vars
  BY <1>2, <1>11 DEF vars
<1> QED
  BY <1>3, <1>4, <1>5, <1>6, <1>7, <1>8, <1>9, <1>10, <1>11 DEF CreationNext, Answer

\* For any number of decimals and any rewards that may be typed: the stroops in the
\* row are the amount the text said, and the page shows just that amount.
THEOREM RewardsAreExact == CreationSpec => []StoredRewardIsExact
<1>1. CreationInit => RewardsRead
  BY DEF CreationInit, RewardsRead
<1>2. CreationSpec => []RewardsRead
  BY <1>1, RewardsStep, CreationIsInvariant, PTL DEF CreationSpec
<1>3. ASSUME CreationInv, RewardsRead
      PROVE  StoredRewardIsExact
  <2> SUFFICES ASSUME NEW d \in DOMAIN drafts
               PROVE  /\ drafts[d].amount_stroops = Denoted(drafts[d].reward)
                      /\ Denoted(formatXlm(drafts[d].amount_stroops)) = drafts[d].amount_stroops
    BY DEF StoredRewardIsExact
  <2>1. drafts[d] \in Draft
    BY <1>3 DEF CreationInv, WizardInv, CreationTypeOK, RecordsTypeOK
  <2>2. drafts[d].reward \in Text /\ drafts[d].amount_stroops \in Nat
    BY <2>1, CreationAssumption DEF Draft
  <2>3. Parses(drafts[d].reward) /\ drafts[d].amount_stroops = xlmToStroops(drafts[d].reward)
    BY <1>3 DEF RewardsRead
  <2>4. drafts[d].amount_stroops = Denoted(drafts[d].reward)
    BY <2>2, <2>3, ReadAsWritten DEF Parses
  <2> QED BY <2>2, <2>4, WrittenAsStored
<1> QED BY <1>2, <1>3, CreationIsInvariant, PTL
=============================================================================
