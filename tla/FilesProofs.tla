----------------------------- MODULE FilesProofs -----------------------------
(***************************************************************************)
(* Theorems about the file calls, for every archive, every number of       *)
(* processes and every size of the descriptor table.                       *)
(***************************************************************************)
EXTENDS Loader, Induction, FiniteSetTheorems

-----------------------------------------------------------------------------
(* Sizes: oct_to_dec reads what tar wrote. *)

\* Halves of the exponents.
LEMMA Halves ==
    /\ 1 \div 2 = 0 /\ 2 \div 2 = 1 /\ 3 \div 2 = 1 /\ 4 \div 2 = 2 /\ 5 \div 2 = 2
    /\ 6 \div 2 = 3 /\ 7 \div 2 = 3 /\ 8 \div 2 = 4 /\ 9 \div 2 = 4 /\ 10 \div 2 = 5
    /\ 1 % 2 = 1 /\ 2 % 2 = 0 /\ 3 % 2 = 1 /\ 4 % 2 = 0 /\ 5 % 2 = 1
    /\ 6 % 2 = 0 /\ 7 % 2 = 1 /\ 8 % 2 = 0 /\ 9 % 2 = 1 /\ 10 % 2 = 0
  OBVIOUS

\* Squaring halves of the exponent, as power does, gives the powers of eight.
LEMMA Power8 ==
    /\ power8[0] = 1
    /\ \A i \in 1..10 : power8[i] = 8 * power8[i - 1]
    /\ \A i \in 0..10 : power8[i] \in Nat
<1> DEFINE G == [x \in Nat \X (1..10) |-> 8 * x[1]]
           Half(f, i) == IF i % 2 = 0 THEN f[i \div 2] * f[i \div 2] ELSE 8 * f[i \div 2] * f[i \div 2]
           Is(f) == f = [i \in 0..10 |-> IF i = 0 THEN 1
                                         ELSE IF i % 2 = 0 THEN f[i \div 2] * f[i \div 2]
                                         ELSE 8 * f[i \div 2] * f[i \div 2]]
<1>1. PICK f : Solution(f, 10, 1, G)
  <2>1. G \in [Nat \X (1..10) -> Nat] /\ 1 \in Nat /\ 10 \in Nat
    OBVIOUS
  <2> HIDE DEF G
  <2> QED
    BY <2>1, RecursionOnInterval
<1>2. \A k \in 0..10 : f[k] \in Nat
  <2>1. f[0] \in Nat /\ \A k \in 1..10 : f[k - 1] \in Nat => f[k] \in Nat
    BY <1>1 DEF Solution
  <2> QED
    BY <2>1, StaysIn
<1>3. f[0] = 1 /\ \A k \in 1..10 : f[k] = 8 * f[k - 1]
  <2>1. \A k \in 1..10 : G[<<f[k - 1], k>>] = 8 * f[k - 1]
    BY <1>2
  <2> HIDE DEF G
  <2> QED
    BY <1>1, <2>1 DEF Solution
<1>4. f = [k \in 0..10 |-> f[k]]
  BY <1>1 DEF Solution
<1>5. \A i \in 1..10 : f[i] = Half(f, i)
  <2>1. /\ f[1] = 8 * f[0] /\ f[2] = 8 * f[1] /\ f[3] = 8 * f[2] /\ f[4] = 8 * f[3] /\ f[5] = 8 * f[4]
        /\ f[6] = 8 * f[5] /\ f[7] = 8 * f[6] /\ f[8] = 8 * f[7] /\ f[9] = 8 * f[8] /\ f[10] = 8 * f[9]
    BY <1>3
  <2>2. f[1] = 8 /\ f[2] = 64 /\ f[3] = 512 /\ f[4] = 4096 /\ f[5] = 32768
    BY <1>3, <2>1
  <2>3. f[6] = 512 * 512 /\ f[7] = 8 * (512 * 512)
    BY <2>1, <2>2
  <2>4. f[8] = 4096 * 4096 /\ f[9] = 8 * (4096 * 4096) /\ f[10] = 32768 * 32768
    BY <2>1, <2>3
  <2>5. /\ Half(f, 1) = f[1] /\ Half(f, 2) = f[2] /\ Half(f, 3) = f[3] /\ Half(f, 4) = f[4]
        /\ Half(f, 5) = f[5] /\ Half(f, 6) = f[6] /\ Half(f, 7) = f[7] /\ Half(f, 8) = f[8]
        /\ Half(f, 9) = f[9] /\ Half(f, 10) = f[10]
    BY <1>3, <2>2, <2>3, <2>4, Halves
  <2> HIDE DEF Half
  <2> QED
    BY <2>5
<1>6. Is(f)
  <2>1. \A k \in 0..10 : f[k] = IF k = 0 THEN 1 ELSE Half(f, k)
    <3> HIDE DEF Half
    <3> QED
      BY <1>3, <1>5
  <2> QED
    BY <1>4, <2>1
<1>7. power8 = CHOOSE g : Is(g)
  BY DEF power8
<1>8. Is(power8)
  <2> HIDE DEF Is
  <2> QED
    BY <1>6, <1>7
<1>9. power8[0] = 1 /\ \A i \in 1..10 : power8[i] = Half(power8, i)
  BY <1>8
<1>10. power8[1] = 8 /\ power8[2] = 64 /\ power8[3] = 512 /\ power8[4] = 4096 /\ power8[5] = 32768
  <2>1. /\ power8[1] = Half(power8, 1) /\ power8[2] = Half(power8, 2) /\ power8[3] = Half(power8, 3)
        /\ power8[4] = Half(power8, 4) /\ power8[5] = Half(power8, 5)
    <3> HIDE DEF Half
    <3> QED
      BY <1>9
  <2>2. power8[1] = 8
    BY <1>9, <2>1, Halves
  <2>3. power8[2] = 64 /\ power8[3] = 512
    BY <2>1, <2>2, Halves
  <2> QED
    BY <2>1, <2>2, <2>3, Halves
<1>11. /\ power8[6] = 512 * 512 /\ power8[7] = 8 * (512 * 512)
       /\ power8[8] = 4096 * 4096 /\ power8[9] = 8 * (4096 * 4096) /\ power8[10] = 32768 * 32768
  <2>1. /\ power8[6] = Half(power8, 6) /\ power8[7] = Half(power8, 7) /\ power8[8] = Half(power8, 8)
        /\ power8[9] = Half(power8, 9) /\ power8[10] = Half(power8, 10)
    <3> HIDE DEF Half
    <3> QED
      BY <1>9
  <2> QED
    BY <1>10, <2>1, Halves
<1>12. \A i \in 1..10 : power8[i] = 8 * power8[i - 1]
  BY <1>9, <1>10, <1>11
<1>13. \A i \in 0..10 : power8[i] \in Nat
  <2>1. power8[0] \in Nat /\ \A k \in 1..10 : power8[k - 1] \in Nat => power8[k] \in Nat
    <3> HIDE DEF Is
    <3> QED
      BY <1>9, <1>12
  <2> QED
    BY <2>1, StaysIn
<1> QED
  BY <1>9, <1>12, <1>13

\* The digits of a size, lowest last, and what is left above each.
LEMMA OctalDigits ==
    ASSUME NEW size \in Nat
    PROVE  \E rest : /\ rest[0] = size
                     /\ \A i \in 0..11 : rest[i] \in Nat
                     /\ \A i \in 1..11 : rest[i] = rest[i - 1] \div 8
                     /\ Octal(size) = [k \in 1..11 |-> rest[11 - k] % 8]
<1> DEFINE G == [x \in Nat \X (1..11) |-> x[1] \div 8]
           Is(f) == f = [i \in 0..11 |-> IF i = 0 THEN size ELSE f[i - 1] \div 8]
           rest == CHOOSE f : Is(f)
<1>1. PICK f : Solution(f, 11, size, G)
  <2>1. G \in [Nat \X (1..11) -> Nat] /\ 11 \in Nat
    OBVIOUS
  <2> HIDE DEF G
  <2> QED
    BY <2>1, RecursionOnInterval
<1>2. \A k \in 0..11 : f[k] \in Nat
  <2>1. f[0] \in Nat /\ \A k \in 1..11 : f[k - 1] \in Nat => f[k] \in Nat
    BY <1>1 DEF Solution
  <2> QED
    BY <2>1, StaysIn
<1>3. Is(f)
  <2>1. \A k \in 1..11 : G[<<f[k - 1], k>>] = f[k - 1] \div 8
    BY <1>2
  <2> HIDE DEF G
  <2> QED
    BY <1>1, <2>1 DEF Solution
<1>4. Octal(size) = [k \in 1..11 |-> rest[11 - k] % 8]
  BY DEF Octal
<1>5. Is(rest)
  <2> HIDE DEF Is
  <2> QED
    BY <1>3
<1> HIDE DEF rest
<1>6. rest[0] = size /\ \A i \in 1..11 : rest[i] = rest[i - 1] \div 8
  BY <1>5
<1>7. \A i \in 0..11 : rest[i] \in Nat
  <2>1. rest[0] \in Nat /\ \A k \in 1..11 : rest[k - 1] \in Nat => rest[k] \in Nat
    BY <1>6
  <2> QED
    BY <2>1, StaysIn
<1> QED
  BY <1>4, <1>6, <1>7

\* The two loops of oct_to_dec: the number oct and the turns that take it
\* apart again.
Loops(num, oct, turns) ==
    /\ oct[0] = 0
    /\ \A k \in 0..11 : oct[k] \in Nat
    /\ \A k \in 1..11 : oct[k] = 10 * oct[k - 1] + num[k]
    /\ turns[0] = [oct |-> oct[11], dec |-> 0]
    /\ \A i \in 0..11 : turns[i] \in [oct : Nat, dec : Nat]
    /\ \A i \in 1..11 :
         turns[i] = [oct |-> turns[i - 1].oct \div 10,
                     dec |-> turns[i - 1].dec + (turns[i - 1].oct % 10) * power8[i - 1]]
    /\ oct_to_dec(num) = turns[11].dec

\* The two loops have values for any eleven digits.
LEMMA LoopsOfOctToDec ==
    ASSUME NEW num \in [1..11 -> Nat]
    PROVE  \E oct, turns : Loops(num, oct, turns)
<1> DEFINE G == [x \in Nat \X (1..11) |-> 10 * x[1] + num[x[2]]]
           Is(f) == f = [k \in 0..11 |-> IF k = 0 THEN 0 ELSE 10 * f[k - 1] + num[k]]
           oct == CHOOSE f : Is(f)
           Pairs == [oct : Nat, dec : Nat]
           Turn(was, i) == [oct |-> was.oct \div 10, dec |-> was.dec + (was.oct % 10) * power8[i]]
           H == [x \in Pairs \X (1..11) |-> Turn(x[1], x[2] - 1)]
           Js(f, first) == f = [i \in 0..11 |-> IF i = 0 THEN first ELSE Turn(f[i - 1], i - 1)]
           b == [oct |-> oct[11], dec |-> 0]
           turns == CHOOSE f : Js(f, b)
<1>1. PICK f : Solution(f, 11, 0, G)
  <2>1. G \in [Nat \X (1..11) -> Nat] /\ 11 \in Nat /\ 0 \in Nat
    OBVIOUS
  <2> HIDE DEF G
  <2> QED
    BY <2>1, RecursionOnInterval
<1>2. \A k \in 0..11 : f[k] \in Nat
  <2>1. f[0] \in Nat /\ \A k \in 1..11 : f[k - 1] \in Nat => f[k] \in Nat
    BY <1>1 DEF Solution
  <2> QED
    BY <2>1, StaysIn
<1>3. Is(f)
  <2>1. \A k \in 1..11 : G[<<f[k - 1], k>>] = 10 * f[k - 1] + num[k]
    BY <1>2
  <2> HIDE DEF G
  <2> QED
    BY <1>1, <2>1 DEF Solution
<1>4. oct_to_dec(num) = turns[11].dec
  BY DEF oct_to_dec
<1>5. Is(oct)
  <2> HIDE DEF Is
  <2> QED
    BY <1>3
<1>6. oct[0] = 0 /\ \A k \in 1..11 : oct[k] = 10 * oct[k - 1] + num[k]
  <2> HIDE DEF oct
  <2> QED
    BY <1>5
<1>7. \A k \in 0..11 : oct[k] \in Nat
  <2> HIDE DEF oct
  <2>1. oct[0] \in Nat /\ \A k \in 1..11 : oct[k - 1] \in Nat => oct[k] \in Nat
    BY <1>6
  <2> QED
    BY <2>1, StaysIn
<1> HIDE DEF oct
<1>8. \A was \in Pairs, i \in 0..10 : Turn(was, i) \in Pairs
  BY Power8
<1>9. b \in Pairs
  BY <1>7
<1> HIDE DEF Turn, Pairs, b
<1>10. PICK h : Solution(h, 11, b, H)
  <2>1. H \in [Pairs \X (1..11) -> Pairs] /\ 11 \in Nat
    BY <1>8
  <2> HIDE DEF H
  <2> QED
    BY <1>9, <2>1, RecursionOnInterval
<1>11. h[0] = b /\ \A k \in 1..11 : h[k] = H[<<h[k - 1], k>>]
  <2> HIDE DEF H
  <2> QED
    BY <1>10 DEF Solution
<1>12. \A k \in 0..11 : h[k] \in Pairs
  <2>1. h[0] \in Pairs /\ \A k \in 1..11 : h[k - 1] \in Pairs => h[k] \in Pairs
    BY <1>8, <1>9, <1>11
  <2> QED
    BY <2>1, StaysIn
<1>13. Js(h, b)
  <2>1. \A k \in 1..11 : H[<<h[k - 1], k>>] = Turn(h[k - 1], k - 1)
    BY <1>12
  <2> HIDE DEF H
  <2> QED
    BY <1>10, <2>1 DEF Solution
<1>14. Js(turns, b)
  <2> HIDE DEF Js
  <2> QED
    BY <1>13
<1> HIDE DEF turns
<1>15. turns[0] = b /\ \A i \in 1..11 : turns[i] = Turn(turns[i - 1], i - 1)
  BY <1>14
<1>16. \A i \in 0..11 : turns[i] \in Pairs
  <2>1. turns[0] \in Pairs /\ \A k \in 1..11 : turns[k - 1] \in Pairs => turns[k] \in Pairs
    BY <1>8, <1>9, <1>15
  <2> QED
    BY <2>1, StaysIn
<1>17. Loops(num, oct, turns)
  BY <1>4, <1>6, <1>7, <1>15, <1>16 DEF Loops, Turn, Pairs, b
<1> QED
  BY <1>17

\* oct_to_dec of tarfs.c is right, although it reads an octal number as a
\* decimal one first.
LEMMA SizeIsRead ==
    ASSUME NEW size \in Nat, size < power8[9]
    PROVE  oct_to_dec(Octal(size)) = size
<1> DEFINE num == Octal(size)
<1>1. PICK rest : /\ rest[0] = size
                  /\ \A i \in 0..11 : rest[i] \in Nat
                  /\ \A i \in 1..11 : rest[i] = rest[i - 1] \div 8
                  /\ num = [k \in 1..11 |-> rest[11 - k] % 8]
  BY OctalDigits
<1> HIDE DEF num
<1>2. \A k \in 1..11 : num[k] = rest[11 - k] % 8 /\ num[k] \in 0..7
  <2> TAKE k \in 1..11
  <2>1. num[k] = rest[11 - k] % 8 /\ rest[11 - k] \in Nat
    BY <1>1
  <2> QED
    BY <2>1
<1>3. num \in [1..11 -> Nat]
  <2>1. num = [k \in 1..11 |-> num[k]]
    BY <1>1
  <2> QED
    BY <1>2, <2>1
<1>4. PICK oct, turns : Loops(num, oct, turns)
  BY <1>3, LoopsOfOctToDec
<1>5. /\ \A k \in 0..11 : oct[k] \in Nat
      /\ \A k \in 1..11 : oct[k] = 10 * oct[k - 1] + num[k]
      /\ turns[0] = [oct |-> oct[11], dec |-> 0]
      /\ \A i \in 0..11 : turns[i] \in [oct : Nat, dec : Nat]
      /\ \A i \in 1..11 : /\ turns[i].oct = turns[i - 1].oct \div 10
                          /\ turns[i].dec = turns[i - 1].dec
                                              + (turns[i - 1].oct % 10) * power8[i - 1]
      /\ oct_to_dec(num) = turns[11].dec
  BY <1>4 DEF Loops
<1> DEFINE A == {i \in 0..11 : turns[i].oct = oct[11 - i]}
<1>6. \A i \in 0..11 : i \in A
  <2>1. 0 \in A
    BY <1>5
  <2>2. ASSUME NEW i \in 1..11, i - 1 \in A
        PROVE  i \in A
    <3>1. turns[i].oct = oct[12 - i] \div 10
      <4>1. 11 - (i - 1) = 12 - i
        OBVIOUS
      <4> QED
        BY <1>5, <2>2, <4>1
    <3>2. oct[12 - i] = 10 * oct[11 - i] + num[12 - i] /\ oct[11 - i] \in Nat /\ num[12 - i] \in 0..7
      <4>1. 12 - i \in 1..11 /\ (12 - i) - 1 = 11 - i /\ 11 - i \in 0..11
        OBVIOUS
      <4>2. oct[12 - i] = 10 * oct[(12 - i) - 1] + num[12 - i] /\ num[12 - i] \in 0..7
        BY <1>2, <1>5, <4>1
      <4> QED
        BY <1>5, <4>1, <4>2
    <3> QED
      BY <3>1, <3>2
  <2> HIDE DEF A
  <2> QED
    BY <2>1, <2>2, IntervalInduction
<1>7. ASSUME NEW i \in 1..11
      PROVE  turns[i - 1].oct % 10 = rest[i - 1] % 8
  <2>1. turns[i - 1].oct = oct[12 - i]
    <3>1. i - 1 \in A /\ 11 - (i - 1) = 12 - i
      BY <1>6
    <3> QED
      BY <3>1
  <2>2. 12 - i \in 1..11 /\ (12 - i) - 1 \in 0..11 /\ 11 - (12 - i) = i - 1
    OBVIOUS
  <2>3. /\ oct[12 - i] = 10 * oct[(12 - i) - 1] + num[12 - i]
        /\ oct[(12 - i) - 1] \in Nat
        /\ num[12 - i] \in 0..7
        /\ num[12 - i] = rest[11 - (12 - i)] % 8
    BY <1>2, <1>5, <2>2
  <2>4. oct[12 - i] % 10 = num[12 - i]
    BY <2>3
  <2> QED
    BY <2>1, <2>2, <2>3, <2>4
<1>8. ASSUME NEW i \in 1..11
      PROVE  /\ rest[i - 1] \in Nat /\ rest[i] \in Nat
             /\ rest[i - 1] = 8 * rest[i] + (rest[i - 1] % 8)
             /\ rest[i - 1] % 8 \in 0..7
  <2>1. rest[i - 1] \in Nat /\ rest[i] \in Nat /\ rest[i] = rest[i - 1] \div 8
    BY <1>1
  <2> QED
    BY <2>1
<1> DEFINE B == {i \in 0..10 : turns[i].dec + rest[i] * power8[i] = size}
<1>9. \A i \in 0..10 : i \in B
  <2>1. 0 \in B
    <3>1. turns[0].dec = 0 /\ rest[0] = size /\ power8[0] = 1
      BY <1>1, <1>5, Power8
    <3> QED
      BY <3>1
  <2>2. ASSUME NEW i \in 1..10, i - 1 \in B
        PROVE  i \in B
    <3> DEFINE P == power8[i - 1]
               d == rest[i - 1] % 8
               r == rest[i]
               t == turns[i - 1].dec
    <3>1. P \in Nat /\ power8[i] = 8 * P
      BY Power8
    <3>2. i \in 1..11 /\ t \in Nat
      BY <1>5
    <3>3. d \in Nat /\ r \in Nat /\ rest[i - 1] = 8 * r + d
      <4>1. /\ rest[i] \in Nat /\ rest[i - 1] % 8 \in 0..7
            /\ rest[i - 1] = 8 * rest[i] + (rest[i - 1] % 8)
        BY ONLY <1>8, <3>2
      <4> QED
        BY <4>1
    <3>4. turns[i].dec = t + d * P
      BY <1>5, <1>7, <3>2
    <3>5. t + (8 * r + d) * P = size
      BY <2>2, <3>3
    <3> HIDE DEF P, d, r, t
    <3>6. (t + d * P) + r * (8 * P) = size
      BY <3>1, <3>2, <3>3, <3>5
    <3> QED
      BY <3>1, <3>4, <3>6 DEF r
  <2>3. 10 \in Nat
    OBVIOUS
  <2> HIDE DEF B
  <2> QED
    BY <2>1, <2>2, <2>3, IntervalInduction
<1>10. rest[10] = 0 /\ turns[10].dec = size
  <2> DEFINE P == power8[9]
             r == rest[10]
             t == turns[10].dec
  <2>1. 10 \in B /\ 10 \in 1..10 /\ 10 - 1 = 9 /\ 9 \in 0..10
    BY <1>9
  <2>2. power8[10] = 8 * P /\ P \in Nat
    BY <2>1, Power8
  <2>3. t \in Nat /\ r \in Nat /\ t + r * (8 * P) = size
    BY <1>1, <1>5, <2>1, <2>2
  <2> HIDE DEF P, r, t
  <2>4. ASSUME r # 0
        PROVE  FALSE
    <3>1. r * (8 * P) >= 8 * P
      BY <2>2, <2>3, <2>4
    <3> QED
      BY <2>2, <2>3, <3>1 DEF P
  <2>5. r = 0 /\ t = size
    BY <2>2, <2>3, <2>4
  <2> QED
    BY <2>5 DEF r, t
<1>11. turns[11].dec = turns[10].dec + (rest[10] % 8) * power8[10]
  <2>1. 11 \in 1..11 /\ 11 - 1 = 10
    OBVIOUS
  <2>2. turns[11].dec = turns[11 - 1].dec + (turns[11 - 1].oct % 10) * power8[11 - 1]
        /\ turns[11 - 1].oct % 10 = rest[11 - 1] % 8
    BY <1>5, <1>7
  <2> QED
    BY <2>1, <2>2
<1> QED
  BY <1>5, <1>10, <1>11, Power8 DEF num

-----------------------------------------------------------------------------
(* The walk of init_tarfs over the archive goes from header to header. *)

Members == 1..Len(Archive)

\* What the assumption says of a member.
LEMMA MemberType ==
    /\ Len(Archive) \in Nat
    /\ HEADER \in Nat /\ HEADER > 0
    /\ \A i \in Members : /\ Archive[i] \in [name : Seq(Seq(STRING)), type : {DIR, FILE}, size : Nat]
                          /\ Archive[i].name # <<>>
                          /\ Archive[i].size \in Nat /\ Archive[i].size < power8[9]
<1>1. /\ Archive \in Seq([name : Seq(Seq(STRING)), type : {DIR, FILE}, size : Nat])
      /\ HEADER \in Nat /\ HEADER > 0
      /\ \A i \in 1..Len(Archive) : Archive[i].name # <<>> /\ Archive[i].size < power8[9]
  BY ArchiveAssumption
<1>2. ASSUME NEW i \in Members
      PROVE  Archive[i] \in [name : Seq(Seq(STRING)), type : {DIR, FILE}, size : Nat]
  <2> DEFINE R == [name : Seq(Seq(STRING)), type : {DIR, FILE}, size : Nat]
  <2>1. Archive \in Seq(R) /\ i \in 1..Len(Archive)
    BY <1>1 DEF Members
  <2> HIDE DEF R
  <2>2. Archive[i] \in R
    BY <2>1
  <2> QED
    BY <2>2 DEF R
<1>3. Len(Archive) \in Nat
  BY <1>1
<1>4. \A i \in Members : Archive[i].size \in Nat
  BY <1>2
<1> QED
  BY <1>1, <1>2, <1>3, <1>4 DEF Members

\* Division by the size of a block.
LEMMA DivideExactly ==
    ASSUME NEW h \in Nat, h > 0, NEW n \in Nat, NEW u \in 0..h - 1
    PROVE  (h * n + u) \div h = n
OBVIOUS

\* A member takes whole blocks, and NextHeader skips as many.
LEMMA BlocksOfSize ==
    ASSUME NEW size \in Nat, NEW a \in Nat
    PROVE  /\ Blocks(size) \in Nat
           /\ HEADER * (1 + Blocks(size)) \in Nat
           /\ HEADER + size <= HEADER * (1 + Blocks(size))
           /\ NextHeader(a, size) = a + HEADER * (1 + Blocks(size))
<1> DEFINE q == size \div HEADER
           r == size % HEADER
<1>1. HEADER \in Nat /\ HEADER > 0
  BY MemberType
<1>2. q \in Nat /\ r \in 0..HEADER - 1 /\ size = HEADER * q + r
  BY <1>1
<1>3. CASE r = 0
  <2>1. Blocks(size) = q
    <3>1. size + HEADER - 1 = HEADER * q + (HEADER - 1)
      BY <1>1, <1>2, <1>3
    <3> HIDE DEF q, r
    <3>2. (HEADER * q + (HEADER - 1)) \div HEADER = q
      BY <1>1, <1>2
    <3> QED
      BY <3>1, <3>2 DEF Blocks
  <2>2. NextHeader(a, size) = a + HEADER * (1 + q)
    BY <1>3 DEF NextHeader
  <2> HIDE DEF q, r
  <2> QED
    BY <1>1, <1>2, <1>3, <2>1, <2>2
<1>4. CASE r # 0
  <2>1. Blocks(size) = q + 1
    <3>1. size + HEADER - 1 = HEADER * (q + 1) + (r - 1) /\ r - 1 \in 0..HEADER - 1 /\ q + 1 \in Nat
      <4> HIDE DEF q, r
      <4> QED
        BY <1>1, <1>2, <1>4
    <3> HIDE DEF q, r
    <3>2. (HEADER * (q + 1) + (r - 1)) \div HEADER = q + 1
      BY <1>1, <3>1, DivideExactly
    <3> QED
      BY <3>1, <3>2 DEF Blocks
  <2>2. NextHeader(a, size) = a + HEADER * (2 + q)
    BY <1>4 DEF NextHeader
  <2> HIDE DEF q, r
  <2> QED
    BY <1>1, <1>2, <1>4, <2>1, <2>2
<1> QED
  BY <1>3, <1>4

Extent(i) == HEADER * (1 + Blocks(Archive[i].size))

\* Place is a function with the values of its recursive definition.
LEMMA PlaceSteps ==
    /\ Place[1] = 0
    /\ \A i \in Members : Place[i + 1] = Place[i] + Extent(i)
    /\ \A i \in 1..Len(Archive) + 1 : Place[i] \in Nat
<1> DEFINE N == Len(Archive)
           G == [x \in Nat \X (1..N) |-> x[1] + Extent(x[2])]
           Is(f) == f = [i \in 1..N + 1 |-> IF i = 1 THEN 0 ELSE f[i - 1]
                                              + HEADER * (1 + Blocks(Archive[i - 1].size))]
<1>1. N \in Nat /\ \A i \in 1..N : Extent(i) \in Nat
  <2>1. N \in Nat
    BY MemberType
  <2>2. ASSUME NEW i \in 1..N
        PROVE  Extent(i) \in Nat
    <3>1. Archive[i].size \in Nat
      BY MemberType DEF Members
    <3> QED
      BY <3>1, BlocksOfSize DEF Extent
  <2> QED
    BY <2>1, <2>2
<1> HIDE DEF N
<1>2. PICK f : Solution(f, N, 0, G)
  <2>1. G \in [Nat \X (1..N) -> Nat] /\ 0 \in Nat
    BY <1>1
  <2> HIDE DEF G
  <2> QED
    BY <1>1, <2>1, RecursionOnInterval
<1>3. f[0] = 0 /\ \A k \in 1..N : f[k] = G[<<f[k - 1], k>>]
  <2> HIDE DEF G
  <2> QED
    BY <1>1, <1>2 DEF Solution
<1>a. \A n \in Nat, k \in 1..N : G[<<n, k>>] = n + Extent(k)
  OBVIOUS
<1> HIDE DEF G
<1>4. \A k \in 0..N : f[k] \in Nat
  <2>1. ASSUME NEW k \in 1..N, f[k - 1] \in Nat
        PROVE  f[k] \in Nat
    <3>1. f[k] = f[k - 1] + Extent(k)
      BY <1>3, <1>a, <2>1
    <3> QED
      BY <1>1, <2>1, <3>1
  <2>2. f[0] \in Nat /\ \A k \in 1..N : f[k - 1] \in Nat => f[k] \in Nat
    BY <1>3, <2>1
  <2> QED
    BY <1>1, <2>2, StaysIn
<1>5. \A k \in 1..N : f[k] = f[k - 1] + HEADER * (1 + Blocks(Archive[k].size))
  <2> TAKE k \in 1..N
  <2>1. f[k - 1] \in Nat /\ f[k] = G[<<f[k - 1], k>>]
    BY <1>1, <1>3, <1>4
  <2> QED
    BY <1>a, <2>1 DEF Extent
<1> DEFINE g == [i \in 1..N + 1 |-> f[i - 1]]
<1>6. Is(g)
  <2>1. ASSUME NEW i \in 1..N + 1
        PROVE  g[i] = IF i = 1 THEN 0 ELSE g[i - 1] + HEADER * (1 + Blocks(Archive[i - 1].size))
    <3>1. CASE i = 1
      BY <1>3, <3>1
    <3>2. CASE i # 1
      <4>1. i - 1 \in 1..N /\ i - 1 \in 1..N + 1 /\ (i - 1) - 1 \in 0..N
        BY <1>1, <3>2
      <4> QED
        BY <1>5, <3>2, <4>1
    <3> QED
      BY <3>1, <3>2
  <2> QED
    BY <2>1
<1>7. Place = CHOOSE h : Is(h)
  BY DEF Place, N
<1>8. Is(Place)
  <2> HIDE DEF Is, g
  <2> QED
    BY <1>6, <1>7
<1>9. Place[1] = 0 /\ \A i \in 1..N : Place[i + 1] = Place[i] + Extent(i)
  <2>1. Place[1] = 0
    BY <1>1, <1>8
  <2>2. ASSUME NEW i \in 1..N
        PROVE  Place[i + 1] = Place[i] + Extent(i)
    <3>1. i + 1 \in 1..N + 1 /\ i + 1 # 1 /\ (i + 1) - 1 = i
      BY <1>1
    <3> QED
      BY <1>8, <3>1 DEF Extent
  <2> QED
    BY <2>1, <2>2
<1>10. \A i \in 1..N + 1 : Place[i] \in Nat
  <2> DEFINE T == {k \in 0..N : Place[k + 1] \in Nat}
  <2>1. 0 \in T
    BY <1>1, <1>9
  <2>2. ASSUME NEW k \in 1..N, k - 1 \in T
        PROVE  k \in T
    <3>1. (k - 1) + 1 = k /\ k \in 0..N
      BY <1>1
    <3> QED
      BY <1>1, <1>9, <2>2, <3>1
  <2>3. \A k \in 0..N : k \in T
    <3> HIDE DEF T
    <3> QED
      BY <1>1, <2>1, <2>2, IntervalInduction
  <2>4. ASSUME NEW i \in 1..N + 1
        PROVE  Place[i] \in Nat
    <3>1. i - 1 \in T /\ (i - 1) + 1 = i
      BY <1>1, <2>3
    <3> QED
      BY <3>1
  <2> QED
    BY <2>4
<1> QED
  BY <1>9, <1>10 DEF N, Members

\* Members lie one behind the other, each with its data before the next.
LEMMA PlacesAscend ==
    ASSUME NEW i \in Members, NEW j \in 1..Len(Archive) + 1, i < j
    PROVE  Place[i] + HEADER + Archive[i].size <= Place[j] /\ Place[i] < Place[j]
<1> DEFINE N == Len(Archive)
           e == Place[i] + HEADER + Archive[i].size
           T == {k \in 0..N : i < k + 1 => e <= Place[k + 1]}
<1>1. N \in Nat /\ i \in 1..N /\ HEADER \in Nat /\ HEADER > 0 /\ Archive[i].size \in Nat
  BY MemberType DEF Members
<1>2. e \in Nat /\ Place[i] \in Nat /\ Place[i] < e
  BY <1>1, PlaceSteps
<1>3. \A k \in 1..N : /\ Place[k] \in Nat /\ Place[k + 1] \in Nat
                      /\ Place[k + 1] = Place[k] + Extent(k)
                      /\ Extent(k) \in Nat /\ HEADER + Archive[k].size <= Extent(k)
  <2> TAKE k \in 1..N
  <2>1. Archive[k].size \in Nat /\ k \in 1..Len(Archive) + 1 /\ k + 1 \in 1..Len(Archive) + 1
    BY <1>1, MemberType DEF Members
  <2> QED
    BY <2>1, PlaceSteps, BlocksOfSize DEF Extent, Members
<1>4. 0 \in T
  BY <1>1
<1>5. ASSUME NEW k \in 1..N, k - 1 \in T
      PROVE  k \in T
  <2> SUFFICES ASSUME i < k + 1
               PROVE  e <= Place[k + 1]
    BY <1>1
  <2>1. CASE i = k
    <3>1. /\ Place[i] \in Nat /\ Place[k + 1] = Place[i] + Extent(i)
          /\ Extent(i) \in Nat /\ HEADER + Archive[i].size <= Extent(i)
      BY <1>1, <1>3, <2>1
    <3> QED
      BY <1>1, <3>1
  <2>2. CASE i < k
    <3>1. (k - 1) + 1 = k /\ e <= Place[k]
      BY <1>1, <1>5, <2>2
    <3>2. e \in Nat /\ Place[k] \in Nat /\ Place[k + 1] = Place[k] + Extent(k) /\ Extent(k) \in Nat
      BY <1>2, <1>3
    <3> HIDE DEF e
    <3> QED
      BY <3>1, <3>2
  <2> QED
    BY <1>1, <2>1, <2>2
<1>6. \A k \in 0..N : k \in T
  <2> HIDE DEF T
  <2> QED
    BY <1>1, <1>4, <1>5, IntervalInduction
<1>7. j - 1 \in T /\ (j - 1) + 1 = j
  <2>1. j - 1 \in 0..N /\ (j - 1) + 1 = j
    BY <1>1
  <2> HIDE DEF T
  <2> QED
    BY <1>6, <2>1
<1>8. Place[j] \in Nat
  BY PlaceSteps
<1> QED
  BY <1>1, <1>2, <1>7, <1>8

\* The addresses at which init_tarfs looks.
HeaderPlaces == {Place[i] : i \in 1..Len(Archive) + 1}
             \cup {Place[Len(Archive) + 1] + HEADER, ArchiveEnd}

\* The walk stays in the archive.
LEMMA HeadersInArchive == HeaderPlaces \subseteq 0..ArchiveEnd /\ ArchiveEnd \in Nat
<1> DEFINE N == Len(Archive)
           z == Place[N + 1]
<1>1. N \in Nat /\ HEADER \in Nat /\ z \in Nat
  BY MemberType, PlaceSteps
<1>2. ArchiveEnd = z + 2 * HEADER /\ ArchiveEnd \in Nat
  BY <1>1 DEF ArchiveEnd
<1>3. \A i \in 1..N + 1 : Place[i] \in Nat /\ Place[i] <= z
  <2> TAKE i \in 1..N + 1
  <2>1. CASE i = N + 1
    BY <1>1, <2>1
  <2>2. CASE i # N + 1
    <3>1. i \in Members /\ i < N + 1 /\ N + 1 \in 1..Len(Archive) + 1
      BY <1>1, <2>2 DEF Members
    <3>2. Place[i] < Place[N + 1]
      BY <3>1, PlacesAscend
    <3> QED
      BY <1>1, <3>2, PlaceSteps
  <2> QED
    BY <2>1, <2>2
<1> HIDE DEF z
<1> QED
  BY <1>1, <1>2, <1>3 DEF HeaderPlaces, z

\* The header that tar wrote for a member is read as that member, and what
\* follows the members is blank.
LEMMA MemberIsRead ==
    ASSUME NEW i \in Members
    PROVE  Member(Place[i]) = Archive[i]
<1> DEFINE at == {j \in 1..Len(Archive) : Place[j] = Place[i]}
           Header(m) == [m EXCEPT !.size = oct_to_dec(Octal(m.size))]
<1>1. at = {i}
  <2>1. ASSUME NEW j \in 1..Len(Archive), Place[j] = Place[i]
        PROVE  j = i
    <3>1. i \in 1..Len(Archive) + 1 /\ j \in 1..Len(Archive) + 1 /\ j \in Members
      BY MemberType DEF Members
    <3>2. Place[i] \in Nat
      BY <3>1, PlaceSteps
    <3>3. ~(i < j) /\ ~(j < i)
      BY <2>1, <3>1, <3>2, PlacesAscend
    <3> QED
      BY <3>1, <3>3
  <2> QED
    BY <2>1 DEF Members
<1>2. (CHOOSE j \in at : TRUE) = i /\ at # {}
  BY <1>1
<1>3. Member(Place[i]) = Header(Archive[i])
  <2> HIDE DEF at
  <2>1. Member(Place[i]) = IF at = {} THEN [name |-> <<>>, type |-> DIR, size |-> 0]
                           ELSE Header(Archive[CHOOSE j \in at : TRUE])
    BY DEF Member, at
  <2> QED
    BY <1>2, <2>1
<1>4. Archive[i] \in [name : Seq(Seq(STRING)), type : {DIR, FILE}, size : Nat]
  BY MemberType
<1>5. oct_to_dec(Octal(Archive[i].size)) = Archive[i].size
  BY MemberType, SizeIsRead
<1>6. [Archive[i] EXCEPT !.size = Archive[i].size] = Archive[i]
  BY <1>4
<1> QED
  BY <1>3, <1>5, <1>6

\* The two blocks after the last member are read as blank.
LEMMA BlankIsRead ==
    ASSUME NEW a \in {Place[Len(Archive) + 1], Place[Len(Archive) + 1] + HEADER}
    PROVE  Member(a) = [name |-> <<>>, type |-> DIR, size |-> 0]
<1> DEFINE at == {j \in 1..Len(Archive) : Place[j] = a}
<1>1. ASSUME NEW j \in 1..Len(Archive)
      PROVE  Place[j] # a
  <2>1. /\ j \in Members /\ j \in 1..Len(Archive) + 1
        /\ Len(Archive) + 1 \in 1..Len(Archive) + 1 /\ j < Len(Archive) + 1
    BY MemberType DEF Members
  <2>2. Place[j] < Place[Len(Archive) + 1]
    BY <2>1, PlacesAscend
  <2> QED
    BY <2>1, <2>2, PlaceSteps, MemberType
<1>2. at = {}
  BY <1>1
<1> QED
  BY <1>2 DEF Member

\* One turn: what is read lies in the archive, and the next address is that
\* of a header again.
LEMMA HeaderStep ==
    ASSUME NEW a \in HeaderPlaces, a < ArchiveEnd
    PROVE  /\ NextHeader(a, Member(a).size) \in HeaderPlaces
           /\ Member(a).name # <<>> =>
                /\ Member(a).name \in Seq(Seq(STRING))
                /\ Member(a).type \in {DIR, FILE}
                /\ Member(a).size \in Nat
                /\ a + HEADER \in 0..ArchiveEnd
                /\ a + HEADER + Member(a).size \in 0..ArchiveEnd
<1> DEFINE N == Len(Archive)
           z == Place[N + 1]
<1>1. N \in Nat /\ HEADER \in Nat /\ HEADER > 0 /\ z \in Nat /\ N + 1 \in 1..Len(Archive) + 1
  BY MemberType, PlaceSteps
<1>2. ArchiveEnd = z + 2 * HEADER
  BY DEF ArchiveEnd
<1>3. CASE \E i \in Members : a = Place[i]
  <2>1. PICK i \in Members : a = Place[i]
    BY <1>3
  <2>2. Member(a) = Archive[i] /\ Archive[i].size \in Nat /\ a \in Nat
    <3>1. i \in 1..Len(Archive) + 1
      BY <1>1 DEF Members
    <3> QED
      BY <2>1, <3>1, MemberIsRead, MemberType, PlaceSteps
  <2>3. NextHeader(a, Member(a).size) = Place[i + 1]
    <3>1. Place[i + 1] = Place[i] + Extent(i)
      BY PlaceSteps
    <3>2. NextHeader(a, Archive[i].size) = a + Extent(i)
      BY <2>2, BlocksOfSize DEF Extent
    <3> QED
      BY <2>1, <2>2, <3>1, <3>2
  <2>4. i + 1 \in 1..N + 1
    BY <1>1 DEF Members
  <2>5. NextHeader(a, Member(a).size) \in HeaderPlaces
    BY <2>3, <2>4 DEF HeaderPlaces
  <2>6. a + HEADER + Archive[i].size <= z
    <3>1. i < N + 1
      BY <1>1 DEF Members
    <3> QED
      BY <1>1, <2>1, <3>1, PlacesAscend
  <2>7. a + HEADER \in 0..ArchiveEnd /\ a + HEADER + Archive[i].size \in 0..ArchiveEnd
    <3> HIDE DEF z
    <3> QED
      BY <1>1, <1>2, <2>2, <2>6
  <2>8. Archive[i].name \in Seq(Seq(STRING)) /\ Archive[i].type \in {DIR, FILE}
    BY MemberType
  <2> QED
    BY <2>2, <2>5, <2>7, <2>8
<1>4. CASE a = z \/ a = z + HEADER
  <2>1. Member(a) = [name |-> <<>>, type |-> DIR, size |-> 0]
    BY <1>4, BlankIsRead
  <2>2. NextHeader(a, 0) = a + HEADER
    <3>1. 0 % HEADER = 0 /\ 0 \div HEADER = 0
      BY <1>1
    <3> QED
      BY <1>1, <3>1 DEF NextHeader
  <2>3. a + HEADER \in {z + HEADER, ArchiveEnd}
    <3> HIDE DEF z
    <3> QED
      BY <1>1, <1>2, <1>4
  <2> QED
    BY <2>1, <2>2, <2>3 DEF HeaderPlaces
<1>5. a = ArchiveEnd \/ a = z \/ a = z + HEADER \/ \E i \in Members : a = Place[i]
  <2>1. \A i \in 1..N + 1 : i = N + 1 \/ i \in Members
    BY <1>1 DEF Members
  <2> QED
    BY <2>1 DEF HeaderPlaces
<1> QED
  BY <1>1, <1>2, <1>3, <1>4, <1>5

-----------------------------------------------------------------------------
(* The inode tree. *)

Names == Seq(STRING)

Inode == [inodeName : Names, start : Nat, end : Nat, type : {DIR, FILE}, family : Seq(Nat)]

\* An inode has room for its children, which were made after it, and its
\* bytes lie in the archive.
NodeOK(node, n, size) ==
    /\ node.start <= node.end /\ node.end <= ArchiveEnd
    /\ Len(node.family) < MAX_FAMILY
    /\ \A i \in 1..Len(node.family) : node.family[i] \in n + 1..size

Trees == {tree \in Seq(Inode) : /\ Len(tree) > 0
                                /\ \A n \in 1..Len(tree) : NodeOK(tree[n], n, Len(tree))}

\* What a turn of the loop over the tokens keeps.
Positions == {at \in [tree : Trees, node : Nat] : at.node \in 1..Len(at.tree)}

\* What is known of the inodes of a tree.
LEMMA TreeFacts ==
    ASSUME NEW tree \in Trees
    PROVE  /\ tree \in Seq(Inode) /\ Len(tree) \in Nat /\ Len(tree) > 0
           /\ \A n \in 1..Len(tree) :
                /\ tree[n] \in Inode /\ NodeOK(tree[n], n, Len(tree))
                /\ tree[n].family \in Seq(Nat) /\ Len(tree[n].family) \in Nat
                /\ tree[n].type \in {DIR, FILE} /\ tree[n].start \in Nat /\ tree[n].end \in Nat
<1>1. tree \in Seq(Inode) /\ Len(tree) > 0 /\ \A n \in 1..Len(tree) : NodeOK(tree[n], n, Len(tree))
  BY DEF Trees
<1>2. \A n \in 1..Len(tree) : tree[n] \in Inode
  BY <1>1
<1>3. \A v \in Inode : /\ v.family \in Seq(Nat) /\ Len(v.family) \in Nat
                       /\ v.type \in {DIR, FILE} /\ v.start \in Nat /\ v.end \in Nat
  BY DEF Inode
<1> QED
  BY <1>1, <1>2, <1>3

\* findFamily returns a place in the family, and its child is an inode of the tree.
LEMMA FindFamily ==
    ASSUME NEW tree \in Trees, NEW node \in 1..Len(tree), NEW token
    PROVE  /\ findFamily(tree, node, token) \in 0..Len(tree[node].family)
           /\ findFamily(tree, node, token) # 0
                => tree[node].family[findFamily(tree, node, token)] \in 1..Len(tree)
<1> DEFINE family == tree[node].family
           hits == {i \in 1..Len(family) : SameName(tree[family[i]].inodeName, token)}
           found == findFamily(tree, node, token)
<1>1. found = IF hits = {} THEN 0 ELSE Min(hits)
  BY DEF findFamily
<1>2. Len(family) \in Nat /\ Len(tree) \in Nat /\ \A i \in 1..Len(family) : family[i] \in node + 1..Len(tree)
  BY TreeFacts DEF NodeOK
<1>3. hits \subseteq Nat /\ hits \subseteq 1..Len(family)
  BY <1>2
<1> HIDE DEF hits, found, family
<1>4. hits # {} => Min(hits) \in hits
  <2> SUFFICES ASSUME hits # {}
               PROVE  Min(hits) \in hits
    OBVIOUS
  <2>1. \E m \in hits : \A n \in hits : m <= n
    BY <1>3, LeastOfNats
  <2> QED
    BY <2>1 DEF Min
<1>5. found \in 0..Len(family) /\ (found # 0 => family[found] \in 1..Len(tree))
  <2>1. CASE hits = {}
    BY <1>1, <1>2, <2>1
  <2>2. CASE hits # {}
    <3>1. found \in 1..Len(family)
      BY <1>1, <1>3, <1>4, <2>2
    <3>2. family[found] \in node + 1..Len(tree)
      BY <1>2, <3>1
    <3> QED
      BY <1>2, <3>1, <3>2
  <2> QED
    BY <2>1, <2>2
<1> QED
  BY <1>5 DEF found, family

\* appendToFamily adds an inode to a directory that has room.
LEMMA AppendKeeps ==
    ASSUME NEW tree \in Trees, NEW node \in 1..Len(tree), NEW token \in Names,
           NEW member \in Inode, NodeOK(member, 0, 0), member.family = <<>>,
           ~FamilyFull(tree, node)
    PROVE  /\ appendToFamily(tree, node, token, member) \in Trees
           /\ Len(appendToFamily(tree, node, token, member)) = Len(tree) + 1
<1> DEFINE N == Len(tree)
           old == tree[node]
           fam == Append(old.family, N + 1)
           grown == [old EXCEPT !.family = fam]
           t == [tree EXCEPT ![node] = grown]
           new == [member EXCEPT !.inodeName = token]
           u == Append(t, new)
<1>1. appendToFamily(tree, node, token, member) = u
  BY DEF appendToFamily
<1>2. N \in Nat /\ tree \in Seq(Inode) /\ old \in Inode /\ NodeOK(old, node, N)
  BY TreeFacts
<1>3. old.family \in Seq(Nat) /\ Len(old.family) \in Nat /\ MAX_FAMILY \in Nat
  BY TreeFacts, ArchiveAssumption
<1>4. /\ fam \in Seq(Nat) /\ Len(fam) = Len(old.family) + 1
      /\ \A i \in 1..Len(fam) : fam[i] = IF i <= Len(old.family) THEN old.family[i] ELSE N + 1
  <2> DEFINE before == old.family
  <2>1. before \in Seq(Nat) /\ N + 1 \in Nat
    BY <1>2, <1>3
  <2> HIDE DEF before, N
  <2> SUFFICES /\ Append(before, N + 1) \in Seq(Nat)
               /\ Len(Append(before, N + 1)) = Len(before) + 1
               /\ \A i \in 1..Len(before) + 1 :
                     Append(before, N + 1)[i] = IF i <= Len(before) THEN before[i] ELSE N + 1
    BY DEF before
  <2> QED
    BY <2>1
<1>5. /\ grown \in Inode /\ grown.family = fam /\ grown.start = old.start /\ grown.end = old.end
  <2> HIDE DEF fam, old
  <2> QED
    BY <1>2, <1>4 DEF Inode
<1>6. NodeOK(grown, node, N + 1)
  <2>1. Len(fam) < MAX_FAMILY
    BY <1>2, <1>3, <1>4 DEF FamilyFull
  <2>2. \A i \in 1..Len(fam) : fam[i] \in node + 1..N + 1
    <3> TAKE i \in 1..Len(fam)
    <3>1. CASE i <= Len(old.family)
      <4>1. i \in 1..Len(old.family) /\ fam[i] = old.family[i]
        BY <1>3, <1>4, <3>1
      <4>2. old.family[i] \in node + 1..N
        BY <1>2, <4>1 DEF NodeOK
      <4> QED
        BY <1>2, <4>1, <4>2
    <3>2. CASE ~(i <= Len(old.family))
      BY <1>2, <1>4, <3>2
    <3> QED
      BY <3>1, <3>2
  <2> QED
    BY <1>2, <1>5, <2>1, <2>2 DEF NodeOK
<1> HIDE DEF grown, old, fam
<1>7. /\ t \in Seq(Inode) /\ Len(t) = N
      /\ \A n \in 1..N : t[n] = IF n = node THEN grown ELSE tree[n]
  BY <1>2, <1>5
<1>8. new \in Inode /\ new.family = <<>> /\ new.start = member.start /\ new.end = member.end
  BY DEF Inode, Names
<1> HIDE DEF t, new
<1>9. /\ u \in Seq(Inode) /\ Len(u) = N + 1
      /\ \A n \in 1..N + 1 : u[n] = IF n <= N THEN t[n] ELSE new
  BY <1>2, <1>7, <1>8
<1> HIDE DEF u
<1>10. ASSUME NEW n \in 1..N + 1
       PROVE  NodeOK(u[n], n, N + 1)
  <2>1. CASE n = node
    BY <1>2, <1>6, <1>7, <1>9, <2>1
  <2>2. CASE n # node /\ n <= N
    <3>1. u[n] = tree[n] /\ n \in 1..N
      BY <1>2, <1>7, <1>9, <2>2
    <3>2. NodeOK(tree[n], n, N) /\ Len(tree[n].family) \in Nat
      BY <3>1, TreeFacts
    <3> QED
      BY <1>2, <3>1, <3>2 DEF NodeOK
  <2>3. CASE ~(n <= N)
    <3>1. u[n] = new
      BY <1>9, <2>3
    <3>2. Len(<<>>) = 0 /\ MAX_FAMILY > 0
      BY ArchiveAssumption
    <3> QED
      BY <1>8, <3>1, <3>2 DEF NodeOK
  <2> QED
    BY <1>2, <2>1, <2>2, <2>3
<1>11. u \in Trees
  BY <1>2, <1>9, <1>10 DEF Trees
<1> QED
  BY <1>1, <1>9, <1>11

\* One token of a path keeps the tree and stays in it.
LEMMA InsertKeeps ==
    ASSUME NEW at \in Positions, NEW token \in Names,
           NEW member \in Inode, NodeOK(member, 0, 0), member.family = <<>>
    PROVE  Insert(at, token, member) \in Positions
<1> DEFINE tree == at.tree
           node == at.node
           found == findFamily(tree, node, token)
<1>1. /\ at \in [tree : Trees, node : Nat] /\ tree \in Trees /\ node \in 1..Len(tree)
  BY DEF Positions
<1>2. CASE found # 0
  <2>1. Insert(at, token, member) = [at EXCEPT !.node = tree[node].family[found]]
    BY <1>2 DEF Insert
  <2>2. tree[node].family[found] \in 1..Len(tree) /\ Len(tree) \in Nat
    BY <1>1, <1>2, FindFamily, TreeFacts
  <2> HIDE DEF found
  <2> QED
    BY <1>1, <2>1, <2>2 DEF Positions
<1>3. CASE found = 0 /\ FamilyFull(tree, node)
  BY <1>3 DEF Insert
<1>4. CASE found = 0 /\ ~FamilyFull(tree, node)
  <2> DEFINE u == appendToFamily(tree, node, token, member)
  <2>1. Insert(at, token, member) = [tree |-> u, node |-> Len(tree) + 1]
    BY <1>4 DEF Insert
  <2>2. u \in Trees /\ Len(u) = Len(tree) + 1 /\ Len(tree) \in Nat
    BY <1>1, <1>4, AppendKeeps, TreeFacts
  <2> HIDE DEF u
  <2> QED
    BY <2>1, <2>2 DEF Positions
<1> QED
  BY <1>2, <1>3, <1>4

NewInode(start, end, type) ==
    [inodeName |-> <<>>, start |-> start, end |-> end, type |-> type, family |-> <<>>]

\* The loop over the tokens as a recursive function.
Inserts(f, tree, path, member) ==
    /\ f[0] = [tree |-> tree, node |-> 1]
    /\ \A k \in 1..Len(path) : f[k] = Insert(f[k - 1], path[k], member)
    /\ \A k \in 0..Len(path) : f[k] \in Positions

\* An inode as it is before it is put into the tree.
LEMMA NewInodeOK ==
    ASSUME NEW start \in Nat, NEW end \in Nat, start <= end, end <= ArchiveEnd, NEW type \in {DIR, FILE}
    PROVE  LET member == NewInode(start, end, type)
           IN member \in Inode /\ NodeOK(member, 0, 0) /\ member.family = <<>>
<1> DEFINE member == NewInode(start, end, type)
<1>1. <<>> \in Seq(Nat) /\ <<>> \in Names /\ Len(<<>>) = 0 /\ MAX_FAMILY > 0
  BY ArchiveAssumption DEF Names
<1>2. member \in Inode
  BY <1>1 DEF Inode, NewInode
<1> QED
  BY <1>1, <1>2 DEF NodeOK, NewInode

\* InsertIntoRoot keeps the tree at every token, for a path of any length.
LEMMA InsertLoop ==
    ASSUME NEW tree \in Trees, NEW path \in Seq(Names), NEW start \in Nat, NEW end \in Nat,
           start <= end, end <= ArchiveEnd, NEW type \in {DIR, FILE}
    PROVE  \E f : /\ Inserts(f, tree, path, NewInode(start, end, type))
                  /\ InsertIntoRoot(tree, path, start, end, type) = f[Len(path)].tree
<1> DEFINE member == NewInode(start, end, type)
           N == Len(path)
           b == [tree |-> tree, node |-> 1]
           G == [x \in Positions \X (1..N) |-> Insert(x[1], path[x[2]], member)]
           Is(f) == f = [k \in 0..N |-> IF k = 0 THEN b ELSE Insert(f[k - 1], path[k], member)]
           at == CHOOSE f : Is(f)
<1>1. InsertIntoRoot(tree, path, start, end, type) = at[N].tree
  BY DEF InsertIntoRoot, NewInode
<1>2. N \in Nat /\ \A k \in 1..N : path[k] \in Names
  OBVIOUS
<1>3. member \in Inode /\ NodeOK(member, 0, 0) /\ member.family = <<>>
  BY NewInodeOK
<1>4. b \in Positions
  BY TreeFacts DEF Positions
<1> HIDE DEF N, member, b
<1>5. \A x \in Positions, k \in 1..N : Insert(x, path[k], member) \in Positions
  BY <1>2, <1>3, InsertKeeps
<1>6. PICK f : Solution(f, N, b, G)
  <2>1. G \in [Positions \X (1..N) -> Positions]
    BY <1>5
  <2> HIDE DEF G
  <2> QED
    BY <1>2, <1>4, <2>1, RecursionOnInterval
<1>7. f[0] = b /\ \A k \in 1..N : f[k] = G[<<f[k - 1], k>>]
  <2> HIDE DEF G
  <2> QED
    BY <1>2, <1>6 DEF Solution
<1>8. \A x \in Positions, k \in 1..N : G[<<x, k>>] = Insert(x, path[k], member)
  OBVIOUS
<1> HIDE DEF G
<1>9. \A k \in 0..N : f[k] \in Positions
  <2>1. ASSUME NEW k \in 1..N, f[k - 1] \in Positions
        PROVE  f[k] \in Positions
    BY <1>5, <1>7, <1>8, <2>1
  <2>2. f[0] \in Positions /\ \A k \in 1..N : f[k - 1] \in Positions => f[k] \in Positions
    BY <1>4, <1>7, <2>1
  <2> QED
    BY <1>2, <2>2, StaysIn
<1>10. \A k \in 1..N : f[k] = Insert(f[k - 1], path[k], member)
  <2> TAKE k \in 1..N
  <2>1. f[k - 1] \in Positions /\ f[k] = G[<<f[k - 1], k>>]
    BY <1>2, <1>7, <1>9
  <2> QED
    BY <1>8, <2>1
<1>11. Is(f)
  <2>1. f = [k \in 0..N |-> f[k]]
    BY <1>6 DEF Solution
  <2>2. \A k \in 0..N : f[k] = IF k = 0 THEN b ELSE Insert(f[k - 1], path[k], member)
    BY <1>2, <1>7, <1>10
  <2> QED
    BY <2>1, <2>2
<1>12. Is(at)
  <2> HIDE DEF Is
  <2> QED
    BY <1>11
<1> HIDE DEF at
<1>13. at[0] = b /\ \A k \in 1..N : at[k] = Insert(at[k - 1], path[k], member)
  BY <1>2, <1>12
<1>14. \A k \in 0..N : at[k] \in Positions
  <2>1. ASSUME NEW k \in 1..N, at[k - 1] \in Positions
        PROVE  at[k] \in Positions
    BY <1>5, <1>13, <2>1
  <2>2. at[0] \in Positions /\ \A k \in 1..N : at[k - 1] \in Positions => at[k] \in Positions
    BY <1>4, <1>13, <2>1
  <2> QED
    BY <1>2, <2>2, StaysIn
<1>15. Inserts(at, tree, path, member)
  BY <1>13, <1>14 DEF Inserts, N, b
<1> QED
  BY <1>1, <1>15 DEF N, member

\* So what it returns is a tree.
LEMMA InsertIntoRootKeeps ==
    ASSUME NEW tree \in Trees, NEW path \in Seq(Names), NEW start \in Nat, NEW end \in Nat,
           start <= end, end <= ArchiveEnd, NEW type \in {DIR, FILE}
    PROVE  InsertIntoRoot(tree, path, start, end, type) \in Trees
<1>1. PICK f : /\ Inserts(f, tree, path, NewInode(start, end, type))
               /\ InsertIntoRoot(tree, path, start, end, type) = f[Len(path)].tree
  BY InsertLoop
<1>2. Len(path) \in Nat /\ Len(path) \in 0..Len(path)
  OBVIOUS
<1>3. f[Len(path)] \in Positions
  BY <1>1, <1>2 DEF Inserts
<1> QED
  BY <1>1, <1>3 DEF Positions

\* The loop of GetInode as a recursive function.
LooksUp(f, path) ==
    /\ f[0] = 1
    /\ \A k \in 1..Len(path) :
         f[k] = IF f[k - 1] = 0 \/ findFamily(inodes, f[k - 1], path[k]) = 0 THEN 0
                ELSE inodes[f[k - 1]].family[findFamily(inodes, f[k - 1], path[k])]
    /\ \A k \in 0..Len(path) : f[k] \in 0..Len(inodes)

\* The walk stays in the tree.
LEMMA GetInodeLoop ==
    ASSUME inodes \in Trees, NEW path, Len(path) \in Nat
    PROVE  \E f : LooksUp(f, path) /\ GetInode(path) = f[Len(path)]
<1> DEFINE Child(node, i) == IF i = 0 THEN 0 ELSE inodes[node].family[i]
           N == Len(path)
           Known == 0..Len(inodes)
           Walk(x, k) == IF x = 0 THEN 0 ELSE Child(x, findFamily(inodes, x, path[k]))
           G == [x \in Known \X (1..N) |-> Walk(x[1], x[2])]
           Is(f) == f = [k \in 0..N |-> IF k = 0 THEN 1
                                        ELSE IF f[k - 1] = 0 THEN 0
                                        ELSE Child(f[k - 1], findFamily(inodes, f[k - 1], path[k]))]
           walk == CHOOSE f : Is(f)
<1>1. GetInode(path) = walk[N]
  BY DEF GetInode
<1>2. N \in Nat /\ 1 \in Known /\ 0 \in Known
  BY TreeFacts
<1>3. ASSUME NEW x \in Known, NEW k \in 1..N
      PROVE  Walk(x, k) \in Known
  <2>1. CASE x = 0
    BY <1>2, <2>1
  <2>2. CASE x # 0
    <3> DEFINE i == findFamily(inodes, x, path[k])
    <3>1. x \in 1..Len(inodes) /\ Len(inodes) \in Nat
      BY <2>2, TreeFacts
    <3>2. i # 0 => inodes[x].family[i] \in 1..Len(inodes)
      BY <3>1, FindFamily
    <3>3. Walk(x, k) = IF i = 0 THEN 0 ELSE inodes[x].family[i]
      BY <2>2
    <3> HIDE DEF i, Walk
    <3> QED
      BY <1>2, <3>1, <3>2, <3>3
  <2> QED
    BY <2>1, <2>2
<1>4. G \in [Known \X (1..N) -> Known]
  <2> HIDE DEF Walk, Known
  <2> QED
    BY <1>3
<1>5. \A x \in Known, k \in 1..N : G[<<x, k>>] = Walk(x, k)
  <2> HIDE DEF Walk, Known
  <2> QED
    OBVIOUS
<1>6. PICK f : Solution(f, N, 1, G)
  <2> HIDE DEF G, Known, N
  <2> QED
    BY <1>2, <1>4, RecursionOnInterval
<1>7. f = [k \in 0..N |-> f[k]] /\ f[0] = 1 /\ \A k \in 1..N : f[k] = G[<<f[k - 1], k>>]
  <2> HIDE DEF G, N
  <2> QED
    BY <1>2, <1>6 DEF Solution
<1> HIDE DEF Known, G, N
<1>8. \A k \in 0..N : f[k] \in Known
  <2>1. ASSUME NEW k \in 1..N, f[k - 1] \in Known
        PROVE  f[k] \in Known
    <3> HIDE DEF Walk
    <3> QED
      BY <1>3, <1>5, <1>7, <2>1
  <2>2. f[0] \in Known /\ \A k \in 1..N : f[k - 1] \in Known => f[k] \in Known
    BY <1>2, <1>7, <2>1
  <2> QED
    BY <1>2, <2>2, StaysIn
<1>9. \A k \in 1..N : f[k] = Walk(f[k - 1], k)
  <2> TAKE k \in 1..N
  <2>1. f[k - 1] \in Known /\ f[k] = G[<<f[k - 1], k>>]
    BY <1>2, <1>7, <1>8
  <2> HIDE DEF Walk
  <2> QED
    BY <1>5, <2>1
<1>10. \A g : Is(g) <=> g = [k \in 0..N |-> IF k = 0 THEN 1 ELSE Walk(g[k - 1], k)]
  OBVIOUS
<1>11. Is(f)
  <2> SUFFICES f = [k \in 0..N |-> IF k = 0 THEN 1 ELSE Walk(f[k - 1], k)]
    BY <1>10
  <2> HIDE DEF Walk
  <2>1. ASSUME NEW k \in 0..N
        PROVE  f[k] = IF k = 0 THEN 1 ELSE Walk(f[k - 1], k)
    <3>1. CASE k = 0
      BY <1>7, <3>1
    <3>2. CASE k # 0
      <4>1. k \in 1..N
        BY <1>2, <3>2
      <4> QED
        BY <1>9, <3>2, <4>1
    <3> QED
      BY <3>1, <3>2
  <2> QED
    BY <1>7, <2>1
<1>12. Is(walk)
  <2> HIDE DEF Is
  <2> QED
    BY <1>11
<1>13. walk = [k \in 0..N |-> IF k = 0 THEN 1 ELSE Walk(walk[k - 1], k)]
  <2> HIDE DEF Is, walk, Walk
  <2> QED
    BY <1>10, <1>12
<1> HIDE DEF walk, Is, Walk
<1>14. walk[0] = 1 /\ \A k \in 1..N : walk[k] = Walk(walk[k - 1], k)
  BY <1>2, <1>13
<1>15. \A k \in 0..N : walk[k] \in Known
  <2>1. walk[0] \in Known /\ \A k \in 1..N : walk[k - 1] \in Known => walk[k] \in Known
    BY <1>2, <1>3, <1>14
  <2> QED
    BY <1>2, <2>1, StaysIn
<1>16. \A k \in 1..N : walk[k] = IF walk[k - 1] = 0 \/ findFamily(inodes, walk[k - 1], path[k]) = 0
                                THEN 0
                                ELSE inodes[walk[k - 1]].family[findFamily(inodes, walk[k - 1], path[k])]
  BY <1>14 DEF Walk
<1>17. LooksUp(walk, path)
  BY <1>14, <1>15, <1>16 DEF LooksUp, N, Known
<1> QED
  BY <1>1, <1>17 DEF N

\* So what it returns is an inode, or NULL.
LEMMA GetInodeKnown ==
    ASSUME inodes \in Trees, NEW path, Len(path) \in Nat
    PROVE  GetInode(path) \in 0..Len(inodes)
<1>1. PICK f : LooksUp(f, path) /\ GetInode(path) = f[Len(path)]
  BY GetInodeLoop
<1>2. Len(path) \in 0..Len(path)
  OBVIOUS
<1> QED
  BY <1>1, <1>2 DEF LooksUp

-----------------------------------------------------------------------------
(* fork numbers the open descriptors. *)

Rank(open, i) == Cardinality({j \in open : j <= i})

\* Each open descriptor has a number of its own and each number one of them.
LEMMA RankNumbers ==
    ASSUME NEW open \in SUBSET Descriptors
    PROVE  /\ Cardinality(open) \in Nat
           /\ \A i \in open : Rank(open, i) \in 1..Cardinality(open)
           /\ \A i, j \in open : Rank(open, i) = Rank(open, j) => i = j
           /\ \A k \in 1..Cardinality(open) : \E i \in open : Rank(open, i) = k
<1> DEFINE N == Cardinality(open)
           Upto(i) == {j \in open : j <= i}
<1>1. IsFiniteSet(open) /\ N \in Nat /\ open \subseteq Int
  <2>1. MAX_FD - 1 \in Int /\ 2 \in Int
    BY ArchiveAssumption
  <2>2. IsFiniteSet(Descriptors) /\ Descriptors \subseteq Int
    BY <2>1, FS_Interval DEF Descriptors
  <2>3. IsFiniteSet(open)
    BY <2>2, FS_Subset
  <2> QED
    BY <2>2, <2>3, FS_CardinalityType
<1>2. ASSUME NEW i \in open
      PROVE  IsFiniteSet(Upto(i)) /\ Rank(open, i) \in 1..N
  <2>1. Upto(i) \in SUBSET open /\ i \in Upto(i) /\ Upto(i) # {}
    BY <1>1
  <2> HIDE DEF Upto
  <2>2. IsFiniteSet(Upto(i)) /\ Cardinality(Upto(i)) <= N
    BY <1>1, <2>1, FS_Subset
  <2>3. Cardinality(Upto(i)) \in Nat /\ Cardinality(Upto(i)) # 0
    BY <2>1, <2>2, FS_CardinalityType, FS_EmptySet
  <2>4. Rank(open, i) = Cardinality(Upto(i))
    BY DEF Rank, Upto
  <2> QED
    BY <1>1, <2>2, <2>3, <2>4
<1>3. ASSUME NEW i \in open, NEW j \in open, i < j
      PROVE  Rank(open, i) # Rank(open, j)
  <2>1. Upto(i) \in SUBSET Upto(j) /\ j \in Upto(j) /\ j \notin Upto(i)
    <3>1. i \in Int /\ j \in Int /\ \A x \in open : x \in Int
      BY <1>1
    <3>2. \A x \in Upto(i) : x \in Upto(j)
      BY <1>3, <3>1
    <3>3. j \in Upto(j) /\ j \notin Upto(i)
      BY <1>3, <3>1
    <3> QED
      BY <3>2, <3>3
  <2>2. IsFiniteSet(Upto(j)) /\ Upto(i) # Upto(j)
    BY <1>2, <2>1
  <2>3. Cardinality(Upto(i)) # Cardinality(Upto(j))
    <3> HIDE DEF Upto
    <3> QED
      BY <2>1, <2>2, FS_Subset
  <2> QED
    BY <2>3 DEF Rank
<1>4. \A i, j \in open : Rank(open, i) = Rank(open, j) => i = j
  <2> TAKE i, j \in open
  <2>1. i \in Int /\ j \in Int
    BY <1>1
  <2>2. i = j \/ i < j \/ j < i
    BY <2>1
  <2> QED
    BY <1>3, <2>2
<1> DEFINE f == [i \in open |-> Rank(open, i)]
<1>5. f \in Injection(open, 1..N)
  <2>1. f \in [open -> 1..N]
    BY <1>2
  <2>2. \A i, j \in open : f[i] = f[j] => i = j
    BY <1>4
  <2> HIDE DEF f
  <2> QED
    BY <2>1, <2>2 DEF Injection, IsInjective
<1>6. IsFiniteSet(1..N) /\ Cardinality(1..N) = N
  <2>1. 1 \in Int /\ N \in Int
    BY <1>1
  <2> HIDE DEF N
  <2>2. IsFiniteSet(1..N) /\ Cardinality(1..N) = IF 1 > N THEN 0 ELSE N - 1 + 1
    BY <2>1, FS_Interval
  <2> QED
    BY <1>1, <2>2
<1>7. f \in Surjection(open, 1..N)
  <2> HIDE DEF f
  <2> QED
    BY <1>5, <1>6, FS_Injection
<1>8. \A k \in 1..N : \E i \in open : f[i] = k
  <2> HIDE DEF f
  <2> QED
    BY <1>7 DEF Surjection
<1> QED
  BY <1>1, <1>2, <1>4, <1>8

-----------------------------------------------------------------------------
(* The inductive invariant. *)

\* A file object: a file of the tree and an offset in its bytes.
Objects(tree) ==
    {f \in [node : Nat, currentoffset : Nat] :
       /\ f.node \in 1..Len(tree) /\ tree[f.node].type = FILE
       /\ f.currentoffset \in tree[f.node].start..tree[f.node].end}

Streams == [path : Seq(Names), currInode : -1..MAX_FAMILY]

Places == [path : Seq(Names), slash : BOOLEAN]

Tables(count) == [Procs -> [Descriptors -> 0..count]]

\* No object is reached through two descriptors, those of dead processes
\* included.
Private(tables) ==
    \A p, q \in Procs : \A i, j \in Descriptors :
      tables[p][i] # 0 /\ tables[p][i] = tables[q][j] => p = q /\ i = j

BootInv ==
    header \in HeaderPlaces /\ inodes \in Trees /\ (header < ArchiveEnd => files = <<>>)

ObjectsInv == files \in Seq(Objects(inodes)) /\ dirs \in Seq(Streams)

TablesInv == fd \in Tables(Len(files)) /\ Private(fd)

ProcsInv == cwd \in [Procs -> Places] /\ alive \subseteq Procs

FilesInv == BootInv /\ ObjectsInv /\ TablesInv /\ ProcsInv

\* The parts of the invariant.
LEMMA InvFacts ==
    ASSUME FilesInv
    PROVE  /\ header \in HeaderPlaces /\ inodes \in Trees
           /\ Len(inodes) \in Nat
           /\ files \in Seq(Objects(inodes)) /\ Len(files) \in Nat
           /\ dirs \in Seq(Streams) /\ Len(dirs) \in Nat
           /\ fd \in Tables(Len(files)) /\ Private(fd)
           /\ cwd \in [Procs -> Places] /\ alive \subseteq Procs
  BY TreeFacts DEF FilesInv, BootInv, ObjectsInv, TablesInv, ProcsInv

\* At boot there is the root inode and nothing is open.
LEMMA FilesInit == Init => FilesInv
<1> SUFFICES ASSUME Init
             PROVE  FilesInv
  OBVIOUS
<1> DEFINE root == [inodeName |-> <<>>, start |-> 0, end |-> 1, type |-> DIR, family |-> <<>>]
<1>1. header \in HeaderPlaces /\ ArchiveEnd \in Nat /\ ArchiveEnd >= 1
  <2>1. header = Place[1] /\ 1 \in 1..Len(Archive) + 1
    BY PlaceSteps, MemberType DEF Init
  <2>2. HEADER \in Nat /\ HEADER > 0 /\ Place[Len(Archive) + 1] \in Nat
    BY PlaceSteps, MemberType, ArchiveAssumption
  <2> QED
    BY <2>1, <2>2 DEF HeaderPlaces, ArchiveEnd
<1>2. root \in Inode /\ NodeOK(root, 1, 1)
  <2>1. <<>> \in Seq(Nat) /\ <<>> \in Names /\ Len(<<>>) = 0 /\ MAX_FAMILY > 0 /\ MAX_FAMILY \in Nat
    BY ArchiveAssumption DEF Names
  <2> QED
    BY <1>1, <2>1 DEF Inode, NodeOK, DIR
<1>3. inodes = <<root>>
  BY DEF Init
<1> HIDE DEF root
<1>4. inodes \in Trees
  BY <1>2, <1>3 DEF Trees
<1>5. BootInv
  BY <1>1, <1>4 DEF Init, BootInv
<1>6. ObjectsInv
  BY DEF Init, ObjectsInv
<1>7. TablesInv
  <2>1. \A p \in Procs, i \in Descriptors : fd[p][i] = 0
    BY DEF Init, Closed
  <2>2. fd \in Tables(0) /\ Len(files) = 0
    BY DEF Init, Closed, Tables
  <2> QED
    BY <2>1, <2>2 DEF TablesInv, Private
<1>8. ProcsInv
  <2>1. <<>> \in Seq(Names)
    OBVIOUS
  <2>2. Dir(<<>>, TRUE) \in Places /\ NoDir \in Places
    BY <2>1 DEF Dir, NoDir, Places
  <2>3. shell \in Procs
    BY ArchiveAssumption
  <2> QED
    BY <2>2, <2>3 DEF Init, ProcsInv
<1> QED
  BY <1>5, <1>6, <1>7, <1>8 DEF FilesInv

\* A turn of init_tarfs keeps the invariant.
LEMMA BootKeeps ==
    ASSUME FilesInv, init_tarfs
    PROVE  FilesInv'
<1> DEFINE m == Member(header)
           data == header + HEADER
<1>1. /\ header \in HeaderPlaces /\ header < ArchiveEnd /\ inodes \in Trees
      /\ files = <<>> /\ files' = files
      /\ header' = NextHeader(header, m.size)
      /\ inodes' = IF m.name = <<>> THEN inodes
                   ELSE InsertIntoRoot(inodes, m.name, data, data + m.size, m.type)
      /\ UNCHANGED <<files, dirs, fd, cwd, alive>>
  BY DEF FilesInv, BootInv, init_tarfs
<1>2. header' \in HeaderPlaces
  BY <1>1, HeaderStep
<1>3. inodes' \in Trees
  <2>1. CASE m.name = <<>>
    BY <1>1, <2>1
  <2>2. CASE m.name # <<>>
    <3>1. /\ m.name \in Seq(Names) /\ m.type \in {DIR, FILE} /\ m.size \in Nat
          /\ data \in 0..ArchiveEnd /\ data + m.size \in 0..ArchiveEnd
      BY <1>1, <2>2, HeaderStep DEF Names
    <3>2. ArchiveEnd \in Nat
      BY HeadersInArchive
    <3> HIDE DEF m, data
    <3>3. data \in Nat /\ data + m.size \in Nat /\ data <= data + m.size /\ data + m.size <= ArchiveEnd
      BY <3>1, <3>2
    <3> QED
      BY <1>1, <2>2, <3>1, <3>3, InsertIntoRootKeeps
  <2> QED
    BY <2>1, <2>2
<1> HIDE DEF m, data
<1>4. BootInv'
  BY <1>1, <1>2, <1>3 DEF BootInv
<1>5. ObjectsInv'
  BY <1>1 DEF FilesInv, ObjectsInv
<1>6. TablesInv' /\ ProcsInv'
  BY <1>1 DEF FilesInv, TablesInv, ProcsInv
<1> QED
  BY <1>4, <1>5, <1>6 DEF FilesInv

\* What every call leaves alone.
LEMMA CallsFacts ==
    ASSUME FilesInv, NEW p \in Procs, Calls(p)
    PROVE  /\ p \in alive /\ header' = header /\ inodes' = inodes
           /\ ~(header < ArchiveEnd)
<1>1. header \in 0..ArchiveEnd /\ ArchiveEnd \in Nat
  BY InvFacts, HeadersInArchive
<1> QED
  BY <1>1 DEF Calls, bootVars

\* The invariant after a call, from the parts that the call may change.
LEMMA CallKeeps ==
    ASSUME FilesInv, NEW p \in Procs, Calls(p),
           files' \in Seq(Objects(inodes)), dirs' \in Seq(Streams),
           fd' \in Tables(Len(files')), Private(fd'),
           cwd' \in [Procs -> Places], alive' \subseteq Procs
    PROVE  FilesInv'
<1>1. BootInv'
  BY CallsFacts DEF FilesInv, BootInv
<1>2. ObjectsInv' /\ TablesInv' /\ ProcsInv'
  BY CallsFacts DEF ObjectsInv, TablesInv, ProcsInv
<1> QED
  BY <1>1, <1>2 DEF FilesInv

\* A row that keeps entries, clears them or points to new objects.
NewRow(row, old, n, m) ==
    /\ row \in [Descriptors -> 0..m]
    /\ \A i \in Descriptors : row[i] = 0 \/ row[i] = old[i] \/ row[i] > n
    /\ \A i, j \in Descriptors : row[i] # 0 /\ row[i] = row[j] => i = j

\* Such a row keeps the objects private.
LEMMA TablesKeep ==
    ASSUME NEW n \in Nat, NEW m \in Nat, n <= m, NEW tables \in Tables(n), Private(tables),
           NEW p \in Procs, NEW row, NewRow(row, tables[p], n, m)
    PROVE  /\ [tables EXCEPT ![p] = row] \in Tables(m)
           /\ Private([tables EXCEPT ![p] = row])
<1> DEFINE t == [tables EXCEPT ![p] = row]
<1>1. /\ tables \in [Procs -> [Descriptors -> 0..n]]
      /\ row \in [Descriptors -> 0..m]
  BY DEF Tables, NewRow
<1>2. \A q \in Procs : t[q] = IF q = p THEN row ELSE tables[q]
  BY <1>1
<1>3. \A q \in Procs, i \in Descriptors : tables[q][i] \in 0..n
  BY <1>1
<1>4. t \in Tables(m)
  <2>1. \A q \in Procs : tables[q] \in [Descriptors -> 0..m]
    BY <1>1
  <2> QED
    BY <1>1, <2>1 DEF Tables
<1>5. ASSUME NEW q \in Procs, NEW r \in Procs, NEW i \in Descriptors, NEW j \in Descriptors,
             t[q][i] # 0, t[q][i] = t[r][j]
      PROVE  q = r /\ i = j
  <2> HIDE DEF t
  <2>1. CASE q = p /\ r = p
    BY <1>2, <1>5, <2>1 DEF NewRow
  <2>2. CASE q # p /\ r # p
    BY <1>2, <1>5, <2>2 DEF Private
  <2>3. CASE q = p /\ r # p
    <3>1. row[i] # 0 /\ row[i] = tables[r][j] /\ tables[r][j] \in 0..n
      BY <1>2, <1>3, <1>5, <2>3
    <3>2. row[i] = tables[p][i]
      BY <3>1 DEF NewRow
    <3>3. tables[p][i] # 0 /\ tables[p][i] = tables[r][j]
      BY <3>1, <3>2
    <3>4. p = r
      BY <3>3 DEF Private
    <3> QED
      BY <2>3, <3>4
  <2>4. CASE q # p /\ r = p
    <3>1. row[j] # 0 /\ row[j] = tables[q][i] /\ tables[q][i] \in 0..n
      BY <1>2, <1>3, <1>5, <2>4
    <3>2. row[j] = tables[p][j]
      BY <3>1 DEF NewRow
    <3>3. tables[p][j] # 0 /\ tables[p][j] = tables[q][i]
      BY <3>1, <3>2
    <3>4. p = q
      BY <3>3 DEF Private
    <3> QED
      BY <2>4, <3>4
  <2> QED
    BY <2>1, <2>2, <2>3, <2>4
<1>6. Private(t)
  <2> HIDE DEF t
  <2> QED
    BY <1>5 DEF Private
<1> QED
  BY <1>4, <1>6

\* Views of processes whose row and objects a step leaves alone.
LEMMA ViewKept ==
    ASSUME NEW p \in Procs, fd'[p] = fd[p],
           \A i \in Descriptors : fd[p][i] # 0 => files'[fd[p][i]] = files[fd[p][i]]
    PROVE  View(p)' = View(p)
<1>1. \A i \in Descriptors : (IF fd'[p][i] = 0 THEN <<>> ELSE <<files'[fd'[p][i]]>>)
                             = (IF fd[p][i] = 0 THEN <<>> ELSE <<files[fd[p][i]]>>)
  OBVIOUS
<1> QED
  BY <1>1 DEF View

\* What Isolation says of one step.
Alone ==
    /\ \A p, q \in alive \cap alive' : View(p)' # View(p) /\ View(q)' # View(q) => p = q
    /\ \A c \in alive' \ alive : \/ View(c)' = [i \in Descriptors |-> <<>>]
                                 \/ \E p \in alive \cap alive' : View(c)' = View(p)

\* A step that touches the descriptors of one process.
LEMMA OneActor ==
    ASSUME alive \subseteq Procs, alive' \subseteq alive, NEW q,
           \A p \in Procs \ {q} : View(p)' = View(p)
    PROVE  Alone
<1>1. \A p, r \in alive \cap alive' : View(p)' # View(p) /\ View(r)' # View(r) => p = r
  <2> SUFFICES ASSUME NEW p \in alive \cap alive', NEW r \in alive \cap alive',
                      View(p)' # View(p), View(r)' # View(r)
               PROVE  p = r
    OBVIOUS
  <2> p = q /\ r = q
    OBVIOUS
  <2> QED
    OBVIOUS
<1> QED
  BY <1>1 DEF Alone

\* A step that leaves descriptors and objects alone.
LEMMA Untouched ==
    ASSUME alive \subseteq Procs, UNCHANGED <<files, fd>>, alive' = alive
    PROVE  Alone
<1>1. \A p \in Procs : View(p)' = View(p)
  BY DEF View
<1> QED
  BY <1>1, OneActor

\* Entries of a table are objects.
LEMMA EntryFacts ==
    ASSUME FilesInv, NEW p \in Procs, NEW i \in Descriptors
    PROVE  /\ fd[p] \in [Descriptors -> 0..Len(files)]
           /\ fd[p][i] \in 0..Len(files)
           /\ fd[p][i] # 0 => fd[p][i] \in 1..Len(files) /\ files[fd[p][i]] \in Objects(inodes)
<1>1. fd[p] \in [Descriptors -> 0..Len(files)] /\ fd[p][i] \in 0..Len(files)
  BY InvFacts DEF Tables
<1>2. files \in Seq(Objects(inodes)) /\ Len(files) \in Nat
  BY InvFacts
<1>3. \A k \in 1..Len(files) : files[k] \in Objects(inodes)
  BY <1>2
<1> QED
  BY <1>1, <1>2, <1>3

-----------------------------------------------------------------------------
(* The calls. *)

\* Least element of a set of descriptors (getfd).
LEMMA MinDescriptor ==
    ASSUME NEW S \in SUBSET Descriptors, S # {}
    PROVE  Min(S) \in S
<1>1. S \subseteq Nat
  BY ArchiveAssumption DEF Descriptors
<1>2. \E m \in S : \A n \in S : m <= n
  BY <1>1, LeastOfNats
<1> QED
  BY <1>2 DEF Min

\* k_open makes an object at the first byte of the file.
LEMMA OpenKeeps ==
    ASSUME FilesInv, NEW p \in Procs, NEW path \in Paths, k_open(p, path)
    PROVE  FilesInv' /\ Alone
<1> DEFINE free == {i \in Descriptors : fd[p][i] = 0}
           node == GetInode(path)
           file == [node |-> node, currentoffset |-> inodes[node].start]
           N == Len(files)
           row == [fd[p] EXCEPT ![Min(free)] = N + 1]
<1>1. /\ Calls(p) /\ IsFile(node) /\ free # {}
      /\ files' = Append(files, file)
      /\ fd' = [fd EXCEPT ![p] = row]
      /\ UNCHANGED <<dirs, cwd, alive>>
  BY DEF k_open
<1>2. /\ files \in Seq(Objects(inodes)) /\ N \in Nat /\ inodes \in Trees
      /\ fd \in Tables(N) /\ Private(fd) /\ alive \subseteq Procs
  BY InvFacts
<1>3. file \in Objects(inodes)
  <2>1. Len(path) \in Nat
    BY CallsAssumption
  <2>2. node \in 1..Len(inodes) /\ inodes[node].type # DIR
    <3>1. node \in 0..Len(inodes)
      BY <1>2, <2>1, GetInodeKnown
    <3> QED
      BY <1>1, <1>2, <3>1, TreeFacts DEF IsFile
  <2>3. /\ inodes[node].type = FILE /\ inodes[node].start \in Nat /\ inodes[node].end \in Nat
        /\ inodes[node].start <= inodes[node].end /\ node \in Nat
    BY <1>2, <2>2, TreeFacts DEF NodeOK
  <2> HIDE DEF node
  <2> QED
    BY <2>2, <2>3 DEF Objects
<1>4. Min(free) \in free /\ Min(free) \in Descriptors
  <2>1. free \in SUBSET Descriptors
    OBVIOUS
  <2> HIDE DEF free
  <2> QED
    BY <1>1, <2>1, MinDescriptor
<1> HIDE DEF file, node
<1>5. /\ files' \in Seq(Objects(inodes)) /\ Len(files') = N + 1
      /\ \A k \in 1..N : files'[k] = files[k]
  <2> DEFINE S == Objects(inodes)
  <2> HIDE DEF S
  <2>1. files \in Seq(S) /\ file \in S
    BY <1>2, <1>3 DEF S
  <2>2. /\ Append(files, file) \in Seq(S) /\ Len(Append(files, file)) = N + 1
        /\ \A k \in 1..N : Append(files, file)[k] = files[k]
    BY <2>1
  <2> QED
    BY <1>1, <2>2 DEF S
<1>6. NewRow(row, fd[p], N, N + 1)
  <2>1. fd[p] \in [Descriptors -> 0..N] /\ \A i, j \in Descriptors : fd[p][i] # 0 /\ fd[p][i] = fd[p][j] => i = j
    BY <1>2 DEF Tables, Private
  <2> DEFINE d == Min(free)
             old == fd[p]
  <2>2. d \in Descriptors
    BY <1>4
  <2> HIDE DEF d, old, N
  <2>3. /\ [old EXCEPT ![d] = N + 1] \in [Descriptors -> 0..N + 1]
        /\ \A i \in Descriptors : [old EXCEPT ![d] = N + 1][i] = IF i = d THEN N + 1 ELSE old[i]
    BY <1>2, <2>1, <2>2 DEF old
  <2>4. \A i \in Descriptors : old[i] \in 0..N /\ old[i] # N + 1
    BY <1>2, <2>1 DEF old
  <2>5. \A i, j \in Descriptors : old[i] # 0 /\ old[i] = old[j] => i = j
    BY <2>1 DEF old
  <2>6. NewRow([old EXCEPT ![d] = N + 1], old, N, N + 1)
    BY <1>2, <2>3, <2>4, <2>5 DEF NewRow
  <2> QED
    BY <2>6 DEF d, old
<1> HIDE DEF row
<1>7. fd' \in Tables(Len(files')) /\ Private(fd')
  <2>1. N + 1 \in Nat /\ N <= N + 1
    BY <1>2
  <2> HIDE DEF N
  <2> QED
    BY <1>1, <1>2, <1>5, <1>6, <2>1, TablesKeep
<1>8. FilesInv'
  BY <1>1, <1>5, <1>7, CallKeeps, InvFacts
<1>9. ASSUME NEW q \in Procs \ {p}
      PROVE  View(q)' = View(q)
  <2>1. fd'[q] = fd[q]
    BY <1>1, <1>2 DEF Tables
  <2>2. ASSUME NEW i \in Descriptors, fd[q][i] # 0
        PROVE  files'[fd[q][i]] = files[fd[q][i]]
    BY <1>5, <2>2, EntryFacts
  <2> QED
    BY <2>1, <2>2, ViewKept
<1>10. Alone
  BY <1>1, <1>2, <1>9, OneActor
<1> QED
  BY <1>8, <1>10

\* A step that clears descriptors of one process and makes no object.
LEMMA Clears ==
    ASSUME FilesInv, NEW p \in Procs, NEW q \in Procs, Calls(q), UNCHANGED <<files, dirs>>, NEW row,
           NewRow(row, fd[p], Len(files), Len(files)), fd' = [fd EXCEPT ![p] = row],
           cwd' \in [Procs -> Places], alive' \subseteq Procs
    PROVE  FilesInv' /\ \A r \in Procs \ {p} : View(r)' = View(r)
<1>1. /\ Len(files) \in Nat /\ fd \in Tables(Len(files)) /\ Private(fd)
      /\ files \in Seq(Objects(inodes)) /\ dirs \in Seq(Streams)
  BY InvFacts
<1>2. Len(files) <= Len(files)
  BY <1>1
<1>3. fd' \in Tables(Len(files)) /\ Private(fd')
  BY <1>1, <1>2, TablesKeep
<1>4. FilesInv'
  BY <1>1, <1>3, CallKeeps
<1>5. ASSUME NEW r \in Procs \ {p}
      PROVE  View(r)' = View(r)
  <2>1. fd'[r] = fd[r]
    BY <1>1 DEF Tables
  <2> QED
    BY <2>1, ViewKept
<1> QED
  BY <1>4, <1>5

\* A cleared table is such a row.
LEMMA ClosedIsNewRow ==
    ASSUME NEW old, NEW n \in Nat
    PROVE  NewRow(Closed, old, n, n)
<1>1. Closed \in [Descriptors -> 0..n] /\ \A i \in Descriptors : Closed[i] = 0
  BY DEF Closed
<1> QED
  BY <1>1 DEF NewRow

\* k_close clears one descriptor of the caller.
LEMMA CloseKeeps ==
    ASSUME FilesInv, NEW p \in Procs, NEW i \in Descriptors, k_close(p, i)
    PROVE  FilesInv' /\ Alone
<1> DEFINE N == Len(files)
           old == fd[p]
           row == [old EXCEPT ![i] = 0]
<1>1. /\ Calls(p) /\ fd' = [fd EXCEPT ![p] = row]
      /\ UNCHANGED <<files, dirs, cwd, alive>>
  BY DEF k_close
<1>2. N \in Nat /\ old \in [Descriptors -> 0..N] /\ alive \subseteq Procs /\ cwd \in [Procs -> Places]
  BY InvFacts, EntryFacts
<1>3. \A k, j \in Descriptors : old[k] # 0 /\ old[k] = old[j] => k = j
  BY InvFacts DEF Private
<1>4. NewRow(row, old, N, N)
  <2> HIDE DEF N, old
  <2>1. row \in [Descriptors -> 0..N] /\ \A k \in Descriptors : row[k] = IF k = i THEN 0 ELSE old[k]
    BY <1>2
  <2> HIDE DEF row
  <2> QED
    BY <1>3, <2>1 DEF NewRow
<1> HIDE DEF row
<1>5. FilesInv' /\ \A r \in Procs \ {p} : View(r)' = View(r)
  BY <1>1, <1>2, <1>4, Clears
<1> QED
  BY <1>1, <1>2, <1>5, OneActor

\* Reading stops at the end of the file.
LEMMA ReadOffset ==
    ASSUME inodes \in Trees, NEW file \in Objects(inodes), NEW count \in Nat
    PROVE  [file EXCEPT !.currentoffset = @ + BytesRead(file, count)] \in Objects(inodes)
<1> DEFINE node == inodes[file.node]
           offset == file.currentoffset
           left == node.end - offset
           bytes == BytesRead(file, count)
<1>1. /\ file \in [node : Nat, currentoffset : Nat]
      /\ file.node \in 1..Len(inodes) /\ node.type = FILE
      /\ offset \in node.start..node.end
  BY DEF Objects
<1>2. node.start \in Nat /\ node.end \in Nat /\ offset \in Nat
  BY <1>1, TreeFacts
<1>3. bytes = Min({count, left})
  BY DEF BytesRead
<1> HIDE DEF bytes, node, offset
<1>4. bytes \in Nat /\ bytes <= left
  <2>1. left \in Nat
    BY <1>1, <1>2
  <2>2. \E m \in {count, left} : \A n \in {count, left} : m <= n
    BY <2>1
  <2>3. Min({count, left}) \in {count, left} /\ \A n \in {count, left} : Min({count, left}) <= n
    <3> HIDE DEF left
    <3> QED
      BY <2>2 DEF Min
  <2> HIDE DEF left
  <2> QED
    BY <1>3, <2>1, <2>3
<1>5. offset + bytes \in Nat /\ offset + bytes \in node.start..node.end
  BY <1>1, <1>2, <1>4
<1>6. [file EXCEPT !.currentoffset = offset + bytes] \in Objects(inodes)
  <2> DEFINE to == offset + bytes
  <2>1. to \in Nat /\ to \in inodes[file.node].start..inodes[file.node].end
    BY <1>5 DEF node
  <2> HIDE DEF to
  <2>2. inodes[file.node].type = FILE
    BY <1>1 DEF node
  <2>3. [file EXCEPT !.currentoffset = to] \in [node : Nat, currentoffset : Nat]
    BY <1>1, <2>1
  <2>4. [file EXCEPT !.currentoffset = to].node = file.node /\ [file EXCEPT !.currentoffset = to].currentoffset = to
    BY <1>1
  <2>5. [file EXCEPT !.currentoffset = to] \in Objects(inodes)
    BY <1>1, <2>1, <2>2, <2>3, <2>4 DEF Objects
  <2> QED
    BY <2>5 DEF to
<1> QED
  BY <1>6 DEF offset, bytes

\* k_read moves the offset of an object that only the caller has.
LEMMA ReadKeeps ==
    ASSUME FilesInv, NEW p \in Procs, NEW i \in Descriptors, NEW count \in Counts, k_read(p, i, count)
    PROVE  FilesInv' /\ Alone
<1> DEFINE x == fd[p][i]
           S == Objects(inodes)
           file == [files[x] EXCEPT !.currentoffset = @ + BytesRead(files[x], count)]
<1>1. /\ Calls(p) /\ x # 0 /\ files' = [files EXCEPT ![x] = file]
      /\ UNCHANGED <<dirs, fd, cwd, alive>>
  BY DEF k_read
<1>2. /\ files \in Seq(S) /\ Len(files) \in Nat /\ inodes \in Trees
      /\ fd \in Tables(Len(files)) /\ Private(fd) /\ alive \subseteq Procs
  BY InvFacts
<1>3. x \in 1..Len(files) /\ files[x] \in S /\ file \in S
  <2>1. x \in 1..Len(files) /\ files[x] \in S
    BY <1>1, EntryFacts
  <2>2. count \in Nat
    BY CallsAssumption
  <2>3. file \in S
    BY <1>2, <2>1, <2>2, ReadOffset
  <2> QED
    BY <2>1, <2>3
<1>4. /\ files' \in Seq(S) /\ Len(files') = Len(files)
      /\ \A k \in 1..Len(files) : k # x => files'[k] = files[k]
  <2> HIDE DEF S, file, x
  <2> QED
    BY <1>1, <1>2, <1>3
<1> HIDE DEF file
<1>5. FilesInv'
  BY <1>1, <1>2, <1>4, CallKeeps, InvFacts
<1>6. ASSUME NEW q \in Procs \ {p}
      PROVE  View(q)' = View(q)
  <2>1. fd'[q] = fd[q]
    BY <1>1
  <2>2. ASSUME NEW j \in Descriptors, fd[q][j] # 0
        PROVE  files'[fd[q][j]] = files[fd[q][j]]
    <3>1. fd[q][j] \in 1..Len(files)
      BY <2>2, EntryFacts
    <3>2. fd[q][j] # x
      BY <1>1, <1>2, <2>2 DEF Private
    <3> QED
      BY <1>4, <3>1, <3>2
  <2> QED
    BY <2>1, <2>2, ViewKept
<1>7. Alone
  BY <1>1, <1>2, <1>6, OneActor
<1> QED
  BY <1>5, <1>7

\* Calls on directory streams change dirs only.
LEMMA StreamCall ==
    ASSUME FilesInv, NEW p \in Procs, Calls(p), UNCHANGED <<files, fd, cwd, alive>>,
           dirs' \in Seq(Streams)
    PROVE  FilesInv' /\ Alone
<1>1. FilesInv'
  BY CallKeeps, InvFacts
<1>2. Alone
  BY Untouched, InvFacts
<1> QED
  BY <1>1, <1>2

\* k_opendir makes a stream at its first entry, or a closed one.
LEMMA OpendirKeeps ==
    ASSUME FilesInv, NEW p \in Procs, NEW path \in Paths, k_opendir(p, path)
    PROVE  FilesInv' /\ Alone
<1> DEFINE new == IF IsDirectory(GetInode(path)) THEN [path |-> path, currInode |-> 1]
                  ELSE [path |-> <<>>, currInode |-> -1]
<1>1. Calls(p) /\ dirs' = Append(dirs, new) /\ UNCHANGED <<files, fd, cwd, alive>>
  BY DEF k_opendir
<1>2. new \in Streams
  <2>1. path \in Seq(Names) /\ <<>> \in Seq(Names) /\ 1 \in -1..MAX_FAMILY /\ -1 \in -1..MAX_FAMILY
    BY CallsAssumption, ArchiveAssumption DEF Names
  <2> QED
    BY <2>1 DEF Streams
<1> HIDE DEF new
<1>3. dirs' \in Seq(Streams)
  BY <1>1, <1>2, InvFacts
<1> QED
  BY <1>1, <1>3, StreamCall

\* k_readdir does not go beyond the family of the directory.
LEMMA ReaddirKeeps ==
    ASSUME FilesInv, NEW p \in Procs, NEW d \in 1..Len(dirs), k_readdir(p, d)
    PROVE  FilesInv' /\ Alone
<1> DEFINE dir == dirs[d]
           node == GetInode(dir.path)
           to == [dir EXCEPT !.currInode = @ + 1]
<1>1. /\ Calls(p) /\ node # 0 /\ dir.currInode # -1
      /\ dir.currInode < Len(inodes[node].family) + 1
      /\ dirs' = [dirs EXCEPT ![d] = to]
      /\ UNCHANGED <<files, fd, cwd, alive>>
  BY DEF k_readdir
<1>2. dirs \in Seq(Streams) /\ inodes \in Trees /\ Len(inodes) \in Nat
  BY InvFacts
<1>3. dir \in Streams
  BY <1>2
<1> HIDE DEF dir
<1>4. Len(dir.path) \in Nat /\ dir.currInode \in -1..MAX_FAMILY
  BY <1>3 DEF Streams
<1>5. node \in 1..Len(inodes)
  <2>1. node \in 0..Len(inodes)
    BY <1>2, <1>4, GetInodeKnown
  <2> QED
    BY <1>1, <1>2, <2>1
<1> HIDE DEF node
<1>6. dir.currInode + 1 \in -1..MAX_FAMILY
  <2>1. Len(inodes[node].family) \in Nat /\ Len(inodes[node].family) < MAX_FAMILY /\ MAX_FAMILY \in Nat
    BY <1>2, <1>5, TreeFacts, ArchiveAssumption DEF NodeOK
  <2> QED
    BY <1>1, <1>4, <2>1
<1>7. to \in Streams
  BY <1>3, <1>6 DEF Streams
<1> HIDE DEF to
<1>8. dirs' \in Seq(Streams)
  BY <1>1, <1>2, <1>7
<1> QED
  BY <1>1, <1>8, StreamCall

\* k_closedir closes a stream.
LEMMA ClosedirKeeps ==
    ASSUME FilesInv, NEW p \in Procs, NEW d \in 1..Len(dirs), k_closedir(p, d)
    PROVE  FilesInv' /\ Alone
<1> DEFINE none == [path |-> <<>>, currInode |-> -1]
<1>1. Calls(p) /\ dirs' = [dirs EXCEPT ![d] = none] /\ UNCHANGED <<files, fd, cwd, alive>>
  BY DEF k_closedir
<1>2. none \in Streams
  <2>1. <<>> \in Seq(Names) /\ -1 \in -1..MAX_FAMILY
    BY ArchiveAssumption
  <2> QED
    BY <2>1 DEF Streams
<1> HIDE DEF none
<1>3. dirs' \in Seq(Streams)
  BY <1>1, <1>2, InvFacts
<1> QED
  BY <1>1, <1>3, StreamCall

\* A working directory is replaced by a path.
LEMMA SetDirKeeps ==
    ASSUME FilesInv, NEW p \in Procs, Calls(p), NEW dir \in Places, SetDir(p, dir)
    PROVE  FilesInv' /\ Alone
<1>1. cwd' = [cwd EXCEPT ![p] = dir] /\ UNCHANGED <<files, dirs, fd, alive>>
  BY DEF SetDir
<1>2. cwd' \in [Procs -> Places]
  BY <1>1, InvFacts
<1>3. FilesInv'
  BY <1>1, <1>2, CallKeeps, InvFacts
<1>4. Alone
  BY <1>1, Untouched, InvFacts
<1> QED
  BY <1>3, <1>4

\* A name joined to currentDir.
LEMMA JoinedIsPath ==
    ASSUME NEW dir \in Places, NEW name \in Names
    PROVE  Joined(dir, name) \in Seq(Names)
<1> DEFINE path == dir.path
           n == Len(path)
<1>1. path \in Seq(Names) /\ n \in Nat
  BY DEF Places
<1>2. CASE dir.slash
  <2> HIDE DEF path
  <2>1. Append(path, name) \in Seq(Names)
    BY <1>1
  <2> QED
    BY <1>2, <2>1 DEF Joined, path
<1>3. CASE ~dir.slash
  <2>1. Joined(dir, name) = [path EXCEPT ![n] = path[n] \o name]
    BY <1>3 DEF Joined
  <2> HIDE DEF path
  <2>2. CASE n = 0
    <3> DEFINE v == path[n] \o name
    <3>1. path = [i \in 1..n |-> path[i]] /\ n \notin 1..n
      BY <1>1, <2>2
    <3> HIDE DEF v, n
    <3>2. [path EXCEPT ![n] = v] = path
      BY <3>1
    <3> QED
      BY <1>1, <2>1, <3>2 DEF v
  <2>3. CASE n # 0
    <3>1. path[n] \in Names
      BY <1>1, <2>3
    <3>2. path[n] \o name \in Names
      BY <3>1 DEF Names
    <3> QED
      BY <1>1, <2>1, <2>3, <3>2
  <2> QED
    BY <2>2, <2>3
<1> QED
  BY <1>2, <1>3

\* chdir leaves a path in currentDir, whatever it was given.
LEMMA ChdirKeeps ==
    ASSUME FilesInv, NEW p \in Procs, ChdirCall(p)
    PROVE  FilesInv' /\ Alone
<1>1. cwd[p] \in Places
  BY InvFacts
<1>2. ASSUME NEW path \in Paths, NEW slash \in BOOLEAN, ChdirAbsolute(p, path, slash)
      PROVE  FilesInv' /\ Alone
  <2>1. Dir(path, slash) \in Places
    BY CallsAssumption DEF Dir, Places, Names
  <2> QED
    BY <1>2, <2>1, SetDirKeeps DEF ChdirAbsolute
<1>3. ASSUME NEW path \in Paths, Len(path) = 1, ChdirRelative(p, path[1])
      PROVE  FilesInv' /\ Alone
  <2>1. path[1] \in Names
    <3>1. path \in Seq(Names)
      BY CallsAssumption DEF Names
    <3> QED
      BY <1>3, <3>1
  <2>2. Joined(cwd[p], path[1]) \in Seq(Names)
    BY <1>1, <2>1, JoinedIsPath
  <2>3. Relative(cwd[p], path[1]) \in Places
    BY <1>1, <2>2 DEF Relative, Dir, Places
  <2> QED
    BY <1>3, <2>3, SetDirKeeps DEF ChdirRelative
<1>4. ASSUME ChdirBack(p)
      PROVE  FilesInv' /\ Alone
  <2> DEFINE path == cwd[p].path
             dir == IF path = <<>> THEN cwd[p] ELSE Dir(Front(path), TRUE)
  <2>1. path \in Seq(Names)
    BY <1>1 DEF Places
  <2>2. path # <<>> => Front(path) \in Seq(Names)
    <3> HIDE DEF path
    <3> QED
      BY <2>1 DEF Front
  <2>3. dir \in Places
    BY <1>1, <2>2 DEF Dir, Places
  <2>4. Calls(p) /\ SetDir(p, dir)
    BY <1>4 DEF ChdirBack
  <2> HIDE DEF dir
  <2> QED
    BY <2>3, <2>4, SetDirKeeps
<1> QED
  BY <1>2, <1>3, <1>4 DEF ChdirCall

\* A step that makes one process and touches no other process's descriptors.
LEMMA NewProcess ==
    ASSUME alive \subseteq Procs, NEW c, c \notin alive, alive' \subseteq alive \cup {c},
           \A q \in Procs \ {c} : View(q)' = View(q),
           \/ View(c)' = [i \in Descriptors |-> <<>>]
           \/ \E p \in alive \cap alive' : View(c)' = View(p)
    PROVE  Alone
<1>1. \A q \in alive \cap alive' : View(q)' = View(q)
  OBVIOUS
<1>2. \A d \in alive' \ alive : d = c
  OBVIOUS
<1> QED
  BY <1>1, <1>2 DEF Alone

\* The objects that fork makes: one for each open descriptor, equal to its.
LEMMA CopiesMade ==
    ASSUME FilesInv, NEW p \in Procs
    PROVE  LET made == DescriptorsCopied(p)
           IN \E m \in Nat :
                /\ made.objects \in Seq(Objects(inodes))
                /\ Len(made.objects) = Len(files) + m
                /\ \A k \in 1..Len(files) : made.objects[k] = files[k]
                /\ made.table \in [Descriptors -> 0..Len(files) + m]
                /\ \A i \in Descriptors : fd[p][i] = 0 => made.table[i] = 0
                /\ \A i \in Descriptors : fd[p][i] # 0 =>
                     /\ made.table[i] > Len(files)
                     /\ made.objects[made.table[i]] = files[fd[p][i]]
                     /\ \A j \in Descriptors : made.table[j] = made.table[i] => i = j
<1> DEFINE open == {i \in Descriptors : fd[p][i] # 0}
           rank(i) == Cardinality({j \in open : j <= i})
           nth(k) == CHOOSE i \in open : rank(i) = k
           N == Len(files)
           m == Cardinality(open)
           S == Objects(inodes)
           copies == [k \in 1..m |-> files[fd[p][nth(k)]]]
           table == [i \in Descriptors |-> IF fd[p][i] = 0 THEN 0 ELSE N + rank(i)]
           made == DescriptorsCopied(p)
<1>1. made = [table |-> table, objects |-> files \o copies]
  BY DEF DescriptorsCopied
<1>2. files \in Seq(S) /\ N \in Nat
  BY InvFacts
<1>3. /\ m \in Nat /\ \A i \in open : rank(i) \in 1..m
      /\ \A i, j \in open : rank(i) = rank(j) => i = j
      /\ \A k \in 1..m : \E i \in open : rank(i) = k
  <2>1. open \in SUBSET Descriptors
    OBVIOUS
  <2> HIDE DEF open
  <2> QED
    BY <2>1, RankNumbers DEF Rank
<1>4. \A i \in Descriptors : i \in open <=> fd[p][i] # 0
  OBVIOUS
<1> HIDE DEF open, rank, m, S
<1>5. \A k \in 1..m : nth(k) \in open
  BY <1>3
<1>6. \A i \in open : nth(rank(i)) = i
  <2> TAKE i \in open
  <2>1. nth(rank(i)) \in open /\ rank(nth(rank(i))) = rank(i)
    OBVIOUS
  <2> HIDE DEF nth
  <2> QED
    BY <1>3, <2>1
<1>7. \A i \in open : i \in Descriptors /\ files[fd[p][i]] \in S
  <2> TAKE i \in open
  <2>1. i \in Descriptors
    BY DEF open
  <2> QED
    BY <1>4, <2>1, EntryFacts DEF S
<1> HIDE DEF nth
<1>8. copies \in Seq(S) /\ Len(copies) = m /\ \A i \in open : copies[rank(i)] = files[fd[p][i]]
  <2>1. copies \in [1..m -> S]
    BY <1>5, <1>7
  <2>2. copies \in Seq(S) /\ Len(copies) = m
    <3> HIDE DEF copies
    <3> QED
      BY <1>3, <2>1
  <2> QED
    BY <1>3, <1>6, <2>2
<1> HIDE DEF copies, N
<1>9. /\ files \o copies \in Seq(S) /\ Len(files \o copies) = N + m
      /\ \A k \in 1..N : (files \o copies)[k] = files[k]
      /\ \A k \in 1..m : (files \o copies)[N + k] = copies[k]
  BY <1>2, <1>3, <1>8 DEF N
<1>10. \A i \in Descriptors : table[i] = IF i \in open THEN N + rank(i) ELSE 0
  BY <1>4
<1>11. table \in [Descriptors -> 0..N + m]
  <2>1. ASSUME NEW i \in Descriptors
        PROVE  table[i] \in 0..N + m
    <3> HIDE DEF table
    <3>1. CASE i \in open
      <4>1. rank(i) \in 1..m
        BY <1>3, <3>1
      <4> QED
        BY <1>2, <1>3, <1>10, <3>1, <4>1
    <3>2. CASE i \notin open
      BY <1>2, <1>3, <1>10, <3>2
    <3> QED
      BY <3>1, <3>2
  <2> QED
    BY <2>1
<1> HIDE DEF table
<1>12. ASSUME NEW i \in Descriptors, fd[p][i] # 0
       PROVE  /\ table[i] > N
              /\ (files \o copies)[table[i]] = files[fd[p][i]]
              /\ \A j \in Descriptors : table[j] = table[i] => i = j
  <2>1. i \in open /\ table[i] = N + rank(i) /\ rank(i) \in 1..m
    BY <1>3, <1>4, <1>10, <1>12
  <2>2. table[i] > N
    BY <1>2, <1>3, <2>1
  <2>3. (files \o copies)[table[i]] = files[fd[p][i]]
    BY <1>8, <1>9, <2>1
  <2>4. ASSUME NEW j \in Descriptors, table[j] = table[i]
        PROVE  i = j
    <3>1. CASE j \in open
      <4>1. table[j] = N + rank(j) /\ rank(j) \in 1..m
        BY <1>3, <1>10, <3>1
      <4>2. rank(i) = rank(j)
        BY <1>2, <1>3, <2>1, <2>4, <4>1
      <4> QED
        BY <1>3, <2>1, <3>1, <4>2
    <3>2. CASE j \notin open
      BY <1>2, <1>10, <2>2, <2>4, <3>2
    <3> QED
      BY <3>1, <3>2
  <2> QED
    BY <2>2, <2>3, <2>4
<1>13. \A i \in Descriptors : fd[p][i] = 0 => table[i] = 0
  BY <1>4, <1>10
<1>14. made.table = table /\ made.objects = files \o copies
  BY <1>1
<1> HIDE DEF made
<1>15. /\ made.objects \in Seq(S)
       /\ Len(made.objects) = N + m
       /\ \A k \in 1..N : made.objects[k] = files[k]
       /\ made.table \in [Descriptors -> 0..N + m]
       /\ \A i \in Descriptors : fd[p][i] = 0 => made.table[i] = 0
       /\ \A i \in Descriptors : fd[p][i] # 0 =>
            /\ made.table[i] > N
            /\ made.objects[made.table[i]] = files[fd[p][i]]
            /\ \A j \in Descriptors : made.table[j] = made.table[i] => i = j
  BY <1>9, <1>11, <1>12, <1>13, <1>14
<1> QED
  BY <1>3, <1>15 DEF made, N, S

\* fork gives the child objects of its own, equal to those of the parent.
LEMMA ForkKeeps ==
    ASSUME FilesInv, NEW p \in Procs, NEW c \in Procs, syscall_fork(p, c)
    PROVE  FilesInv' /\ Alone
<1> DEFINE made == DescriptorsCopied(p)
           objects == made.objects
           row == made.table
           N == Len(files)
<1>1. /\ Calls(p) /\ c \notin alive
      /\ files' = objects /\ fd' = [fd EXCEPT ![c] = row]
      /\ cwd' = [cwd EXCEPT ![c] = cwd[p]] /\ alive' = alive \cup {c} /\ dirs' = dirs
  BY DEF syscall_fork
<1>2. /\ N \in Nat /\ fd \in Tables(N) /\ Private(fd) /\ alive \subseteq Procs
      /\ dirs \in Seq(Streams) /\ cwd \in [Procs -> Places]
  BY InvFacts
<1>3. PICK m \in Nat :
        /\ objects \in Seq(Objects(inodes))
        /\ Len(objects) = N + m
        /\ \A k \in 1..N : objects[k] = files[k]
        /\ row \in [Descriptors -> 0..N + m]
        /\ \A i \in Descriptors : fd[p][i] = 0 => row[i] = 0
        /\ \A i \in Descriptors : fd[p][i] # 0 =>
             /\ row[i] > N
             /\ objects[row[i]] = files[fd[p][i]]
             /\ \A j \in Descriptors : row[j] = row[i] => i = j
  BY CopiesMade
<1> HIDE DEF objects, row
<1>4. NewRow(row, fd[c], N, N + m)
  <2>1. \A i \in Descriptors : row[i] = 0 \/ row[i] > N
    BY <1>3
  <2>2. \A i, j \in Descriptors : row[i] # 0 /\ row[i] = row[j] => i = j
    BY <1>3
  <2> QED
    BY <1>3, <2>1, <2>2 DEF NewRow
<1>5. fd' \in Tables(Len(files')) /\ Private(fd')
  <2>1. N + m \in Nat /\ N <= N + m
    BY <1>2
  <2>2. Len(files') = N + m
    BY <1>1, <1>3
  <2> HIDE DEF N
  <2>3. [fd EXCEPT ![c] = row] \in Tables(N + m) /\ Private([fd EXCEPT ![c] = row])
    BY <1>2, <1>4, <2>1, TablesKeep
  <2> QED
    BY <1>1, <2>2, <2>3
<1>6. cwd' \in [Procs -> Places] /\ alive' \subseteq Procs
  BY <1>1, <1>2
<1>7. FilesInv'
  BY <1>1, <1>2, <1>3, <1>5, <1>6, CallKeeps
<1>8. ASSUME NEW q \in Procs \ {c}
      PROVE  View(q)' = View(q)
  <2>1. fd'[q] = fd[q]
    BY <1>1, <1>2 DEF Tables
  <2>2. ASSUME NEW i \in Descriptors, fd[q][i] # 0
        PROVE  files'[fd[q][i]] = files[fd[q][i]]
    <3>1. fd[q][i] \in 1..N
      BY <2>2, EntryFacts
    <3> QED
      BY <1>1, <1>3, <3>1
  <2> QED
    BY <2>1, <2>2, ViewKept
<1>9. View(c)' = View(p)
  <2>1. fd'[c] = row
    BY <1>1, <1>2 DEF Tables
  <2>2. ASSUME NEW i \in Descriptors
        PROVE  (IF fd'[c][i] = 0 THEN <<>> ELSE <<files'[fd'[c][i]]>>)
               = (IF fd[p][i] = 0 THEN <<>> ELSE <<files[fd[p][i]]>>)
    <3>1. CASE fd[p][i] = 0
      BY <1>3, <2>1, <3>1
    <3>2. CASE fd[p][i] # 0
      <4>1. row[i] > N /\ objects[row[i]] = files[fd[p][i]]
        BY <1>3, <3>2
      <4>2. row[i] # 0
        BY <1>2, <4>1
      <4> QED
        BY <1>1, <2>1, <3>2, <4>1, <4>2
    <3> QED
      BY <3>1, <3>2
  <2> QED
    BY <2>2 DEF View
<1>10. p \in alive \cap alive'
  BY <1>1, CallsFacts
<1>11. Alone
  BY <1>1, <1>2, <1>8, <1>9, <1>10, NewProcess
<1> QED
  BY <1>7, <1>11

\* exec starts with a cleared table.
LEMMA ExecKeeps ==
    ASSUME FilesInv, NEW p \in Procs, NEW c \in Procs, syscall_exec(p, c)
    PROVE  FilesInv' /\ Alone
<1>1. /\ Calls(p) /\ c \notin alive
      /\ fd' = [fd EXCEPT ![c] = Closed] /\ cwd' = [cwd EXCEPT ![c] = cwd[p]]
      /\ alive' = (alive \cup {c}) \ {p} /\ UNCHANGED <<files, dirs>>
  BY DEF syscall_exec
<1>2. /\ Len(files) \in Nat /\ fd \in Tables(Len(files)) /\ alive \subseteq Procs
      /\ cwd \in [Procs -> Places]
  BY InvFacts
<1>3. cwd' \in [Procs -> Places] /\ alive' \subseteq Procs
  BY <1>1, <1>2
<1>4. NewRow(Closed, fd[c], Len(files), Len(files))
  BY <1>2, ClosedIsNewRow
<1>5. FilesInv' /\ \A r \in Procs \ {c} : View(r)' = View(r)
  BY <1>1, <1>3, <1>4, Clears
<1>6. View(c)' = [i \in Descriptors |-> <<>>]
  <2>1. \A i \in Descriptors : fd'[c][i] = 0
    BY <1>1, <1>2 DEF Tables, Closed
  <2> QED
    BY <2>1 DEF View
<1>7. alive' \subseteq alive \cup {c}
  BY <1>1
<1>8. Alone
  BY <1>1, <1>2, <1>5, <1>6, <1>7, NewProcess
<1> QED
  BY <1>5, <1>8

\* exit and kill: the caller's table is cleared.
LEMMA EndsKeep ==
    ASSUME FilesInv, NEW p \in Procs, NEW v \in Procs, syscall_exit(p) \/ syscall_kill(p, v)
    PROVE  FilesInv' /\ Alone
<1>1. /\ Calls(p) /\ fd' = [fd EXCEPT ![p] = Closed] /\ cwd' = [cwd EXCEPT ![p] = NoDir]
      /\ alive' \subseteq alive /\ UNCHANGED <<files, dirs>>
  BY DEF syscall_exit, syscall_kill
<1>2. Len(files) \in Nat /\ alive \subseteq Procs /\ cwd \in [Procs -> Places]
  BY InvFacts
<1>3. cwd' \in [Procs -> Places] /\ alive' \subseteq Procs
  <2>1. <<>> \in Seq(Names)
    OBVIOUS
  <2>2. NoDir \in Places
    BY <2>1 DEF NoDir, Dir, Places
  <2> QED
    BY <1>1, <1>2, <2>2
<1>4. NewRow(Closed, fd[p], Len(files), Len(files))
  BY <1>2, ClosedIsNewRow
<1>5. FilesInv' /\ \A r \in Procs \ {p} : View(r)' = View(r)
  BY <1>1, <1>3, <1>4, Clears
<1> QED
  BY <1>1, <1>2, <1>5, OneActor

\* Every step keeps the invariant and touches the open files of one process.
LEMMA FilesStep ==
    ASSUME FilesInv, [Next]_vars
    PROVE  FilesInv' /\ (Alone \/ UNCHANGED vars)
<1>1. CASE init_tarfs
  <2>1. UNCHANGED <<files, fd>> /\ alive' = alive
    BY <1>1 DEF init_tarfs
  <2> QED
    BY <1>1, <2>1, BootKeeps, Untouched, InvFacts
<1>2. ASSUME NEW p \in Procs, FileCall(p)
      PROVE  FilesInv' /\ Alone
  BY <1>2, OpenKeeps, CloseKeeps, ReadKeeps DEF FileCall
<1>3. ASSUME NEW p \in Procs, DirectoryCall(p)
      PROVE  FilesInv' /\ Alone
  BY <1>3, OpendirKeeps, ReaddirKeeps, ClosedirKeeps DEF DirectoryCall
<1>4. ASSUME NEW p \in Procs, ProcessCall(p)
      PROVE  FilesInv' /\ Alone
  BY <1>4, ForkKeeps, ExecKeeps, EndsKeep DEF ProcessCall
<1>5. CASE UNCHANGED vars
  BY <1>5 DEF vars, FilesInv, BootInv, ObjectsInv, TablesInv, ProcsInv
<1> QED
  BY <1>1, <1>2, <1>3, <1>4, <1>5, ChdirKeeps DEF Next

-----------------------------------------------------------------------------
(* Theorems. *)

\* The invariant of the file calls, whatever the archive holds.
LEMMA FilesInvariant == Spec => []FilesInv
<1>1. FilesInv /\ [Next]_vars => FilesInv'
  BY FilesStep
<1> QED
  BY <1>1, FilesInit, PTL DEF Spec

\* The types follow from the invariant.
LEMMA InvImpliesTypeOK == FilesInv => TypeOK
<1> SUFFICES ASSUME FilesInv
             PROVE  TypeOK
  OBVIOUS
<1>1. header \in 0..ArchiveEnd /\ ArchiveEnd \in Nat
  BY InvFacts, HeadersInArchive
<1>2. inodes \in Trees /\ Len(inodes) \in Nat
  BY InvFacts
<1>3. \A n \in 1..Len(inodes) :
        /\ inodes[n].type \in {DIR, FILE}
        /\ Len(inodes[n].family) < MAX_FAMILY
        /\ \A i \in 1..Len(inodes[n].family) : inodes[n].family[i] \in n + 1..Len(inodes)
  BY <1>2, TreeFacts DEF NodeOK
<1>4. files \in Seq([node : 1..Len(inodes), currentoffset : 0..ArchiveEnd])
  <2> DEFINE T == [node : 1..Len(inodes), currentoffset : 0..ArchiveEnd]
             S == Objects(inodes)
  <2>1. ASSUME NEW f \in S
        PROVE  f \in T
    <3>1. /\ f \in [node : Nat, currentoffset : Nat] /\ f.node \in 1..Len(inodes)
          /\ f.currentoffset \in inodes[f.node].start..inodes[f.node].end
      BY DEF Objects
    <3>2. inodes[f.node].end <= ArchiveEnd /\ inodes[f.node].end \in Nat /\ inodes[f.node].start \in Nat
      BY <1>2, <3>1, TreeFacts DEF NodeOK
    <3>3. f.currentoffset \in 0..ArchiveEnd
      BY <1>1, <3>1, <3>2
    <3> QED
      BY <3>1, <3>3
  <2>2. files \in Seq(S)
    BY InvFacts
  <2> HIDE DEF S, T
  <2>3. files \in Seq(T)
    BY <2>1, <2>2
  <2> QED
    BY <2>3 DEF T
<1>5. \A d \in 1..Len(dirs) : dirs[d].currInode \in -1..MAX_FAMILY
  <2>1. \A d \in 1..Len(dirs) : dirs[d] \in Streams
    BY InvFacts
  <2> QED
    BY <2>1 DEF Streams
<1>6. \A p \in Procs : cwd[p].slash \in BOOLEAN
  <2>1. \A p \in Procs : cwd[p] \in Places
    BY InvFacts
  <2> QED
    BY <2>1 DEF Places
<1>7. fd \in [Procs -> [Descriptors -> 0..Len(files)]] /\ alive \in SUBSET Procs
  BY InvFacts DEF Tables
<1> QED
  BY <1>1, <1>3, <1>4, <1>5, <1>6, <1>7 DEF TypeOK

\* For every archive that tar can write: the walk over the headers (init_tarfs,
\* with the sizes that oct_to_dec reads) never leaves the archive, no inode
\* gets more children than it has room for, and every descriptor points to a
\* file object that was made.
THEOREM FilesTypeCorrect == Spec => []TypeOK
  BY FilesInvariant, InvImpliesTypeOK, PTL

\* A descriptor stands for a file and its offset never leaves the file's
\* bytes (k_open, k_read), also in the objects that fork copies.
THEOREM OffsetsStayInFile == Spec => []OffsetsInFile
<1>1. FilesInv => OffsetsInFile
  <2> SUFFICES ASSUME FilesInv, NEW p \in alive, NEW i \in Descriptors, fd[p][i] # 0
               PROVE  /\ inodes[files[fd[p][i]].node].type = FILE
                      /\ files[fd[p][i]].currentoffset
                           \in inodes[files[fd[p][i]].node].start..inodes[files[fd[p][i]].node].end
    BY DEF OffsetsInFile
  <2>1. p \in Procs
    BY InvFacts
  <2>2. files[fd[p][i]] \in Objects(inodes)
    BY <2>1, EntryFacts
  <2> QED
    BY <2>2 DEF Objects
<1> QED
  BY <1>1, FilesInvariant, PTL

\* A process's open files change by its own calls only, and a child of fork
\* starts with what its parent sees (k_open, k_read, k_close, syscall_fork).
THEOREM OpenFilesAreIsolated == Spec => Isolation
<1>1. FilesInv /\ [Next]_vars => [Alone]_vars
  BY FilesStep
<1>2. Spec => [][Alone]_vars
  BY <1>1, FilesInvariant, PTL DEF Spec
<1> QED
  BY <1>2 DEF Isolation, Alone

\* With the loader on top the file calls are still those of Files: what is
\* proved of Spec holds of the system that LoaderSpec describes.
THEOREM LoaderKeepsFiles == LoaderSpec => Spec
<1>1. LoaderInit => Init
  BY DEF LoaderInit
<1>2. [LoaderNext]_loaderVars => [Next]_vars
  BY DEF LoaderNext, loaderVars, Next, fork, exec, Ends, ProcessCall
<1> QED
  BY <1>1, <1>2, PTL DEF LoaderSpec, Spec
=============================================================================
