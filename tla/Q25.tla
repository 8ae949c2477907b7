-------------------------------- MODULE Q25 --------------------------------
(***************************************************************************)
(* q25.c: the numbers weighted counts are made of, -1^negative * d * 2^pwr2 *)
(* * 5^pwr5 with a natural number d of words in radix 10^Q25_DIGITS, least  *)
(* significant word first.                                                 *)
(*                                                                         *)
(* The functions compute in a static working area of three numbers and     *)
(* build their result from number 0 of it.  What they read there they have  *)
(* written before, but for the sign of number 0, which q25_set leaves as it *)
(* is: that sign is a variable.  A caller is modelled that holds one number *)
(* and applies the functions to it and to other operands in any order.      *)
(***************************************************************************)
EXTENDS Integers, Sequences, SequencesExt

CONSTANTS Q25_DIGITS,   \* decimal digits in a word
          Integers32,   \* the integers a caller converts
          Scales,       \* the powers a caller scales by
          Operands,     \* the integers from which second operands are made
          Texts,        \* the texts that are read
          MaxMagnitude, \* bounds on the number held: the largest d,
          MaxPower      \* and the largest power

ASSUME DigitsAssumption == Q25_DIGITS \in Nat \ {0}

Q25_RADIX == 10 ^ Q25_DIGITS

Word == 0 .. Q25_RADIX - 1

q25_t == [valid : BOOLEAN, negative : BOOLEAN, digit : Seq(Nat), pwr2 : Int, pwr5 : Int]

dcount(q) == Len(q.digit)

VARIABLES sign,         \* of number 0 of the working area: is it negative
          held          \* the number the caller holds

vars == << sign, held >>

\* Number 0, with the sign an earlier call has left.
wid == [valid |-> TRUE, negative |-> sign, digit |-> << 0 >>, pwr2 |-> 0, pwr5 |-> 0]

-----------------------------------------------------------------------------
(* Canonical form *)

\* The words of the quotient by a divisor of the number, from the top word down.
Quotient(digit, divisor) ==
    LET upper[d \in 1 .. Len(digit) + 1] ==   \* what remains above word d
          IF d > Len(digit) THEN 0 ELSE (upper[d + 1] * Q25_RADIX + digit[d]) % divisor
    IN  [d \in 1 .. Len(digit) |-> (upper[d + 1] * Q25_RADIX + digit[d]) \div divisor]

\* Faulty variant: a quotient keeps its leading zero.
div_word_untrimmed(w, divisor) == [w EXCEPT !.digit = Quotient(@, divisor)]

\* Division; at most one word has become zero.
q25_div_word(w, divisor) ==
    LET quotient == Quotient(w.digit, divisor)
    IN  IF divisor = 1 THEN w
        ELSE [w EXCEPT !.digit = IF Len(quotient) > 1 /\ Last(quotient) = 0
                                   THEN Front(quotient) ELSE quotient]

\* Takes out the powers of n = 2^p2 * 5^p5, as many at a time as the low words
\* show and a word can divide by.
q25_reduce_multiple(w, p2, p5) ==
    LET n == 2 ^ p2 * 5 ^ p5
        pwr(x) ==
          LET two   == dcount(x) > 1
              rradix == IF two THEN Q25_RADIX * Q25_RADIX ELSE Q25_RADIX
              rword == IF two THEN x.digit[1] + Q25_RADIX * x.digit[2] ELSE x.digit[1]
          IN  CHOOSE k \in 1 .. 4 * Q25_DIGITS :
                /\ n ^ k <= Q25_RADIX /\ rradix % n ^ k = 0 /\ rword % n ^ k = 0
                /\ ~(n ^ (k + 1) <= Q25_RADIX /\ rradix % n ^ (k + 1) = 0
                       /\ rword % n ^ (k + 1) = 0)
        reduce[x \in q25_t] ==
          IF x.digit[1] % n # 0 THEN x
          ELSE LET k == pwr(x)
               IN  reduce[[q25_div_word(x, n ^ k) EXCEPT
                             !.pwr2 = @ + p2 * k, !.pwr5 = @ + p5 * k]]
    IN  reduce[w]

\* Zero words at the bottom are powers of ten, then come single powers.
q25_reduce10(w) ==
    LET wcount == CHOOSE k \in 0 .. dcount(w) - 1 :
                    w.digit[k + 1] # 0 /\ \A i \in 1 .. k : w.digit[i] = 0
    IN  q25_reduce_multiple(
          [w EXCEPT !.digit = SubSeq(@, wcount + 1, Len(@)),
                    !.pwr2  = @ + Q25_DIGITS * wcount,
                    !.pwr5  = @ + Q25_DIGITS * wcount], 1, 1)

q25_reduce2(w) == q25_reduce_multiple(w, 1, 0)
q25_reduce5(w) == q25_reduce_multiple(w, 0, 1)

\* The words without leading zeros; one word is always left.
Trimmed(digit) ==
    SubSeq(digit, 1, CHOOSE k \in 1 .. Len(digit) :
             /\ k = 1 \/ digit[k] # 0
             /\ \A i \in k + 1 .. Len(digit) : digit[i] = 0)

q25_canonize(w) ==
    LET t == [w EXCEPT !.digit = Trimmed(@)]
    IN  CASE ~w.valid -> [valid |-> FALSE, negative |-> FALSE, digit |-> << 0 >>,
                          pwr2 |-> 0, pwr5 |-> 0]
          [] w.valid /\ t.digit = << 0 >> ->
               [t EXCEPT !.negative = FALSE, !.pwr2 = 0, !.pwr5 = 0]
          [] OTHER -> q25_reduce5(q25_reduce2(q25_reduce10(t)))

\* Sets a working number to one word; its sign stays unless the word is zero.
q25_set(w, x) ==
    q25_canonize([w EXCEPT !.valid = TRUE, !.pwr2 = 0, !.pwr5 = 0, !.digit = << x >>])

-----------------------------------------------------------------------------
(* Scaling and comparing *)

\* The words of a number given by n values of any size, the lowest first: what
\* exceeds a word is carried, and what is missing borrowed.
Carried(n, value(_)) ==
    LET carry[d \in 0 .. n] ==   \* into word d + 1
          IF d = 0 THEN 0 ELSE (value(d) + carry[d - 1]) \div Q25_RADIX
    IN  [d \in 1 .. n |-> (value(d) + carry[d - 1]) % Q25_RADIX]

DigitAt(w, d) == IF d <= dcount(w) THEN w.digit[d] ELSE 0

\* Multiplication by one word; the carry makes a word if there is one.
q25_mul_word(w, multiplier) ==
    LET product == Carried(dcount(w) + 1, LAMBDA d : multiplier * DigitAt(w, d))
    IN  [w EXCEPT !.digit = IF Last(product) > 0 THEN product ELSE Front(product)]

\* Moves pwr > 0 factors of 2 or 5 from the power to the words, up to
\* Q25_DIGITS of them at a time.
q25_scale_digits(w, p2, pwr) ==
    LET base  == IF p2 THEN 2 ELSE 5
        whole == (pwr - 1) \div Q25_DIGITS
        scaled[k \in 0 .. whole] ==
          IF k = 0 THEN IF p2 THEN [w EXCEPT !.pwr2 = @ - pwr] ELSE [w EXCEPT !.pwr5 = @ - pwr]
          ELSE q25_mul_word(scaled[k - 1], base ^ Q25_DIGITS)
    IN  q25_mul_word(scaled[whole], base ^ (pwr - whole * Q25_DIGITS))

\* The first number, scaled to the powers of the second where it has more.
ScaledTo(w1, w2) ==
    LET diff2 == w1.pwr2 - w2.pwr2
        diff5 == w1.pwr5 - w2.pwr5
        s2    == IF diff2 > 0 THEN q25_scale_digits(w1, TRUE, diff2) ELSE w1
    IN  IF diff5 > 0 THEN q25_scale_digits(s2, FALSE, diff5) ELSE s2

\* -1, 0 or 1 for numbers with equal powers and no leading zeros.
q25_compare_working_magnitude(w1, w2) ==
    LET differ == { d \in 1 .. dcount(w1) : w1.digit[d] # w2.digit[d] }
        top    == CHOOSE d \in differ : \A e \in differ : e <= d
    IN  CASE dcount(w1) < dcount(w2) -> -1
          [] dcount(w1) > dcount(w2) -> 1
          [] dcount(w1) = dcount(w2) /\ differ = {} -> 0
          [] OTHER -> IF w1.digit[top] < w2.digit[top] THEN -1 ELSE 1

q25_is_zero(q) == q.valid /\ q.digit = << 0 >>

q25_is_one(q) == q.valid /\ q.digit = << 1 >> /\ q.pwr2 = 0 /\ q.pwr5 = 0

\* Faulty variant: negative numbers are compared like positive ones.
compare_unswapped(q1, q2) ==
    CASE q1.valid # q2.valid -> -2
      [] q1.valid = q2.valid /\ q1.negative /\ ~q2.negative -> -1
      [] q1.valid = q2.valid /\ ~q1.negative /\ q2.negative -> 1
      [] OTHER -> q25_compare_working_magnitude(ScaledTo(q1, q2), ScaledTo(q2, q1))

\* Two invalid numbers are compared by their words, which are zero.
q25_compare(q1, q2) ==
    CASE q1.valid # q2.valid -> -2
      [] q1.valid = q2.valid /\ q1.negative /\ ~q2.negative -> -1
      [] q1.valid = q2.valid /\ ~q1.negative /\ q2.negative -> 1
      [] q1.valid = q2.valid /\ q1.negative /\ q2.negative ->
           q25_compare_working_magnitude(ScaledTo(q2, q1), ScaledTo(q1, q2))
      [] OTHER -> q25_compare_working_magnitude(ScaledTo(q1, q2), ScaledTo(q2, q1))

-----------------------------------------------------------------------------
(* Results: each operator is the working number 0 that q25_build copies. *)

\* The words of a natural number.
WordsOf(n) ==
    [d \in 1 .. CHOOSE k \in 1 .. 12 \div Q25_DIGITS :
                  /\ n < Q25_RADIX ^ k /\ (k = 1 \/ n >= Q25_RADIX ^ (k - 1))
       |-> (n \div Q25_RADIX ^ (d - 1)) % Q25_RADIX]

\* q25_from_32, q25_from_64 (for which the least integer is out of reach: its
\* negation overflows).
q25_from_32(w, x) ==
    LET zero == q25_set(w, 0)
    IN  IF x = 0 THEN zero
        ELSE q25_canonize([zero EXCEPT !.negative = (x < 0),
                                       !.digit = WordsOf(IF x < 0 THEN -x ELSE x)])

q25_invalid(w) == q25_canonize([q25_set(w, 0) EXCEPT !.valid = FALSE])

q25_copy(q) == q25_canonize(q)

q25_scale(q, p2, p5) == q25_canonize([q EXCEPT !.pwr2 = @ + p2, !.pwr5 = @ + p5])

q25_negate(q) == q25_canonize([q EXCEPT !.negative = ~@])

\* The sign is the one left in the working area.
q25_recip(w, q) ==
    LET one == q25_set(w, 1)
    IN  IF q.valid /\ q.digit = << 1 >>
          THEN q25_canonize([one EXCEPT !.pwr2 = -q.pwr2, !.pwr5 = -q.pwr5])
          ELSE q25_canonize([one EXCEPT !.valid = FALSE])

\* The words of the sum of two numbers, with room for a carry.
AddWords(w1, w2) ==
    Carried(1 + IF dcount(w1) < dcount(w2) THEN dcount(w2) ELSE dcount(w1),
            LAMBDA d : DigitAt(w1, d) + DigitAt(w2, d))

\* The words of top - bottom, if that is not negative.
SubtractWords(top, bottom) ==
    Carried(dcount(top), LAMBDA d : top.digit[d] - DigitAt(bottom, d))

\* The validity of the operands is not looked at.
q25_add(w, q1, q2) ==
    LET w1     == ScaledTo(q1, q2)
        w2     == ScaledTo(q2, q1)
        diff   == q25_compare_working_magnitude(w1, w2)
        top    == IF diff < 0 THEN w2 ELSE w1
        bottom == IF diff < 0 THEN w1 ELSE w2
        sum(negative, digit) ==
          q25_canonize([q25_set(w, 0) EXCEPT !.negative = negative, !.digit = digit,
                                             !.pwr2 = w1.pwr2, !.pwr5 = w1.pwr5])
    IN  CASE q1.negative = q2.negative -> sum(q1.negative, AddWords(w1, w2))
          [] q1.negative # q2.negative /\ diff = 0 -> q25_set(w, 0)
          [] OTHER -> sum(top.negative, SubtractWords(top, bottom))

\* The argument is negated while it is added; zero must not be.
q25_one_minus(w, q) ==
    LET one == q25_from_32(w, 1)
    IN  IF q25_is_zero(q) THEN one
        ELSE q25_add(one, one, [q EXCEPT !.negative = ~@])

\* Faulty variant: a row replaces what the rows before it have left.
MulWordsOverwriting(long, short) ==
    LET len == dcount(long) + dcount(short) + 1
        row(buffer, d2) ==
          Carried(len, LAMBDA d :
            IF d \in d2 .. d2 + dcount(long) - 1 THEN long.digit[d - d2 + 1] * short.digit[d2]
            ELSE buffer[d])
        rows[k \in 0 .. dcount(short)] ==
          IF k = 0 THEN [d \in 1 .. len |-> 0] ELSE row(rows[k - 1], k)
    IN  rows[dcount(short)]

\* The words of a product: one row for each word of the shorter number, added
\* to what is there; the carry out of a row goes to a word no row has reached.
MulWords(long, short) ==
    LET len == dcount(long) + dcount(short) + 1
        row(buffer, d2) ==
          Carried(len, LAMBDA d : buffer[d] +
            IF d \in d2 .. d2 + dcount(long) - 1 THEN long.digit[d - d2 + 1] * short.digit[d2]
            ELSE 0)
        rows[k \in 0 .. dcount(short)] ==
          IF k = 0 THEN [d \in 1 .. len |-> 0] ELSE row(rows[k - 1], k)
    IN  rows[dcount(short)]

\* Zero and invalid factors are the product.
q25_mul(w, q1, q2) ==
    CASE q25_is_zero(q1) \/ ~q1.valid -> q25_copy(q1)
      [] ~(q25_is_zero(q1) \/ ~q1.valid) /\ (q25_is_zero(q2) \/ ~q2.valid) -> q25_copy(q2)
      [] OTHER ->
           q25_canonize([q25_set(w, 0) EXCEPT
             !.negative = (q1.negative # q2.negative),
             !.pwr2 = q1.pwr2 + q2.pwr2, !.pwr5 = q1.pwr5 + q2.pwr5,
             !.digit = IF dcount(q1) < dcount(q2) THEN MulWords(q2, q1) ELSE MulWords(q1, q2)])

-----------------------------------------------------------------------------
(* Decimal text: a sign, the digits before and after the point, most        *)
(* significant first, and the exponent, which is 0 if there is none; it is   *)
(* broken if no number follows the letter e.                                 *)

Text(negative, before, after, exponent, broken) ==
    [negative |-> negative, before |-> before, after |-> after,
     exponent |-> exponent, broken |-> broken]

\* The value of decimal digits, most significant first.
DecimalValue(digits) ==
    LET val[k \in 0 .. Len(digits)] == IF k = 0 THEN 0 ELSE 10 * val[k - 1] + digits[k]
    IN  val[Len(digits)]

\* Faulty variant: the last word is not moved to the top of its word.
ReadUnaligned(w, text) ==
    LET digits == text.before \o text.after
        words  == (Len(digits) + Q25_DIGITS - 1) \div Q25_DIGITS
        read   == [d \in 1 .. words |->
                     DecimalValue(SubSeq(digits, (d - 1) * Q25_DIGITS + 1,
                       IF d < words THEN d * Q25_DIGITS ELSE Len(digits)))]
        pwr10  == text.exponent - Len(text.after)
    IN  IF digits = << >> \/ text.broken THEN q25_invalid(w)
        ELSE q25_canonize([q25_set(w, 0) EXCEPT !.negative = text.negative,
                             !.digit = Reverse(read), !.pwr2 = pwr10, !.pwr5 = pwr10])

\* The digits fill words in the order they are read, the first word being the
\* most significant; the last one, if it is not full, is moved up.
q25_read(w, text) ==
    LET digits == text.before \o text.after
        words  == (Len(digits) + Q25_DIGITS - 1) \div Q25_DIGITS
        extra  == Len(digits) % Q25_DIGITS
        slide  == IF extra > 0 THEN Q25_DIGITS - extra ELSE 0
        read   == [d \in 1 .. words |->
                     IF d < words
                       THEN DecimalValue(SubSeq(digits, (d - 1) * Q25_DIGITS + 1, d * Q25_DIGITS))
                       ELSE 10 ^ slide
                              * DecimalValue(SubSeq(digits, (d - 1) * Q25_DIGITS + 1, Len(digits)))]
        pwr10  == text.exponent - Len(text.after) - slide
    IN  IF digits = << >> \/ text.broken THEN q25_invalid(w)
        ELSE q25_canonize([q25_set(w, 0) EXCEPT !.negative = text.negative,
                             !.digit = Reverse(read), !.pwr2 = pwr10, !.pwr5 = pwr10])

\* The number of decimal digits, and digit i counted from the lowest.
q25_length10(w) ==
    (dcount(w) - 1) * Q25_DIGITS
      + CHOOSE k \in 0 .. Q25_DIGITS :
          Last(w.digit) < 10 ^ k /\ (k = 0 \/ Last(w.digit) >= 10 ^ (k - 1))

q25_get_digit10(w, i) ==
    (w.digit[i \div Q25_DIGITS + 1] \div 10 ^ (i % Q25_DIGITS)) % 10

\* The working number with as many factors of 2 as of 5.
Balanced(q) ==
    LET diff == q.pwr2 - q.pwr5
    IN  CASE diff > 0 -> q25_scale_digits(q, TRUE, diff)
          [] diff < 0 -> q25_scale_digits(q, FALSE, -diff)
          [] OTHER -> q

\* The text of a valid number; the point is put among, after or before the digits.
q25_write(q) ==
    LET w      == Balanced(q)
        n10    == q25_length10(w)
        digits == [i \in 1 .. n10 |-> q25_get_digit10(w, n10 - i)]
        p10    == w.pwr2
        zeros(k) == [i \in 1 .. k |-> 0]
    IN  CASE q25_is_zero(q) -> Text(FALSE, << 0 >>, << >>, 0, FALSE)
          [] ~q25_is_zero(q) /\ p10 >= 0 ->
               Text(q.negative, digits \o zeros(p10), << >>, 0, FALSE)
          [] ~q25_is_zero(q) /\ p10 < 0 /\ -p10 >= n10 ->
               Text(q.negative, << 0 >>, zeros(-p10 - n10) \o digits, 0, FALSE)
          [] OTHER ->
               Text(q.negative, SubSeq(digits, 1, n10 + p10),
                    SubSeq(digits, n10 + p10 + 1, n10), 0, FALSE)

-----------------------------------------------------------------------------
(* A caller *)

Magnitude(digit) ==
    LET val[d \in 1 .. Len(digit) + 1] ==
          IF d > Len(digit) THEN 0 ELSE digit[d] + Q25_RADIX * val[d + 1]
    IN  val[1]

\* The bound on the number held.
Fits(q) ==
    /\ dcount(q) <= 2 /\ Magnitude(q.digit) <= MaxMagnitude
    /\ {q.pwr2, q.pwr5} \subseteq -MaxPower .. MaxPower

Init ==
    /\ sign = FALSE
    /\ held = wid

\* A function that builds a number leaves its sign in the working area; the
\* caller keeps the number or drops it.
Build(q) ==
    /\ sign' = q.negative
    /\ held' = held \/ (Fits(q) /\ held' = q)

FromInteger == \E x \in Integers32 : Build(q25_from_32(wid, x))

Invalid == Build(q25_invalid(wid))

Copy == Build(q25_copy(held))

Scale == \E p2, p5 \in Scales : Build(q25_scale(held, p2, p5))

Negate == Build(q25_negate(held))

Recip == Build(q25_recip(wid, held))

\* Integers, and what scaling by the same power makes of them.
Operand ==
    { q25_scale(q25_from_32([held EXCEPT !.negative = FALSE], x), p2, p5) :
        x \in Operands, p2 \in Scales, p5 \in Scales }

Add == \E q \in Operand : Build(q25_add(wid, held, q)) \/ Build(q25_add(wid, q, held))

OneMinus == Build(q25_one_minus(wid, held))

Mul == \E q \in Operand : Build(q25_mul(wid, held, q)) \/ Build(q25_mul(wid, q, held))

Read == \E text \in Texts : Build(q25_read(wid, text))

\* Writing scales a copy in the working area, unless the text is fixed.
Write ==
    /\ held.valid /\ ~q25_is_zero(held) /\ sign' = held.negative
    /\ UNCHANGED held

Next ==
    \/ FromInteger \/ Invalid \/ Copy \/ Scale \/ Negate \/ Recip
    \/ Add \/ OneMinus \/ Mul \/ Read \/ Write

Spec == Init /\ [][Next]_vars

-----------------------------------------------------------------------------
(* What the numbers must be.  A rational number is a triple << n, p2, p5 >>  *)
(* that stands for n * 2^p2 * 5^p5.                                          *)

Value(q) ==
    << IF q.negative THEN -Magnitude(q.digit) ELSE Magnitude(q.digit), q.pwr2, q.pwr5 >>

\* The numerator of r over the denominator 2^-p2 * 5^-p5.
Over(r, p2, p5) == r[1] * 2 ^ (r[2] - p2) * 5 ^ (r[3] - p5)

LeastPower(rs, i) == CHOOSE p \in { r[i] : r \in rs } : \A r \in rs : p <= r[i]

\* The numerators of rationals over a common denominator.
Common(rs) == [r \in rs |-> Over(r, LeastPower(rs, 2), LeastPower(rs, 3))]

SameValue(r, s) == Common({r, s})[r] = Common({r, s})[s]

IsSum(r, s, t) == Common({r, s, t})[r] = Common({r, s, t})[s] + Common({r, s, t})[t]

IsProduct(r, s, t) == SameValue(r, << s[1] * t[1], s[2] + t[2], s[3] + t[3] >>)

IsCanonical(q) ==
    /\ q.digit \in Seq(Word) /\ dcount(q) >= 1
    /\ dcount(q) > 1 => Last(q.digit) # 0
    /\ IF q.valid /\ q.digit # << 0 >>
         THEN Magnitude(q.digit) % 2 # 0 /\ Magnitude(q.digit) % 5 # 0
         ELSE q.digit = << 0 >> /\ ~q.negative /\ q.pwr2 = 0 /\ q.pwr5 = 0

\* Every number that is handed out is in the canonical form q25.h describes,
\* which is_zero, is_one and recip rely on to recognise numbers by their words:
\* the one held, and every sum and product it enters.
Canonical ==
    /\ held \in q25_t /\ sign \in BOOLEAN
    /\ IsCanonical(held)
    /\ \A q \in Operand : IsCanonical(q25_add(wid, held, q)) /\ IsCanonical(q25_mul(wid, held, q))

\* Sums, products, complements to one, negations and scalings are exact,
\* whatever carries and borrows they need and whatever sign earlier calls have
\* left in the working area.
ResultsExact ==
    held.valid =>
      /\ \A q \in Operand :
           /\ IsSum(Value(q25_add(wid, held, q)), Value(held), Value(q))
           /\ IsSum(Value(q25_add(wid, q, held)), Value(held), Value(q))
           /\ IsProduct(Value(q25_mul(wid, held, q)), Value(held), Value(q))
           /\ IsProduct(Value(q25_mul(wid, q, held)), Value(held), Value(q))
      /\ IsSum(<< 1, 0, 0 >>, Value(q25_one_minus(wid, held)), Value(held))
      /\ IsSum(<< 0, 0, 0 >>, Value(q25_negate(held)), Value(held))
      /\ \A p2, p5 \in Scales :
           IsProduct(Value(q25_scale(held, p2, p5)), Value(held), << 1, p2, p5 >>)

\* Comparing valid numbers compares their values, and an invalid number is
\* unlike every valid one: equal_counts decides by it which arguments of a sum
\* are dropped.
OrderExact ==
    \A q \in Operand :
      LET both == Common({Value(held), Value(q)})
          r    == both[Value(held)]
          s    == both[Value(q)]
      IN  /\ q25_compare(held, q) =
               IF held.valid THEN IF r < s THEN -1 ELSE IF r = s THEN 0 ELSE 1 ELSE -2
          /\ held.valid => q25_compare(q, held) = -q25_compare(held, q)

\* The value of a text.
TextValue(text) ==
    LET n == DecimalValue(text.before \o text.after)
        p == text.exponent - Len(text.after)
    IN  << IF text.negative THEN -n ELSE n, p, p >>

\* A number is read back from what is written of it, text has the value it has
\* in decimal notation, and only text without a digit or with a broken exponent
\* is invalid.
TextExact ==
    /\ held.valid => /\ SameValue(TextValue(q25_write(held)), Value(held))
                     /\ q25_read(wid, q25_write(held)) = held
    /\ \A text \in Texts :
         LET q == q25_read(wid, text)
         IN  IF text.before \o text.after = << >> \/ text.broken
               THEN ~q.valid
               ELSE q.valid /\ IsCanonical(q) /\ SameValue(Value(q), TextValue(text))

\* q25.h says of q25_recip: "Compute reciprocal".  The reciprocal of a number
\* with d = 1 times the number is one.
RecipExact ==
    held.valid /\ held.digit = << 1 >> =>
      IsProduct(<< 1, 0, 0 >>, Value(q25_recip(wid, held)), Value(held))
=============================================================================
