------------------------------- MODULE BigNum --------------------------------
(***************************************************************************)
(* The multiple-precision integers of src/tomcrypt/math, LibTomMath, that  *)
(* the verification of signatures computes with.  A number is its sign and *)
(* its used digits, the lowest first.  An operator returns what the        *)
(* function leaves in its result; storage is always found.                 *)
(***************************************************************************)
EXTENDS Integers, Sequences
LOCAL INSTANCE SequencesExt
LOCAL INSTANCE FiniteSetsExt

CONSTANTS
    DIGIT_BIT,      \* 28
    ByteBits,       \* 8: the bits of a byte of a number in binary
    MaxColumn,      \* MP_WARRAY, 512: the columns the fast products have room for
    MaxRow,         \* 256: the products of a column that a word can hold
    KaratsubaCutoff, ToomCutoff,
    Primes          \* ltm_prime_tab, whose entries are digits

B == 2^DIGIT_BIT
Mp(neg, dp) == [neg |-> neg, dp |-> dp]
used(a)     == Len(a.dp)
Dp(a, i)    == IF i \in 0 .. used(a) - 1 THEN a.dp[i + 1] ELSE 0           \* a->dp[i]
Cut(s, n)   == SubSeq(s, 1, Min({Len(s), n}))
Zeros(n)    == [i \in 1 .. n |-> 0]
Down(m, n)  == [i \in 1 .. m - n + 1 |-> m - i + 1]                        \* m, m - 1, .., n

Zero         == Mp(FALSE, <<>>)
Failed       == Mp(TRUE, <<>>)                                              \* MP_VAL; no number is -0
mp_iszero(a) == used(a) = 0
mp_iseven(a) == used(a) > 0 /\ Dp(a, 0) % 2 = 0                             \* 0 is neither
mp_isodd(a)  == used(a) > 0 /\ Dp(a, 0) % 2 = 1
mp_abs(a)    == Mp(FALSE, a.dp)
mp_neg(a)    == Mp(~a.neg /\ ~mp_iszero(a), a.dp)

mp_clamp(a) ==
    LET n == Max({i \in 1 .. used(a) : a.dp[i] # 0} \cup {0}) IN Mp(a.neg /\ n > 0, SubSeq(a.dp, 1, n))

mp_set(d) == mp_clamp(Mp(FALSE, <<d % B>>))

\* The columns of a sum or of a product with what is carried from one to the
\* next; a column of a difference may be negative, which borrows.
Carried(W) ==
    LET U[i \in 0 .. Len(W)] == IF i = 0 THEN 0 ELSE (W[i] + U[i - 1]) \div B
    IN  [i \in 1 .. Len(W) + 1 |-> IF i > Len(W) THEN U[Len(W)] ELSE (W[i] + U[i - 1]) % B]
----------------------------------------------------------------------------
(* Comparing, adding, subtracting.  -1, 0 and 1 are MP_LT, MP_EQ and MP_GT.  *)

mp_cmp_mag(a, b) ==
    LET D == {i \in 0 .. used(a) - 1 : Dp(a, i) # Dp(b, i)}
    IN  IF used(a) # used(b) THEN (IF used(a) > used(b) THEN 1 ELSE -1)
        ELSE IF D = {} THEN 0 ELSE IF Dp(a, Max(D)) > Dp(b, Max(D)) THEN 1 ELSE -1
mp_cmp(a, b) ==
    IF a.neg # b.neg THEN (IF a.neg THEN -1 ELSE 1)
    ELSE IF a.neg THEN mp_cmp_mag(b, a) ELSE mp_cmp_mag(a, b)
mp_cmp_d(a, d) ==
    IF a.neg THEN -1 ELSE IF used(a) > 1 \/ Dp(a, 0) > d THEN 1 ELSE IF Dp(a, 0) < d THEN -1 ELSE 0

\* (variant) The carry out of the highest digit lost.
SumWithoutCarry(a, b, neg) ==
    LET n == Max({used(a), used(b)})
    IN  mp_clamp(Mp(neg, Cut(Carried([i \in 1 .. n |-> Dp(a, i - 1) + Dp(b, i - 1)]), n)))

\* Of the magnitudes; neg is the sign the caller gave the result.
s_mp_add(a, b, neg) ==
    LET n == Max({used(a), used(b)})
    IN  mp_clamp(Mp(neg, Carried([i \in 1 .. n |-> Dp(a, i - 1) + Dp(b, i - 1)])))
s_mp_sub(a, b, neg) ==
    mp_clamp(Mp(neg, Cut(Carried([i \in 1 .. used(a) |-> Dp(a, i - 1) - Dp(b, i - 1)]), used(a))))

mp_add(a, b) ==
    IF a.neg = b.neg THEN s_mp_add(a, b, a.neg)
    ELSE IF mp_cmp_mag(a, b) = -1 THEN s_mp_sub(b, a, b.neg) ELSE s_mp_sub(a, b, a.neg)
mp_sub(a, b) ==
    IF a.neg # b.neg THEN s_mp_add(a, b, a.neg)
    ELSE IF mp_cmp_mag(a, b) # -1 THEN s_mp_sub(a, b, a.neg) ELSE s_mp_sub(b, a, ~a.neg)

\* A digit added to, or taken from, a number that is not negative.
PlusDigit(a, d)  == mp_clamp(Mp(FALSE, Carried([i \in 1 .. Max({used(a), 1}) |-> Dp(a, i - 1) + (IF i = 1 THEN d ELSE 0)])))
MinusDigit(a, d) ==
    IF mp_iszero(a) \/ (used(a) = 1 /\ Dp(a, 0) <= d) THEN mp_clamp(Mp(TRUE, <<d - Dp(a, 0)>>))
    ELSE mp_clamp(Mp(FALSE, Cut(Carried([i \in 1 .. used(a) |-> Dp(a, i - 1) - (IF i = 1 THEN d ELSE 0)]), used(a))))
mp_add_d(a, d) ==
    IF ~a.neg THEN PlusDigit(a, d)
    ELSE IF used(a) > 1 \/ Dp(a, 0) >= d THEN mp_clamp(Mp(TRUE, MinusDigit(mp_abs(a), d).dp))
    ELSE mp_clamp(Mp(FALSE, <<d - Dp(a, 0)>>))
mp_sub_d(a, d) == IF a.neg THEN mp_clamp(Mp(TRUE, PlusDigit(mp_abs(a), d).dp)) ELSE MinusDigit(a, d)
----------------------------------------------------------------------------
(* Shifting.                                                               *)

\* Not clamped: a zero gets digits.
mp_lshd(a, n) == IF n <= 0 THEN a ELSE Mp(a.neg, Zeros(n) \o a.dp)
mp_rshd(a, n) ==
    IF n <= 0 THEN a ELSE IF used(a) <= n THEN Zero ELSE Mp(a.neg, SubSeq(a.dp, n + 1, used(a)))

mp_mul_2(a) ==
    LET c == Carried([i \in 1 .. used(a) |-> 2 * a.dp[i]]) IN Mp(a.neg, IF Last(c) = 0 THEN Front(c) ELSE c)
mp_div_2(a) ==
    mp_clamp(Mp(a.neg, [i \in 1 .. used(a) |-> Dp(a, i - 1) \div 2 + (Dp(a, i) % 2) * (B \div 2)]))
mp_mul_2d(a, n) ==
    LET c == mp_lshd(a, n \div DIGIT_BIT)
    IN  mp_clamp(Mp(c.neg, Carried([i \in 1 .. used(c) |-> c.dp[i] * 2^(n % DIGIT_BIT)])))
mp_mod_2d(a, n) ==
    IF n <= 0 THEN Zero ELSE IF n >= used(a) * DIGIT_BIT THEN a
    ELSE mp_clamp(Mp(a.neg, Append(SubSeq(a.dp, 1, n \div DIGIT_BIT), Dp(a, n \div DIGIT_BIT) % 2^(n % DIGIT_BIT))))
mp_div_2d(a, n) ==
    LET c == mp_rshd(a, n \div DIGIT_BIT)
        k == 2^(n % DIGIT_BIT)
    IN  IF n <= 0 THEN a
        ELSE mp_clamp(Mp(c.neg, [i \in 1 .. used(c) |-> Dp(c, i - 1) \div k + (Dp(c, i) % k) * (B \div k)]))

BitsOf(d) == Max({n \in 1 .. DIGIT_BIT : d >= 2^(n - 1)} \cup {0})
mp_count_bits(a) == IF used(a) = 0 THEN 0 ELSE (used(a) - 1) * DIGIT_BIT + BitsOf(Last(a.dp))
mp_cnt_lsb(a) ==
    LET x == Min({i \in 0 .. used(a) - 1 : Dp(a, i) # 0})
    IN  IF mp_iszero(a) THEN 0
        ELSE x * DIGIT_BIT + Max({n \in 0 .. DIGIT_BIT - 1 : Dp(a, x) % 2^n = 0})
mp_2expt(n) == Mp(FALSE, Append(Zeros(n \div DIGIT_BIT), 2^(n % DIGIT_BIT)))
----------------------------------------------------------------------------
(* Dividing.                                                               *)

mp_mul_d(a, d) == mp_clamp(Mp(a.neg, Carried([i \in 1 .. used(a) |-> a.dp[i] * d])))

\* The quotient and the remainder, which has the sign of a.  The numbers are
\* shifted until the highest bit but one of a digit of b is set; a digit of the
\* quotient is estimated from two digits of the remainder, made less until it
\* fits the three highest, and corrected once more if too much was taken.
mp_div(a, b) ==
    LET bits == mp_count_bits(b) % DIGIT_BIT
        norm == IF bits < DIGIT_BIT - 1 THEN DIGIT_BIT - 1 - bits ELSE 0
        x0   == mp_mul_2d(mp_abs(a), norm)
        y    == mp_mul_2d(mp_abs(b), norm)
        n    == used(x0) - 1
        t    == used(y) - 1
        top  == mp_lshd(y, n - t)
        q0   == Max({k \in 0 .. B - 1 : mp_cmp(mp_mul_d(top, k), x0) # 1})
        lead == Mp(FALSE, <<Dp(y, t - 1), Dp(y, t)>>)
        Estimate(x, i) == IF Dp(x, i) = Dp(y, t) THEN B - 1
                          ELSE Min({B - 1, (Dp(x, i) * B + Dp(x, i - 1)) \div Dp(y, t)})
        Fitting(x, i)  == Max({k \in 0 .. Estimate(x, i) :
                               mp_cmp_mag(mp_mul_d(lead, k), Mp(FALSE, <<Dp(x, i - 2), Dp(x, i - 1), Dp(x, i)>>)) # 1})
        Step(s, i) ==
            LET d == Fitting(s.x, i)
                x == mp_sub(s.x, mp_lshd(mp_mul_d(y, d), i - t - 1))
            IN  IF i > used(s.x) THEN [s EXCEPT !.q = <<0>> \o @]
                ELSE IF x.neg THEN [x |-> mp_add(x, mp_lshd(y, i - t - 1)), q |-> <<(d - 1) % B>> \o s.q]
                ELSE [x |-> x, q |-> <<d>> \o s.q]
        end  == FoldLeft(Step, [x |-> mp_sub(x0, mp_mul_d(top, q0)), q |-> <<q0>>], Down(n, t + 1))
    IN  IF mp_iszero(b) THEN [q |-> Failed, r |-> Failed]
        ELSE IF mp_cmp_mag(a, b) = -1 THEN [q |-> Zero, r |-> a]
        ELSE [q |-> Mp(a.neg # b.neg, mp_clamp(Mp(FALSE, end.q)).dp),
              r |-> mp_div_2d(Mp(a.neg /\ used(end.x) > 0, end.x.dp), norm)]

\* What mp_mod returns has the sign of b, a multiple of a negative b excepted: b.
mp_mod(a, b) == LET t == mp_div(a, b).r IN IF t.neg # b.neg THEN mp_add(b, t) ELSE t

\* Digit by digit, W[i] being the remainder of the digits above digit i.
ByDigit(a, b, Quotient(_)) ==
    LET W[i \in 0 .. used(a)] == IF i = used(a) THEN 0 ELSE (W[i + 1] * B + Dp(a, i)) % b
    IN  [q |-> mp_clamp(Mp(a.neg, [i \in 1 .. used(a) |-> Quotient(W[i] * B + Dp(a, i - 1))])), r |-> W[0]]

\* The quotient is guessed by a multiplication and then raised.
mp_div_3(a) == ByDigit(a, 3, LAMBDA w : LET t == (w * (B \div 3)) \div B IN t + (w - 3 * t) \div 3)

mp_div_d(a, b) ==
    IF b = 0 THEN [q |-> Failed, r |-> 0]
    ELSE IF b = 1 \/ mp_iszero(a) THEN [q |-> a, r |-> 0]
    ELSE IF \E p \in 0 .. DIGIT_BIT - 1 : b = 2^p
    THEN [q |-> mp_div_2d(a, CHOOSE p \in 0 .. DIGIT_BIT - 1 : b = 2^p), r |-> Dp(a, 0) % b]
    ELSE IF b = 3 THEN mp_div_3(a) ELSE ByDigit(a, b, LAMBDA w : w \div b)
mp_mod_d(a, b) == mp_div_d(a, b).r
----------------------------------------------------------------------------
(* Multiplying.                                                            *)

\* Column by column, with the products of a column added first.
Column(a, b, k) == FoldSet(LAMBDA i, s : s + Dp(a, i) * Dp(b, k - i), 0, 0 .. k)
fast_s_mp_mul_digs(a, b, digs) ==
    LET n == Min({digs, used(a) + used(b)})
    IN  mp_clamp(Mp(FALSE, Cut(Carried([k \in 1 .. n |-> Column(a, b, k - 1)]), n)))
fast_s_mp_mul_high_digs(a, b, digs) ==
    LET n == used(a) + used(b)
    IN  mp_clamp(Mp(FALSE, Cut(Carried([k \in 1 .. n |-> IF k > digs THEN Column(a, b, k - 1) ELSE 0]), n)))

\* Row by row, a digit of a times b being added to what is there, in digits of
\* which those from `from` on are computed and digs are kept.
Rows(a, b, from, digs) ==
    LET Row(t, ix) == Cut(Carried([k \in 1 .. digs |->
                              t[k] + (IF k > from THEN Dp(a, ix) * Dp(b, k - 1 - ix) ELSE 0)]), digs)
    IN  mp_clamp(Mp(FALSE, FoldLeft(Row, Zeros(digs), [i \in 1 .. used(a) |-> i - 1])))
s_mp_mul_digs(a, b, digs) ==
    IF digs < MaxColumn /\ Min({used(a), used(b)}) < MaxRow THEN fast_s_mp_mul_digs(a, b, digs)
    ELSE Rows(a, b, 0, digs)
s_mp_mul_high_digs(a, b, digs) ==
    IF used(a) + used(b) + 1 < MaxColumn /\ Min({used(a), used(b)}) < MaxRow
    THEN fast_s_mp_mul_high_digs(a, b, digs)
    ELSE Rows(a, b, digs, used(a) + used(b) + 1)

\* A square has each product of two different digits twice.
fast_s_mp_sqr(a) ==
    LET Square(k) == 2 * FoldSet(LAMBDA i, s : s + Dp(a, i) * Dp(a, k - i), 0, {i \in 0 .. k : 2 * i < k})
                       + (IF k % 2 = 0 THEN Dp(a, k \div 2) * Dp(a, k \div 2) ELSE 0)
    IN  mp_clamp(Mp(FALSE, Cut(Carried([k \in 1 .. 2 * used(a) |-> Square(k - 1)]), 2 * used(a))))
s_mp_sqr(a) ==
    LET n == 2 * used(a) + 1
        Product(ix, iy) == IF iy < ix THEN 0 ELSE (IF iy = ix THEN 1 ELSE 2) * Dp(a, ix) * Dp(a, iy)
        Row(t, ix) == Cut(Carried([k \in 1 .. n |-> t[k] + Product(ix, k - 1 - ix)]), n)
    IN  mp_clamp(Mp(FALSE, FoldLeft(Row, Zeros(n), [i \in 1 .. used(a) |-> i - 1])))

Digits(a, from, n) == mp_clamp(Mp(FALSE, SubSeq(a.dp, from + 1, Min({from + n, used(a)}))))

RECURSIVE mp_mul(_, _), mp_sqr(_)

mp_karatsuba_mul(a, b) ==
    LET h  == Min({used(a), used(b)}) \div 2
        x0 == Digits(a, 0, h)   x1 == Mp(FALSE, SubSeq(a.dp, h + 1, used(a)))
        y0 == Digits(b, 0, h)   y1 == Mp(FALSE, SubSeq(b.dp, h + 1, used(b)))
        x0y0 == mp_mul(x0, y0)
        x1y1 == mp_mul(x1, y1)
        t1 == s_mp_sub(mp_mul(s_mp_add(x1, x0, FALSE), s_mp_add(y1, y0, FALSE)), mp_add(x0y0, x1y1), FALSE)
    IN  mp_add(mp_add(x0y0, mp_lshd(t1, h)), mp_lshd(x1y1, 2 * h))

mp_karatsuba_sqr(a) ==
    LET h  == used(a) \div 2
        x0 == Digits(a, 0, h)   x1 == Mp(FALSE, SubSeq(a.dp, h + 1, used(a)))
        x0x0 == mp_sqr(x0)
        x1x1 == mp_sqr(x1)
        t1 == s_mp_sub(mp_sqr(s_mp_add(x1, x0, FALSE)), s_mp_add(x0x0, x1x1, FALSE), FALSE)
    IN  mp_add(mp_add(x0x0, mp_lshd(t1, h)), mp_lshd(x1x1, 2 * h))

\* Toom-Cook: the values of the polynomial product at five points, from which
\* its coefficients w0 .. w4 are solved.
Solved(w0, w1, w2, w3, w4, h) ==
    LET p1 == mp_div_2(mp_sub(w1, w4))
        p3 == mp_div_2(mp_sub(w3, w0))
        p2 == mp_sub(mp_sub(w2, w0), w4)
        q1 == mp_sub(mp_sub(p1, p2), mp_mul_2d(w0, 3))
        q3 == mp_sub(mp_sub(p3, p2), mp_mul_2d(w4, 3))
        q2 == mp_sub(mp_sub(mp_mul_d(p2, 3), q1), q3)
        c1 == mp_div_3(mp_sub(q1, q2)).q
        c3 == mp_div_3(mp_sub(q3, q2)).q
    IN  mp_add(mp_add(mp_lshd(w4, 4 * h), mp_add(mp_lshd(q2, 2 * h), mp_lshd(c3, 3 * h))), mp_add(w0, mp_lshd(c1, h)))
Horner(x, y, z) == mp_add(mp_mul_2(mp_add(mp_mul_2(x), y)), z)              \* 4x + 2y + z
mp_toom_mul(a, b) ==
    LET h  == Min({used(a), used(b)}) \div 3
        a0 == mp_mod_2d(a, DIGIT_BIT * h)   a1 == mp_mod_2d(mp_rshd(a, h), DIGIT_BIT * h)   a2 == mp_rshd(a, 2 * h)
        b0 == mp_mod_2d(b, DIGIT_BIT * h)   b1 == mp_mod_2d(mp_rshd(b, h), DIGIT_BIT * h)   b2 == mp_rshd(b, 2 * h)
    IN  Solved(mp_mul(a0, b0), mp_mul(Horner(a0, a1, a2), Horner(b0, b1, b2)),
               mp_mul(mp_add(mp_add(a2, a1), a0), mp_add(mp_add(b2, b1), b0)),
               mp_mul(Horner(a2, a1, a0), Horner(b2, b1, b0)), mp_mul(a2, b2), h)
mp_toom_sqr(a) ==
    LET h  == used(a) \div 3
        a0 == mp_mod_2d(a, DIGIT_BIT * h)   a1 == mp_mod_2d(mp_rshd(a, h), DIGIT_BIT * h)   a2 == mp_rshd(a, 2 * h)
    IN  Solved(mp_sqr(a0), mp_sqr(Horner(a0, a1, a2)), mp_sqr(mp_add(mp_add(a2, a1), a0)),
               mp_sqr(Horner(a2, a1, a0)), mp_sqr(a2), h)

mp_mul(a, b) ==
    LET least == Min({used(a), used(b)})
        digs  == used(a) + used(b) + 1
        c     == IF least >= ToomCutoff THEN mp_toom_mul(mp_abs(a), mp_abs(b))
                 ELSE IF least >= KaratsubaCutoff THEN mp_karatsuba_mul(a, b)
                 ELSE IF digs < MaxColumn /\ least <= MaxRow THEN fast_s_mp_mul_digs(a, b, digs)
                 ELSE s_mp_mul_digs(a, b, digs)
    IN  Mp(a.neg # b.neg /\ used(c) > 0, c.dp)
mp_sqr(a) ==
    IF used(a) >= ToomCutoff THEN mp_toom_sqr(mp_abs(a))
    ELSE IF used(a) >= KaratsubaCutoff THEN mp_karatsuba_sqr(a)
    ELSE IF 2 * used(a) + 1 < MaxColumn /\ 2 * used(a) < MaxRow THEN fast_s_mp_sqr(a) ELSE s_mp_sqr(a)
mp_mulmod(a, b, c) == mp_mod(mp_mul(a, b), c)
mp_sqrmod(a, b)    == mp_mod(mp_sqr(a), b)
----------------------------------------------------------------------------
(* Common divisors and inverses.                                           *)

RECURSIVE Binary(_, _)
Binary(u, v) ==
    IF mp_iszero(v) THEN u
    ELSE LET most == IF mp_cmp_mag(u, v) = 1 THEN u ELSE v
             rest == s_mp_sub(most, IF most = u THEN v ELSE u, FALSE)
         IN  Binary(IF most = u THEN v ELSE u, mp_div_2d(rest, mp_cnt_lsb(rest)))
mp_gcd(a, b) ==
    LET Odd(x) == mp_div_2d(mp_abs(x), mp_cnt_lsb(x))
    IN  IF mp_iszero(a) THEN mp_abs(b) ELSE IF mp_iszero(b) THEN mp_abs(a)
        ELSE mp_mul_2d(Binary(Odd(a), Odd(b)), Min({mp_cnt_lsb(a), mp_cnt_lsb(b)}))
mp_lcm(a, b) ==
    LET g == mp_gcd(a, b)
    IN  mp_abs(IF mp_cmp_mag(a, b) = -1 THEN mp_mul(b, mp_div(a, g).q) ELSE mp_mul(a, mp_div(b, g).q))

\* For an odd b: u and v are bu and dv times a, modulo b, until u is 0; then v
\* is the greatest common divisor.  The result gets the sign of a, and when b
\* divides a the loop does not end.
RECURSIVE Halved(_, _, _), Inverted(_, _, _, _, _)
Halved(u, c, b) ==
    IF ~mp_iseven(u) THEN [u |-> u, c |-> c]
    ELSE Halved(mp_div_2(u), mp_div_2(IF mp_isodd(c) THEN mp_sub(c, b) ELSE c), b)
Inverted(u, bu, v, dv, b) ==
    LET U == Halved(u, bu, b)
        V == Halved(v, dv, b)
    IN  IF mp_cmp(U.u, V.u) # -1
        THEN IF mp_cmp(U.u, V.u) = 0 THEN V ELSE Inverted(mp_sub(U.u, V.u), mp_sub(U.c, V.c), V.u, V.c, b)
        ELSE Inverted(U.u, U.c, mp_sub(V.u, U.u), mp_sub(V.c, U.c), b)
RECURSIVE Raised(_, _), Lowered(_, _)
Raised(d, b)  == IF d.neg THEN Raised(mp_add(d, b), b) ELSE d
Lowered(d, b) == IF mp_cmp_mag(d, b) # -1 THEN Lowered(mp_sub(d, b), b) ELSE d
fast_mp_invmod(a, b) ==
    LET end == Inverted(b, Zero, mp_mod(a, b), mp_set(1), b)
    IN  IF mp_iseven(b) \/ mp_cmp_d(end.u, 1) # 0 THEN Failed
        ELSE LET d == Raised(end.c, b) IN Mp(a.neg /\ used(d) > 0, d.dp)

\* For any b: u = p.a + q.b and v = r.a + s.b.
RECURSIVE Halved2(_, _, _, _, _), Inverted2(_, _, _, _)
Halved2(u, p, q, x, y) ==
    LET odd == mp_isodd(p) \/ mp_isodd(q)
    IN  IF ~mp_iseven(u) THEN [u |-> u, p |-> p, q |-> q]
        ELSE Halved2(mp_div_2(u), mp_div_2(IF odd THEN mp_add(p, y) ELSE p), mp_div_2(IF odd THEN mp_sub(q, x) ELSE q), x, y)
Inverted2(f, g, x, y) ==
    LET U == Halved2(f.u, f.p, f.q, x, y)
        V == Halved2(g.u, g.p, g.q, x, y)
        Less(m, n) == [u |-> mp_sub(m.u, n.u), p |-> mp_sub(m.p, n.p), q |-> mp_sub(m.q, n.q)]
    IN  IF mp_cmp(U.u, V.u) = -1
        THEN IF mp_iszero(U.u) THEN Less(V, U) ELSE Inverted2(U, Less(V, U), x, y)
        ELSE IF mp_cmp(U.u, V.u) = 0 THEN V ELSE Inverted2(Less(U, V), V, x, y)
mp_invmod_slow(a, b) ==
    LET x   == mp_mod(a, b)
        end == Inverted2([u |-> x, p |-> mp_set(1), q |-> Zero], [u |-> b, p |-> Zero, q |-> mp_set(1)], x, b)
    IN  IF b.neg \/ mp_iszero(b) \/ (mp_iseven(x) /\ mp_iseven(b)) THEN Failed
        ELSE IF mp_cmp_d(end.u, 1) # 0 THEN Failed ELSE Lowered(Raised(end.p, b), b)
mp_invmod(a, b) ==
    IF b.neg \/ mp_iszero(b) THEN Failed ELSE IF mp_isodd(b) THEN fast_mp_invmod(a, b) ELSE mp_invmod_slow(a, b)
----------------------------------------------------------------------------
(* Reducing modulo a number that is not negative, in four ways.            *)

\* Barrett: mu is the quotient of a power of the base by m.
mp_reduce_setup(m) == mp_div(mp_2expt(used(m) * 2 * DIGIT_BIT), m).q
mp_reduce(x, m, mu) ==
    LET um == used(m)
        q0 == mp_rshd(x, um - 1)
        q1 == mp_rshd(IF um > 2^(DIGIT_BIT - 1) THEN mp_mul(q0, mu) ELSE s_mp_mul_high_digs(q0, mu, um), um + 1)
        x1 == mp_sub(mp_mod_2d(x, DIGIT_BIT * (um + 1)), s_mp_mul_digs(q1, m, um + 1))
    IN  Lowered(IF mp_cmp_d(x1, 0) = -1 THEN mp_add(x1, mp_lshd(mp_set(1), um + 1)) ELSE x1, m)

\* Montgomery: x / B^used(n) modulo an odd n.  rho is -1/n modulo B, found in three steps.
mp_montgomery_setup(n) ==
    LET b  == Dp(n, 0)
        x0 == (IF ((b + 2) \div 4) % 2 = 1 THEN 8 ELSE 0) + b
        x3 == FoldLeft(LAMBDA x, i : (x * ((2 - b * x) % B)) % B, x0 % B, <<1, 2, 3>>)
    IN  (B - x3) % B
mp_montgomery_calc_normalization(b) ==
    LET bits == IF used(b) > 1 THEN mp_count_bits(b) % DIGIT_BIT ELSE 1
        Twice(a, i) == LET d == mp_mul_2(a) IN IF mp_cmp_mag(d, b) # -1 THEN s_mp_sub(d, b, FALSE) ELSE d
    IN  FoldLeft(Twice, IF used(b) > 1 THEN mp_2expt((used(b) - 1) * DIGIT_BIT + bits - 1) ELSE mp_set(1),
                 Down(DIGIT_BIT - 1, bits - 1))
Subtracted(x, n) == IF mp_cmp_mag(x, n) # -1 THEN s_mp_sub(x, n, FALSE) ELSE x
\* Each row is carried at once ..
RowByRow(x, n, rho) ==
    LET Row(t, ix) == LET mu == (Dp(t, ix) * rho) % B
                      IN  Mp(FALSE, Carried([k \in 1 .. 2 * used(n) + 1 |-> Dp(t, k - 1) + mu * Dp(n, k - 1 - ix)]))
    IN  Subtracted(mp_rshd(mp_clamp(FoldLeft(Row, x, [i \in 1 .. used(n) |-> i - 1])), used(n)), n)
\* .. or only what the next row needs, and the rest at the end.
fast_mp_montgomery_reduce(x, n, rho) ==
    LET m == used(n)
        Row(W, ix) == LET mu == ((W[ix + 1] % B) * rho) % B
                          V(k) == W[k] + mu * Dp(n, k - 1 - ix)
                      IN  [k \in 1 .. 2 * m + 2 |-> V(k) + (IF k = ix + 2 THEN V(ix + 1) \div B ELSE 0)]
        end == Carried(SubSeq(FoldLeft(Row, [k \in 1 .. 2 * m + 2 |-> Dp(x, k - 1)], [i \in 1 .. m |-> i - 1]),
                              m + 1, 2 * m + 1))
    IN  Subtracted(mp_clamp(Mp(FALSE, SubSeq(end, 1, m + 1))), n)
mp_montgomery_reduce(x, n, rho) ==
    IF 2 * used(n) + 1 < MaxColumn /\ used(n) < MaxRow THEN fast_mp_montgomery_reduce(x, n, rho) ELSE RowByRow(x, n, rho)

\* Diminished radix: n is B^used(n) - k.
mp_dr_is_modulus(a) == used(a) >= 2 /\ \A i \in 1 .. used(a) - 1 : Dp(a, i) = B - 1
mp_dr_setup(a) == B - Dp(a, 0)
RECURSIVE mp_dr_reduce(_, _, _), mp_reduce_2k_l(_, _, _), mp_reduce_2k(_, _, _)
mp_dr_reduce(x, n, k) ==
    LET y == mp_clamp(Mp(FALSE, Carried([i \in 1 .. used(n) |-> Dp(x, used(n) + i - 1) * k + Dp(x, i - 1)])))
    IN  IF mp_cmp_mag(y, n) # -1 THEN mp_dr_reduce(s_mp_sub(y, n, FALSE), n, k) ELSE y

\* n is a power of two less d, d a digit or a number.
mp_reduce_is_2k(a) ==
    used(a) > 0 /\ (used(a) > 1 => \A i \in DIGIT_BIT .. mp_count_bits(a) - 1 :
                        (Dp(a, i \div DIGIT_BIT) \div 2^(i % DIGIT_BIT)) % 2 = 1)
mp_reduce_is_2k_l(a) ==
    used(a) > 0 /\ (used(a) > 1 => Cardinality({i \in DOMAIN a.dp : a.dp[i] = B - 1}) >= used(a) \div 2)
mp_reduce_2k_setup_l(a) == s_mp_sub(mp_2expt(mp_count_bits(a)), a, FALSE)
mp_reduce_2k_setup(a)   == Dp(mp_reduce_2k_setup_l(a), 0)
mp_reduce_2k_l(a, n, d) ==
    LET p == mp_count_bits(n)
        x == s_mp_add(mp_mod_2d(a, p), mp_mul(mp_div_2d(a, p), d), FALSE)
    IN  IF mp_cmp_mag(x, n) # -1 THEN mp_reduce_2k_l(s_mp_sub(x, n, FALSE), n, d) ELSE x
mp_reduce_2k(a, n, d) ==
    LET p == mp_count_bits(n)
        q == mp_div_2d(a, p)
        x == s_mp_add(mp_mod_2d(a, p), IF d # 1 THEN mp_mul_d(q, d) ELSE q, FALSE)
    IN  IF mp_cmp_mag(x, n) # -1 THEN mp_reduce_2k(s_mp_sub(x, n, FALSE), n, d) ELSE x
----------------------------------------------------------------------------
(* Powers modulo a number.                                                 *)

WinSize(bits) ==
    CASE bits <= 7 -> 2 [] bits <= 36 -> 3 [] bits <= 140 -> 4 [] bits <= 450 -> 5 [] bits <= 1303 -> 6
      [] bits <= 3529 -> 7 [] OTHER -> 8
Bits(X) == FlattenSeq([i \in 1 .. used(X) |->
               [j \in 1 .. DIGIT_BIT |-> (Dp(X, used(X) - i) \div 2^(DIGIT_BIT - j)) % 2]])
\* The reduction a power is computed with, and what was set up for it.
Redux(x, by) ==
    CASE by.way = "barrett"    -> mp_reduce(x, by.P, by.mu)
      [] by.way = "2k_l"       -> mp_reduce_2k_l(x, by.P, by.mu)
      [] by.way = "montgomery" -> mp_montgomery_reduce(x, by.P, by.mp)
      [] by.way = "dr"         -> mp_dr_reduce(x, by.P, by.mp)
      [] by.way = "2k"         -> mp_reduce_2k(x, by.P, by.mp)
RECURSIVE Squared(_, _, _)
Squared(x, by, n) == IF n = 0 THEN x ELSE Squared(Redux(mp_sqr(x), by), by, n - 1)

\* The table of the powers with a one in front, from M1^(2^(w-1)) on.
RECURSIVE Table(_, _, _, _), Windowed(_, _, _), Singly(_, _, _)
Table(x, n, M1, by) == IF n = 0 THEN <<>> ELSE <<x>> \o Table(Redux(mp_mul(x, M1), by), n - 1, M1, by)

\* The bits of the exponent from the highest: zeros in front are skipped (mode 0),
\* a zero squares (1), and a one opens a window (2) whose power is in the table t;
\* what is left in the last window is taken bit by bit.
Windowed(s, bits, t) ==
    LET y   == Head(bits)
        buf == 2 * s.buf + y
        Bit == IF s.mode = 0 /\ y = 0 THEN s
               ELSE IF s.mode = 1 /\ y = 0 THEN [s EXCEPT !.res = Squared(@, t.by, 1)]
               ELSE IF s.cpy + 1 < t.w THEN [s EXCEPT !.mode = 2, !.buf = buf, !.cpy = @ + 1]
               ELSE [mode |-> 1, buf |-> 0, cpy |-> 0,
                     res |-> Redux(mp_mul(Squared(s.res, t.by, t.w), t.M[buf - 2^(t.w - 1) + 1]), t.by)]
    IN  IF bits = <<>> THEN s ELSE Windowed(Bit, Tail(bits), t)
Singly(s, M1, by) ==
    LET z == Squared(s.res, by, 1)
    IN  IF s.cpy = 0 THEN s.res
        ELSE Singly([s EXCEPT !.cpy = @ - 1, !.res = IF (s.buf \div 2^(s.cpy - 1)) % 2 = 1 THEN Redux(mp_mul(z, M1), by) ELSE z],
                    M1, by)
Windows(X, M1, one, by) ==
    LET w == WinSize(mp_count_bits(X))
        t == [w |-> w, by |-> by, M |-> Table(Squared(M1, by, w - 1), 2^(w - 1), M1, by)]
    IN  Singly(Windowed([mode |-> 0, buf |-> 0, cpy |-> 0, res |-> one], Bits(X), t), M1, by)

s_mp_exptmod(G, X, P, redmode) ==
    LET by == IF redmode = 0 THEN [way |-> "barrett", P |-> P, mu |-> mp_reduce_setup(P)]
              ELSE [way |-> "2k_l", P |-> P, mu |-> mp_reduce_2k_setup_l(P)]
    IN  IF mp_iszero(P) THEN Failed ELSE Windows(X, mp_mod(G, P), mp_set(1), by)
mp_exptmod_fast(G, X, P, redmode) ==
    LET by == CASE redmode = 0 -> [way |-> "montgomery", P |-> P, mp |-> mp_montgomery_setup(P)]
                [] redmode = 1 -> [way |-> "dr", P |-> P, mp |-> mp_dr_setup(P)]
                [] OTHER       -> [way |-> "2k", P |-> P, mp |-> mp_reduce_2k_setup(P)]
        one == IF redmode = 0 THEN mp_montgomery_calc_normalization(P) ELSE mp_set(1)
        res == Windows(X, mp_mulmod(G, one, P), one, by)
    IN  IF redmode = 0 THEN Redux(res, by) ELSE res
RECURSIVE mp_exptmod(_, _, _)
mp_exptmod(G, X, P) ==
    IF P.neg THEN Failed
    ELSE IF X.neg THEN (LET g == mp_invmod(G, P) IN IF g = Failed THEN Failed ELSE mp_exptmod(g, mp_abs(X), P))
    ELSE IF mp_reduce_is_2k_l(P) THEN s_mp_exptmod(G, X, P, 1)
    ELSE LET dr == IF mp_dr_is_modulus(P) THEN 1 ELSE IF mp_reduce_is_2k(P) THEN 2 ELSE 0
         IN  IF mp_isodd(P) \/ dr # 0 THEN mp_exptmod_fast(G, X, P, dr) ELSE s_mp_exptmod(G, X, P, 0)
----------------------------------------------------------------------------
(* Primes.                                                                 *)

mp_prime_is_divisible(a) == \E i \in DOMAIN Primes : mp_mod_d(a, Primes[i]) = 0
mp_prime_miller_rabin(a, b) ==
    LET n1 == mp_sub_d(a, 1)
        s  == mp_cnt_lsb(n1)
        Y[j \in 0 .. s] == IF j = 0 THEN mp_exptmod(b, mp_div_2d(n1, s), a) ELSE mp_sqrmod(Y[j - 1], a)
    IN  \/ mp_cmp_d(Y[0], 1) = 0
        \/ \E j \in 0 .. Max({s - 1, 0}) : /\ mp_cmp(Y[j], n1) = 0
                                           /\ \A i \in 1 .. j : mp_cmp_d(Y[i], 1) # 0
\* Says yes of 1.
mp_prime_is_prime(a, t) ==
    \/ \E i \in DOMAIN Primes : mp_cmp_d(a, Primes[i]) = 0
    \/ ~mp_prime_is_divisible(a) /\ \A i \in 1 .. t : mp_prime_miller_rabin(a, mp_set(Primes[i]))
----------------------------------------------------------------------------
(* Numbers in binary and in text.                                          *)

\* Shifted by n bits, with n bits put at the end.
Shifted(a, n, d) == LET c == mp_mul_2d(a, n) IN mp_clamp(Mp(c.neg, <<Dp(c, 0) + d>> \o Tail(Append(c.dp, 0))))
mp_read_unsigned_bin(b) == FoldLeft(LAMBDA x, d : Shifted(x, ByteBits, d), Zero, b)
RECURSIVE mp_to_unsigned_bin(_), ToDigits(_, _)
mp_to_unsigned_bin(a) ==
    IF mp_iszero(a) THEN <<>>
    ELSE Append(mp_to_unsigned_bin(mp_div_2d(a, ByteBits)), Dp(a, 0) % 2^ByteBits)
mp_unsigned_bin_size(a) == LET n == mp_count_bits(a) IN n \div ByteBits + (IF n % ByteBits # 0 THEN 1 ELSE 0)
mp_to_signed_bin(a)   == <<IF a.neg THEN 1 ELSE 0>> \o mp_to_unsigned_bin(a)
mp_read_signed_bin(b) == LET a == mp_read_unsigned_bin(Tail(b)) IN Mp(b[1] # 0, a.dp)

\* A long is four bytes, set from its eight halves and taken from the digits it reaches.
mp_set_int(n) ==
    LET half == ByteBits \div 2
    IN  FoldLeft(LAMBDA x, k : Shifted(x, half, (n \div 2^(half * k)) % 2^half), Zero, Down(7, 0))
mp_get_int(a) ==
    LET n == Min({used(a), (4 * ByteBits + DIGIT_BIT - 1) \div DIGIT_BIT})
    IN  FoldLeft(LAMBDA r, k : (r * B + Dp(a, k)) % 2^(4 * ByteBits), 0, Down(n - 1, 0))

\* A text is its sign and its digits, of which one that is too high ends the number.
ToDigits(t, radix) ==
    IF mp_iszero(t) THEN <<>> ELSE LET d == mp_div_d(t, radix) IN Append(ToDigits(d.q, radix), d.r)
mp_toradix(a, radix) == [minus |-> a.neg, digits |-> IF mp_iszero(a) THEN <<0>> ELSE ToDigits(mp_abs(a), radix)]
mp_read_radix(text, radix) ==
    LET valid == Max({n \in 0 .. Len(text.digits) : \A i \in 1 .. n : text.digits[i] < radix})
        a == FoldLeft(LAMBDA x, y : mp_add_d(mp_mul_d(x, radix), y), Zero, SubSeq(text.digits, 1, valid))
    IN  Mp(text.minus /\ ~mp_iszero(a), a.dp)
=============================================================================
