-------------------------- MODULE BigNumReference ---------------------------
(***************************************************************************)
(* What the operators of BigNum compute, said with integers.  Digits have  *)
(* three bits, so that numbers of three digits are small; the sizes from   *)
(* which a product is computed otherwise are so small that each way occurs.*)
(***************************************************************************)
EXTENDS Integers, Sequences

LOCAL INSTANCE FiniteSetsExt

Primes == <<2, 3, 5, 7>>
Big == INSTANCE BigNum WITH DIGIT_BIT <- 3, ByteBits <- 2, MaxColumn <- 6, MaxRow <- 3,
                            KaratsubaCutoff <- 2, ToomCutoff <- 3

Abs(i)    == IF i < 0 THEN -i ELSE i
Div(i, j) == LET q == Abs(i) \div Abs(j) IN IF (i < 0) # (j < 0) THEN -q ELSE q
Rem(i, j) == i - j * Div(i, j)
Gcd(i, j) == Max({d \in 1 .. Max({Abs(i), Abs(j)}) : i % d = 0 /\ j % d = 0})
RECURSIVE Power(_, _, _)
Power(g, x, p) == IF x = 0 THEN 1 % p ELSE (g * Power(g, x - 1, p)) % p
Num(i) == LET n == Max({0} \cup {k \in 1 .. 9 : Abs(i) >= 8^(k - 1)})
          IN  Big!Mp(i < 0, [k \in 1 .. n |-> (Abs(i) \div 8^(k - 1)) % 8])

\* One number: with a digit, with a power of two, squared, as a prime, written and read.
OneIsExact(i) ==
    LET x == Num(i)
    IN  /\ \A d \in 0 .. 7 :
             /\ Big!mp_add_d(x, d) = Num(i + d) /\ Big!mp_sub_d(x, d) = Num(i - d) /\ Big!mp_mul_d(x, d) = Num(i * d)
             /\ d # 0 => Big!mp_div_d(x, d) = [q |-> Num(Div(i, d)), r |-> Abs(i) % d]
             /\ Big!mp_mul_2d(x, d) = Num(i * 2^d) /\ Big!mp_div_2d(x, d) = Num(Div(i, 2^d))
             /\ Big!mp_mod_2d(x, d) = Num(Rem(i, 2^d)) /\ Big!mp_2expt(d) = Num(2^d)
             /\ Big!mp_cmp_d(x, d) = IF i < d THEN -1 ELSE IF i > d THEN 1 ELSE 0
        /\ Big!mp_mul_2(x) = Num(2 * i) /\ Big!mp_div_2(x) = Num(Div(i, 2))
        /\ Num(i * i) \in {Big!mp_sqr(x)} \cap {Big!fast_s_mp_sqr(x)} \cap {Big!s_mp_sqr(x)} \cap {Big!mp_karatsuba_sqr(x)}
        /\ i > 1 => Big!mp_prime_is_prime(x, 4) = (\A d \in 2 .. i - 1 : i % d # 0)
        /\ \A r \in 2 .. 7 : Big!mp_read_radix(Big!mp_toradix(x, r), r) = x
        /\ Big!mp_read_signed_bin(Big!mp_to_signed_bin(x)) = x
        /\ Len(Big!mp_to_unsigned_bin(x)) = Big!mp_unsigned_bin_size(x)
        /\ i \in 0 .. 255 => Big!mp_set_int(i) = x /\ Big!mp_get_int(x) = i

\* Two numbers.  The modulus of an inverse is over 1 and does not divide the number.
ProductsAreExact(i, j) ==
    LET x == Num(Abs(i))
        y == Num(Abs(j))
        n == Len(x.dp) + Len(y.dp)
        p == Num(Abs(i * j))
    IN  /\ Big!mp_mul(Num(i), Num(j)) = Num(i * j)
        /\ p \in {Big!fast_s_mp_mul_digs(x, y, n)} \cap {Big!Rows(x, y, 0, n)}
        /\ \A d \in 1 .. n : Big!mp_mod_2d(p, 3 * d) \in {Big!Rows(x, y, 0, d)} \cap {Big!s_mp_mul_digs(x, y, d)}
        /\ \A d \in 0 .. n : Big!Rows(x, y, d, n + 1) = Big!s_mp_mul_high_digs(x, y, d)
InverseIsExact(i, j, v) ==
    IF Gcd(i, j) = 1 THEN \E k \in 0 .. j - 1 : v = Num(k) /\ (k * i) % j = 1 ELSE v = Big!Failed
TwoAreExact(i, j) ==
    LET x == Num(i)
        y == Num(j)
    IN  /\ Big!mp_add(x, y) = Num(i + j) /\ Big!mp_sub(x, y) = Num(i - j)
        /\ Big!mp_cmp(x, y) = IF i < j THEN -1 ELSE IF i > j THEN 1 ELSE 0
        /\ ProductsAreExact(i, j)
        /\ j # 0 => Big!mp_div(x, y) = [q |-> Num(Div(i, j)), r |-> Num(Rem(i, j))]
        /\ j > 0 => Big!mp_mod(x, y) = Num(i % j)
        /\ i # 0 /\ j # 0 => /\ Big!mp_gcd(x, y) = Num(Gcd(i, j))
                             /\ Big!mp_lcm(x, y) = Num(Abs(i * j) \div Gcd(i, j))
        /\ j > 1 /\ i % j # 0 => InverseIsExact(i, j, Big!mp_invmod_slow(x, y))
        /\ j > 1 /\ i > 0 /\ i % j # 0 => InverseIsExact(i, j, Big!mp_invmod(x, y))

\* A number less than the square of the modulus, reduced each way that fits the modulus.
ReductionsAreExact(i, m) ==
    LET x   == Num(i)
        n   == Num(m)
        r   == Num(i % m)
        rho == Big!mp_montgomery_setup(n)
        R   == Big!mp_montgomery_calc_normalization(n)
        xR  == Big!mp_mul(r, R)
    IN  /\ Big!mp_reduce(x, n, Big!mp_reduce_setup(n)) = r
        /\ Big!mp_reduce_2k_l(x, n, Big!mp_reduce_2k_setup_l(n)) = r
        /\ m % 2 = 1 => /\ R = Num((8^Len(n.dp)) % m)
                        /\ r \in {Big!fast_mp_montgomery_reduce(xR, n, rho)} \cap {Big!RowByRow(xR, n, rho)}
        /\ Big!mp_dr_is_modulus(n) => Big!mp_dr_reduce(x, n, Big!mp_dr_setup(n)) = r
        /\ Big!mp_reduce_is_2k(n) => Big!mp_reduce_2k(x, n, Big!mp_reduce_2k_setup(n)) = r

\* A power; of a negative exponent, if the base is positive, the power of the inverse.
PowersAreExact(g, x, m) ==
    LET v == Big!mp_exptmod(Num(g), Num(x), Num(m))
        Fits(dr) == CASE dr = 0 -> m % 2 = 1 [] dr = 1 -> Big!mp_dr_is_modulus(Num(m)) [] OTHER -> Big!mp_reduce_is_2k(Num(m))
    IN  IF x >= 0
        THEN /\ v = Num(Power(g, x, m))
             /\ \A dr \in {d \in 0 .. 2 : Fits(d)} : Big!mp_exptmod_fast(Num(g), Num(x), Num(m), dr) = v
        ELSE g <= 0 \/ g % m = 0 \/ InverseIsExact(Power(g, -x, m), m, v)
=============================================================================
