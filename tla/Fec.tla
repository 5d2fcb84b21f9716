-------------------------------- MODULE Fec --------------------------------
(***************************************************************************)
(* transport/fec.h: one XOR recovery packet per group of data packets.     *)
(*                                                                         *)
(* A packet is what its bytes are the exclusive or of, and its length:     *)
(* shorter ones count as followed by zeros.  A missing packet is empty.    *)
(***************************************************************************)
EXTENDS Integers, FiniteSets, FiniteSetsExt

Nothing == [terms |-> {}, size |-> 0]

Xor(a, b) == (a \ b) \cup (b \ a)

\* The exclusive or of the contents known[i], i \in I.
XorOver(known, I) ==
    MapThenFoldSet(Xor, {}, LAMBDA i : known[i], LAMBDA S : CHOOSE i \in S : TRUE, I)

TermsOf(known) == [i \in DOMAIN known |-> known[i].terms]
Longest(known) == Max({known[i].size : i \in DOMAIN known})

\* The packet followed by zeros.
Padded(d, n) == [terms |-> d.terms, size |-> n]

\* All of them, each as long as the longest.
XorOfAll(known) == [terms |-> XorOver(TermsOf(known), DOMAIN known),
                    size  |-> Longest(known)]

\* fec_generate
Parity(data) == XorOfAll(data)

Holes(known) == {i \in DOMAIN known : known[i].size = 0}

\* fec_recover: fills the hole of a group that has exactly one, and does not know how
\* long the lost packet was: expect_len is the length of the longest.
RecoverableUpToTwo(known) == Cardinality(Holes(known)) \in {1, 2}
Recoverable(known) == Cardinality(Holes(known)) = 1

Recovered(known) ==
    [i \in DOMAIN known |-> IF known[i].size = 0 THEN XorOfAll(known) ELSE known[i]]
=============================================================================
