--------------------------- MODULE MCFingerprint ---------------------------
(* Finite instance of Fingerprint for TLC. *)
EXTENDS Fingerprint

Peers == {[host |-> "h", port |-> 1], [host |-> "h", port |-> 2]}

H2 == [first |-> "h", last |-> "2"]
\* 2570, 6682 and 14906 are GREASE (0a0a, 1a1a, 3a3a).
Browser ==
    [versions |-> <<2570, 772, 771>>, ciphers |-> <<2570, 4865, 4866>>,
     exts |-> <<6682, 0, 16, 43>>, curves |-> <<29>>, points |-> <<0>>,
     protos |-> <<H2>>, name |-> TRUE, sigs |-> <<1027, 2052>>]
\* The same stack, another connection; a stack that only signs otherwise; one
\* that offers nothing but GREASE.
Shuffled == [Browser EXCEPT !.versions = <<772, 14906, 771>>, !.ciphers = <<4866, 4865>>,
                            !.exts = <<43, 16, 0, 2570>>]
Other == [Browser EXCEPT !.sigs = <<2052, 1027>>]
Bare == [Browser EXCEPT !.versions = <<2570>>, !.ciphers = <<2570>>, !.exts = <<6682>>,
                        !.protos = <<>>, !.name = FALSE, !.sigs = <<2570>>]
AllHellos == {Browser, Shuffled, Other, Bare}
Symmetry == Permutations(TLSConns)
============================================================================
