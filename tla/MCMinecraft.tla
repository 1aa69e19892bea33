---------------------------- MODULE MCMinecraft ----------------------------
(* Finite instance of Minecraft for TLC: groups of 3, so bytes 0..5, lengths *)
(* up to 8; <<3, 2>> is 6.                                                  *)
EXTENDS Minecraft, TLC

Body == <<0, 0, 0, 0, 0, 1>>
ClientStreams ==
    { <<3, 2>> \o Body \o <<5>>,             \* a handshake, then a session
      <<1, 0, 2>>,                           \* a body cut off
      <<3, 3>> }                             \* a length that does not end
Bodies == UNION {[1..n -> {0, 1, 3}] : n \in 0..7}
============================================================================
