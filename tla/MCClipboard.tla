---------------------------- MODULE MCClipboard ------------------------------
(* Instances of Clipboard for TLC: Linux on side a, which sends more, macOS   *)
(* on side b.                                                                 *)
EXTENDS ClipboardProviders
CONSTANTS a, b, k1, k2

MCObjects == (a :> 3) @@ (b :> 1)
Plain(t) == [text |-> t, image |-> None]
Picture(t) == [text |-> t, image |-> [mime |-> "png", code |-> "original", sized |-> FALSE]]
\* A text, an image, and both together, of which Linux returns the image.
Mixed == {Plain("x"), Picture(None), Picture("x")}
Texts == {Plain("x"), Plain("y")}
MCNative ==
  (a :> [c \in Content |-> LinuxReturns(c)]) @@ (b :> [c \in Content |-> MacReturns(c)])
MCTorn ==
  (a :> [c \in Content |-> LinuxTorn(c)]) @@ (b :> [c \in Content |-> MacTorn(c)])
Alike == Permutations({k1, k2})
=============================================================================
