-------------------------- MODULE ClipboardProviders --------------------------
(***************************************************************************)
(* What the system clipboards return after a write (remote_platform/src/   *)
(* *_clipboard.rs). A bundle has a text, an image or both. Of an image     *)
(* the checksum sees the format, the bytes, which are those of the         *)
(* application that copied it or the provider's own encoding of the same   *)
(* pixels, and whether the size is given.                                  *)
(***************************************************************************)
EXTENDS Clipboard

Image == [mime : {"png", "tiff"}, code : {"original", "anew"}, sized : BOOLEAN]
Bundle == {c \in [text : {None, "x", "y"}, image : Image \cup {None}] :
             c.text # None \/ c.image # None}
TextOnly(c) == [c EXCEPT !.image = None]
ImageOnly(c) == [c EXCEPT !.text = None]

\* Every item is written and read again, an image without its size.
MacReturns(c) ==
  IF c.image = None THEN c ELSE [c EXCEPT !.image.sized = FALSE]
\* Of a bundle with an image only that is written, and only a PNG is read again.
LinuxReturns(c) ==
  CASE c.image = None -> c
    [] c.image # None /\ c.image.mime = "png" -> [ImageOnly(c) EXCEPT !.image.sized = FALSE]
    [] OTHER -> None
\* The image alone is written, as pixels, which a read encodes again.
WindowsReturns(c) ==
  IF c.image = None THEN c
  ELSE [ImageOnly(c) EXCEPT !.image = [mime |-> "png", code |-> "anew", sized |-> TRUE]]

\* A write that fails: macOS has cleared the pasteboard and may have written the
\* text, on Linux a command that runs into its timeout may have had its effect.
MacTorn(c) ==
  {None} \cup (IF c.text # None /\ c.image # None THEN {TextOnly(c)} ELSE {})
LinuxTorn(c) == {LinuxReturns(c)}

\* Texts come back as they were written, and so does what a system has returned:
\* a write of it is not altered again.
ASSUME ReturnsSettle ==
  \A c \in Bundle :
    /\ c.image = None => {MacReturns(c), LinuxReturns(c), WindowsReturns(c)} = {c}
    /\ MacReturns(MacReturns(c)) = MacReturns(c)
    /\ WindowsReturns(WindowsReturns(c)) = WindowsReturns(c)
    /\ LinuxReturns(c) # None => LinuxReturns(LinuxReturns(c)) = LinuxReturns(c)
=============================================================================
