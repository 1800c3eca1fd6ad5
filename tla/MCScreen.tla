------------------------------ MODULE MCScreen ------------------------------
(***************************************************************************)
(* Screen for TLC.  A run goes no further when the page changes under the  *)
(* pointer, or a packet finds it changed: of the pointer nothing is        *)
(* promised then, and the text does not depend on it.  Nor when a program  *)
(* starts while the shell is painted on, by an Enter before the click; nor *)
(* when a command is recalled that was begun before the pointer came up.   *)
(***************************************************************************)
EXTENDS Screen

Followed == /\ clean /\ (prev_char # Unset => ~touched)
            /\ paint => top = "shell" /\ ~typing
            /\ prev_char # Unset => command_pos = 0

(* Of lines with a 0, which Escape types, those that are on the first row  *)
(* of an empty page.                                                       *)
Nul(s) == \E k \in DOMAIN s : s[k] = Unset
OnFirstRow ==
  Nul(line) \/ Nul(saved.chars) \/ (\E r \in 1 .. Height : Nul(text.cells[r])) =>
    /\ text.above = <<>> /\ text.y = 0 /\ top = "shell"
    /\ \A r \in 2 .. Height : text.cells[r] = Spaces(Width)

SmallTitle == <<"P", "A">>
SmallOutput == {<<"S", "nl">>}
SmallHistory == <<<<"a">>, <<"b", "a">>>>
=============================================================================
