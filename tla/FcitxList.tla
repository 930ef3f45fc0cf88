------------------------------- MODULE FcitxList -------------------------------
(***************************************************************************)
(* The doubly linked lists threaded through the objects of fcitx           *)
(* (lib/fcitx-utils/list.h), as the sequence of the objects on the list.   *)
(* An object is on a list at most once: unlinking it is removing the one   *)
(* place where it stands.                                                  *)
(***************************************************************************)
EXTENDS Integers, SequencesExt

list_append(s, e)  == Append(s, e)
list_prepend(s, e) == <<e>> \o s

Position(s, e) == CHOOSE k \in DOMAIN s : s[k] = e

list_remove(s, e) == RemoveAt(s, Position(s, e))
=============================================================================
