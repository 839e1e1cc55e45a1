----------------------------- MODULE SharedVault -----------------------------
(***************************************************************************)
(* What a vault that several people write promises them, without keys,     *)
(* members, requests or transactions: an edit takes effect once or not at  *)
(* all, between the moment it is made and the moment it is answered, in    *)
(* the one place it was made for; what it wrote can be read until another  *)
(* edit replaces it or the item is removed; nothing brings back what was   *)
(* replaced or removed; and a change of the key is seen by nobody.         *)
(* TeamVault implements this specification.                                *)
(***************************************************************************)
EXTENDS Naturals

CONSTANTS
  Item,     \* the places an edit can be made for, besides the title
  None,     \* nothing yet
  Deleted   \* nothing any more

VARIABLES
  content,  \* content[i] is the number of the edit that can be read in i
  title,    \* and in the title
  made,     \* how many edits were made
  open,     \* those that have not been answered
  version   \* how often the key was changed

items == <<content, title>>
sharedVars == <<items, made, open, version>>

Init ==
  /\ content \in [Item -> {None, 0}] /\ title = 0
  /\ made = 0 /\ open = {} /\ version = 1

Make ==
  /\ made' = made + 1 /\ open' = open \cup {made'}
  /\ UNCHANGED <<items, version>>

(* An edit is over: it took effect, or it was dropped. *)
Answered(e) == e \in open /\ open' = open \ {e} /\ UNCHANGED <<made, version>>
Take(i, e) ==
  /\ content[i] # Deleted /\ content' = [content EXCEPT ![i] = e]
  /\ Answered(e) /\ UNCHANGED title
Retitle(e) == title' = e /\ Answered(e) /\ UNCHANGED content
Drop(e) == Answered(e) /\ UNCHANGED items

Remove(i) ==
  /\ content[i] \in Nat /\ content' = [content EXCEPT ![i] = Deleted]
  /\ UNCHANGED <<title, made, open, version>>

ChangeKey ==
  /\ version' = version + 1
  /\ UNCHANGED <<items, made, open>>

Next ==
  \/ Make \/ ChangeKey
  \/ \E e \in open : Retitle(e) \/ Drop(e)
  \/ \E i \in Item : Remove(i) \/ \E e \in open : Take(i, e)

Spec == Init /\ [][Next]_sharedVars
==============================================================================
