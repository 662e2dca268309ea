---------------------------- MODULE TokenStream -----------------------------
(***************************************************************************)
(* What a lexer promises its one client, the parser: the tokens of the     *)
(* source form a stream; looking shows the first token that was not yet    *)
(* handed over, and taking hands over exactly that token.  Nothing is      *)
(* skipped, repeated or reordered, however looks and takes alternate.      *)
(***************************************************************************)
EXTENDS Naturals, Sequences

CONSTANT Token

VARIABLES
    produced,    (* the tokens of the source found so far, in source order *)
    delivered,   (* the tokens handed over so far, in the order of handing *)
    seen         (* the tokens the last look showed                        *)

vars == <<produced, delivered, seen>>

Init ==
    /\ produced = <<>>
    /\ delivered = <<>>
    /\ seen = <<>>

(* The source yields one more token. *)
Yield ==
    /\ produced' \in Seq(Token)
    /\ Len(produced') = Len(produced) + 1
    /\ SubSeq(produced', 1, Len(produced)) = produced

Produce == Yield /\ UNCHANGED <<delivered, seen>>

(* A look shows the first token that was not handed over, or nothing. *)
Look ==
    /\ \/ seen' = <<>>
       \/ /\ Len(delivered) < Len(produced)
          /\ seen' = <<produced[Len(delivered) + 1]>>
    /\ UNCHANGED <<produced, delivered>>

(* A take hands over the first token that was not handed over; the client  *)
(* may have looked at it in the same call.  The source may already have    *)
(* gone on to the following token.                                         *)
Take ==
    /\ Len(delivered) < Len(produced)
    /\ delivered' = Append(delivered, produced[Len(delivered) + 1])
    /\ seen' \in {seen, <<produced[Len(delivered) + 1]>>}
    /\ \/ UNCHANGED produced
       \/ Yield

Next == Produce \/ Look \/ Take

Spec == Init /\ [][Next]_vars
=============================================================================
