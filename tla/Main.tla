-------------------------------- MODULE Main --------------------------------
(***************************************************************************)
(* main(), a client of the Lexer: it prints the tokens of a line of input  *)
(* up to the end or the first error.  Its steps are composed with those of *)
(* the Lexer's peek and pop.                                               *)
(***************************************************************************)
EXTENDS Lexer

VARIABLES
    at,          (* where main is: peek, the test behind it, pop, or done  *)
    printed      (* history: the tokens printed                            *)

mainVars == <<vars, at, printed>>

MainInit == Init /\ at = "peek" /\ printed = <<>>

(* l.peek() is called ... *)
MainPeeks ==
    /\ at = "peek"
    /\ Call /\ call'.op = "peek" /\ call'.n = 1
    /\ at' = "test"
    /\ UNCHANGED printed

(* ... and runs. *)
LexerRuns ==
    /\ call # Idle
    /\ LexForPeek \/ PeekFails \/ PeekEnds
    /\ UNCHANGED <<at, printed>>

TestIgnoresEnd ==
    /\ at = "test" /\ call = Idle
    /\ IF seen = <<>>
       THEN at' = "done" /\ UNCHANGED printed
       ELSE at' = "pop" /\ printed' = Append(printed, seen[1])
    /\ UNCHANGED vars

TestPrintsEnd ==
    /\ at = "test" /\ call = Idle
    /\ IF seen = <<>>
       THEN at' = "done" /\ UNCHANGED printed
       ELSE /\ at' = IF seen[1].type = "END_OF_FILE" THEN "done" ELSE "pop"
            /\ printed' = Append(printed, seen[1])
    /\ UNCHANGED vars

TestIgnoresErrors ==
    /\ at = "test" /\ call = Idle
    /\ IF seen = <<>>
       THEN at' = "pop" /\ UNCHANGED printed
       ELSE IF seen[1].type = "END_OF_FILE"
            THEN at' = "done" /\ UNCHANGED printed
            ELSE at' = "pop" /\ printed' = Append(printed, seen[1])
    /\ UNCHANGED vars

(* The loop ends at an error and at END_OF_FILE. *)
Test ==
    /\ at = "test" /\ call = Idle
    /\ IF seen = <<>> \/ seen[1].type = "END_OF_FILE"
       THEN at' = "done" /\ UNCHANGED printed
       ELSE at' = "pop" /\ printed' = Append(printed, seen[1])
    /\ UNCHANGED vars

PopForgotten ==
    /\ at = "pop"
    /\ at' = "peek"
    /\ UNCHANGED <<vars, printed>>

MainPops ==
    /\ at = "pop"
    /\ Pop
    /\ at' = "peek"
    /\ UNCHANGED printed

MainNext == MainPeeks \/ LexerRuns \/ Test \/ MainPops

MainSpec == MainInit /\ [][MainNext]_mainVars /\ WF_mainVars(MainNext)

-----------------------------------------------------------------------------
(* main's loop comes to its end, although the Lexer never runs out of      *)
(* tokens: END_OF_FILE follows END_OF_FILE and an error follows an error.  *)
MainEnds == <>(at = "done")

(* main pops only with a token in the vector: pop_back on an empty vector  *)
(* is undefined behaviour.                                                 *)
PopsWhatItSaw == at = "pop" => lexed_ # <<>> /\ lexed_[Len(lexed_)] = printed[Len(printed)]

(* main prints the tokens in the order the Lexer finds them, each once: a  *)
(* token is not found before those ahead of it are printed.                *)
PrintsInOrder ==
    /\ Len(produced) - Len(printed) \in 0 .. 1
    /\ \A i \in 1 .. Len(printed) : printed[i] = produced[i]

(* When main is done it has printed the tokens of its input up to the      *)
(* first stretch that is none, each once and in order, and nothing else.   *)
PrintsTheSource ==
    LET before == {i \in DOMAIN origin.content :
                      BecomesToken(i)
                          /\ \A k \in 1 .. i : origin.content[k].type # "UNLEXABLE"}
    IN  at = "done" =>
            /\ Len(printed) = Cardinality(before)
            /\ \A i \in before : printed[TokensUpTo(i)].type = origin.content[i].type
=============================================================================
