----------------------------- MODULE MCModelSteps -----------------------------
(* Two requests, one of them with a prompt of one token.                    *)
EXTENDS ModelSteps

MCPrompt == <<1, 5>>
MCLimit  == <<5, 7>>

SlotsSymmetry == Permutations(Slots)
==============================================================================
