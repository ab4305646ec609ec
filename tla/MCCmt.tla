------------------------------- MODULE MCCmt --------------------------------
(***************************************************************************)
(* Small instance of Cmt: two tapes, a window of two words of two bits, a  *)
(* clock that wraps about every second tape; the user intervenes MaxChoices*)
(* times: chooses a tape, or a file that is not there, or resets the       *)
(* machine.                                                                *)
(***************************************************************************)
EXTENDS Cmt

CONSTANT MaxChoices

VARIABLE choices

mcvars == <<vars, choices>>

MCLength == [t \in Tapes |-> IF t = CHOOSE u \in Tapes : TRUE THEN 3 ELSE 2]
MCSteps == {1, 2}

MCInit == Init /\ choices = 0

Execution == \E d \in Steps : Execute(d)

MCNext ==
  \/ /\ Execution \/ cmt_read \/ MotorOn \/ MotorOff
     /\ UNCHANGED choices
  \/ /\ choices < MaxChoices
     /\ (\E t \in Tapes : ChooseTape(t)) \/ ChooseMissing \/ mz_reset
     /\ choices' = choices + 1

MCSpec == MCInit /\ [][MCNext]_mcvars
            /\ WF_mcvars(Execution /\ UNCHANGED choices)
            /\ WF_mcvars(cmt_read /\ UNCHANGED choices)
=============================================================================
