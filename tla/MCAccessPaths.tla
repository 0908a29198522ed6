---------------------------- MODULE MCAccessPaths ----------------------------
(* A consumer's layout of his own: the reset flow keeps its two fields in a *)
(* subdocument that it clears as one, one flag deletes and disables, and    *)
(* the verify-email flow keeps its three beside the field of the new        *)
(* address, each cleared by its name.                                       *)
EXTENDS AccessPaths, TLC

Reset(field) == <<"reset", field>>
Link(field) == <<"link", field>>

MCResetOverrides ==
  [email |-> <<"mail">>, password |-> <<"pass">>, name |-> <<"mail">>,
   resetDateReq |-> Reset("at"), resetHash |-> Reset("hash"),
   deleted |-> <<"gone">>, disabled |-> <<"gone">>, resetClear |-> {<<"reset">>}]

MCVerifyOverrides ==
  [email |-> <<"mail">>, valid |-> <<"valid">>, hash |-> Link("hash"),
   dateLastReq |-> Link("at"), requestTimes |-> Link("times"), newEmailTmp |-> Link("next"),
   deleted |-> <<"gone">>, disabled |-> <<"gone">>,
   verifyClear |-> {Link("hash"), Link("at"), Link("times")},
   emailChangeClear |-> {<<"link">>}]

MCPath ==
  {<<"mail">>, <<"pass">>, <<"gone">>, <<"valid">>, <<"reset">>, Reset("at"), Reset("hash"),
   <<"link">>, Link("hash"), Link("at"), Link("times"), Link("next")}

\* The layout keeps what the properties rest on.
LayoutIsSound == PathsAssumption /\ Sound
==============================================================================
