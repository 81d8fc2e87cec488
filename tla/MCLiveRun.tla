------------------------------ MODULE MCLiveRun ------------------------------
(***************************************************************************)
(* Model checking LiveRun: token counts of one and two units.  The second  *)
(* usage is the most a request may cost, the third is more than that, the  *)
(* fourth carries no total.                                                *)
(***************************************************************************)
EXTENDS LiveRun, TLC

MCInput == [request |-> 1, schema_repair |-> 2]

Use(p, c, t) == [prompt |-> p, completion |-> c, total |-> t]
MCUsages == {Use(0, 0, 0), Use(1, 1, 2), Use(3, 1, 4), Use(1, 0, None)}
OneUsage == {Use(1, 1, 2)}

FirstGenerated == {1}


=============================================================================
