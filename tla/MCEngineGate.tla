---------------------------- MODULE MCEngineGate ----------------------------
(* EngineGate on small instances. *)
EXTENDS EngineGate

CONSTANTS small, big

\* Generations only grow and are only compared with the newest: states that differ in
\* how old an old one is behave alike.
Fresh(number, newest) == number # 0 /\ number = newest
Ageless ==
  <<gate, embedHeld, is2B, fifoVars, chatVars, embVars, selected, Fresh(tokenRef, chatGen),
    faceVars, hot, turnVars, query, histVars,
    [l \in Slots |-> <<load[l].at, load[l].model, load[l].ok,
                       load[l].at \in {"off", "reporting", "hopping"} \/ load[l].gen = appGen,
                       Fresh(load[l].token, chatGen)>>],
    switch.at, Fresh(switch.token, chatGen)>>

\* The program after a first load, with a turn that decodes or without one: states
\* the cold start reaches, taken as starts so that the acts go further.
Warm ==
  /\ gate = "chat_ready" /\ embedHeld = FALSE /\ chatGen = 1
  /\ fifo = <<>> /\ stage = "queued"
  /\ selected \in Models /\ is2B = (selected \in Small)
  /\ context = selected /\ chatMem = 1 /\ contextHung = FALSE
  /\ emb = FALSE /\ embMem = FALSE /\ embHung = FALSE
  /\ appGen = 0 /\ tokenRef = 1
  /\ modelState = "ready" /\ hopped = NoModel /\ probe = FALSE /\ hot = FALSE
  /\ load = [l \in Slots |-> NoLoad]
  /\ switch = [at |-> "off", token |-> 0]
  /\ turn \in {"off", "decode"} /\ claimed = (turn = "decode") /\ stopped = FALSE
  /\ query = [q \in Callers |-> "off"]
  /\ strayed = FALSE

MCInit == (Boot /\ acts = MaxActs - 1) \/ (Warm /\ acts = 0)
MCSpec == MCInit /\ [][EngineNext]_engineVars
=============================================================================
