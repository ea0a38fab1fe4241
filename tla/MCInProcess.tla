---------------------------- MODULE MCInProcess ----------------------------
(* Two orchestrators with the default id and two workers with the default  *)
(* id, as four objects made by the same harness are.                       *)
EXTENDS InProcess, SequencesExt, TLC

CONSTANTS o1, o2, w1, w2

MCOrchestrators == {o1, o2}
MCWorkers == {w1, w2}

\* "orchestrator_agent" and "secure_search_agent".
MCIds == {<<1>>, <<2>>}
MCIdOf == [x \in Orchestrators \cup Workers |-> IF x \in Orchestrators THEN <<1>> ELSE <<2>>]
MCEpochs == {<<9>>}
MCFresh == [n \in 1..(MaxSessions + MaxCalls) |-> <<n>>]

Symmetry == Permutations({o1, o2}) \cup Permutations({w1, w2})

\* The encodings: labels of one byte, where distinct ones are needed ...
MCOrder == <<"QSC-HYBRID-SESSION-KEY/v1", "QSC-SESSION-AUTH/v1", "QSC-HTTP-BOOTSTRAP/v1",
             "pqc+qkd+qrng", "pqc+qrng", "worker-handshake",
             "orchestrator-registration", "session-teardown", "client-delegation">>
MCLabel == [n \in Names \cup ToSet(MCOrder) |->
               <<IF n \in Names THEN 0 ELSE CHOOSE k \in DOMAIN MCOrder : MCOrder[k] = n>>]

\* ... and byte strings that can be divided in several ways.
MCFields == {<<>>, <<1>>, <<1, 1>>}
MCCompared == [sender : {<<1>>, <<1, 1>>}, receiver : {<<2>>}, context : {<<1>>, <<1, 1>>},
               pqc_ciphertext : {<<1>>}, pqc_secret : {<<1>>},
               qrng_entropy : {<<>>, <<1>>}, qkd_secret : {<<>>, <<1>>, NONE},
               qkd_epoch : {<<>>, <<1>>, NONE}]

\* SessionEncoding's claims, evaluated on these samples.
ASSUME UnambiguousAssumption == Unambiguous
=============================================================================
