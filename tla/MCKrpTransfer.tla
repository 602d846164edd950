--------------------------- MODULE MCKrpTransfer ---------------------------
(***************************************************************************)
(* Instances of KrpTransfer for TLC: a source of two frames, the last one  *)
(* short, a source of one full frame, edits from either to the other, and  *)
(* layouts of three cells, one fewer than the Feistel domain, so that      *)
(* walks of more than one step occur.                                      *)
(***************************************************************************)
EXTENDS KrpTransfer

TwoVersions == {<<1, 2, 3>>, <<1, 4>>}

\* Round values that differ between keys and contexts: session keys are the
\* numbers of connections, and a context ends in the number of its frame.
MixedTable ==
    [k \in Conns |-> [number \in 0 .. 2 |->
        [r \in 0 .. Rounds - 1 |->
            [x \in 0 .. 1 |-> (k + number * (r + 1) + x * (r \div 2)) % 256]]]]
MixedRounds(key, context) == MixedTable[key[1]][context[3]]

\* What can still be read of a state, as a VIEW: all of it but the variables of
\* a call or a handler that has ended, the messages of a connection whose
\* receiver has left, and the text of a secret file that has lost its name.
Readable ==
    <<source, cpc, conn, saved, request, closed, hconn, hpc, triggered,
      held, spc, mine, drawn, stored, dataVars, nameVars, modelVars,
      [c \in {c \in Clients : cpc[c] # "idle"} |-> <<digest[c], sent[c], first[c]>>],
      IF hconn = None THEN <<>> ELSE <<start, nxt, cur>>,
      [n \in Conns \ closed |-> up[n]],
      [n \in {n \in Conns : Attached(n)} |-> down[n]],
      [x \in {dir.secret, journal.secret} \ {None} |-> text[x]]>>
=============================================================================
