------------------------------- MODULE MCSdCard -------------------------------
(* The card and its driver with two sectors in use and a sector of two bytes.    *)
EXTENDS SdCard

Fault(mute, never, rerr, bad, reject) ==
    [mute |-> mute, never_ready |-> never, read_error |-> rerr, bad_sectors |-> bad, write_reject |-> reject]

NoFault == Fault({}, FALSE, FALSE, {}, FALSE)

MCFaults ==
    {NoFault, Fault({}, TRUE, FALSE, {}, FALSE), Fault({}, FALSE, TRUE, {}, FALSE),
     Fault({}, FALSE, FALSE, {1}, FALSE), Fault({}, FALSE, FALSE, {}, TRUE)}
    \cup {Fault({c}, FALSE, FALSE, {}, FALSE) : c \in {0, 8, 17, 24, 55, 58}}

MCMute58 == {NoFault, Fault({58}, FALSE, FALSE, {}, FALSE)}

\* a byte that looks like a command, a token, an idle line, a refusal
MCContents == {<<64, 254>>, <<255, 1>>}

MCCards == {[sdhc |-> h, strict |-> s] : h, s \in BOOLEAN}
MCSdhc == {[sdhc |-> TRUE, strict |-> TRUE]}
==============================================================================
