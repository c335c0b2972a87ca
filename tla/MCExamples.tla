---------------------------- MODULE MCExamples ----------------------------
(***************************************************************************)
(* The example programs for TLC.  A behaviour is one of one program: the   *)
(* others stay in their initial states.                                    *)
(***************************************************************************)
EXTENDS EepromShell, LineShell, ButtonControl, LedControl, RosFirmware, RosNode, HttpGet

VARIABLE program

Programs == {"eeprom", "shell", "button", "led", "ros", "node", "http"}

Init == EeInit /\ ShInit /\ BuInit /\ LedInit /\ RosInit /\ NodeInit /\ HgInit
        /\ program \in Programs /\ (program = "node" \/ plugged)

Eeprom(A) ==/\ program = "eeprom" /\ A
            /\ UNCHANGED <<program, shVars, buVars, ledVars, rosVars, nodeVars, hgVars>>
Shell(A) == /\ program = "shell" /\ A
            /\ UNCHANGED <<program, eeVars, buVars, ledVars, rosVars, nodeVars, hgVars>>
Button(A) ==/\ program = "button" /\ A
            /\ UNCHANGED <<program, eeVars, shVars, ledVars, rosVars, nodeVars, hgVars>>
Led(A) ==   /\ program = "led" /\ A
            /\ UNCHANGED <<program, eeVars, shVars, buVars, rosVars, nodeVars, hgVars>>
Ros(A) ==   /\ program = "ros" /\ A
            /\ UNCHANGED <<program, eeVars, shVars, buVars, ledVars, nodeVars, hgVars>>
Node(A) ==  /\ program = "node" /\ A
            /\ UNCHANGED <<program, eeVars, shVars, buVars, ledVars, rosVars, hgVars>>
Http(A) ==  /\ program = "http" /\ A
            /\ UNCHANGED <<program, eeVars, shVars, buVars, ledVars, rosVars, nodeVars>>

Next == \/ Eeprom(EeNext) \/ Shell(ShNext) \/ Button(BuNext) \/ Led(LedNext)
        \/ Ros(RosNext) \/ Node(NodeNext) \/ Http(HgNext)
vars == <<program, eeVars, shVars, buVars, ledVars, rosVars, nodeVars, hgVars>>

\* The scheduler's loop, the tick and the two threads of the node never stop; input and
\* the device come as they like.
Spec == /\ Init /\ [][Next]_vars
        /\ WF_vars(Button(BuSystem))
        /\ WF_vars(Led(LedTurn)) /\ WF_vars(Led(UartTurn))
        /\ \A t \in {"led", "uart"} : WF_vars(Led(LedExpire(t)))
        /\ WF_vars(Node(Reader)) /\ WF_vars(Node(Destroy))
        /\ WF_vars(Http(Poll)) /\ WF_vars(Http(NoName \/ Name)) /\ WF_vars(Http(LinkEvent))

\* The liveness properties, of the program that runs: the level of the button is printed
\* in the end, the LED in mode BLINK blinks for ever, the node reconnects and ends without
\* a port, and the HTTPS GET reports.
ButtonLevelReported == (program = "button") => LevelReported
LedBlinksForever == (program = "led") => BlinksForever
Reconnects == (program = "node") => ComesBack
EndsClean == (program = "node") => EndsWithoutPort
HttpReports == (program = "http") => ReportComes
=============================================================================
