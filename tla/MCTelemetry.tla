---------------------------- MODULE MCTelemetry ----------------------------
(***************************************************************************)
(* Instances of Telemetry for TLC: a library that is given no device id,   *)
(* or one; events logged without options, with a context that names a      *)
(* device, with a context that does not (which takes the earlier one away),*)
(* and with an environment.                                                *)
(***************************************************************************)
EXTENDS Telemetry

CONSTANTS Device, User

TheKeys == {"context", "actor"}

Opt(c, a, e) == [context |-> c, actor |-> a, runningEnv |-> e]

EachOption ==
    {Opt(None, None, None), Opt(Device, User, None), Opt(Empty, None, "server")}

NoOption == {Opt(None, None, None)}

Conf(b, v, d) ==
    [batchsize |-> b, runningEnv |-> None, validation |-> v, did |-> d, uid |-> None]

EachConfig == {Conf(3, TRUE, None), Conf(None, None, Device)}
PageConfig == {Conf(None, None, None)}

=============================================================================
