-------------------------- MODULE MCSuppressionMap --------------------------
(***************************************************************************)
(* Three devices, two device_down alerts of two rules on one and one alert *)
(* on the others, an interface_down at both ends of one link.              *)
(***************************************************************************)
EXTENDS SuppressionCycle, TLC

CONSTANTS a, b, c, downA, downA2, downB, downC, ifAB, ifBA

ThreeDevices   == {a, b, c}
DownAlertsDef  == {downA, downA2, downB, downC}
LinkAlertsDef  == {ifAB, ifBA}
AllAlerts      == DownAlertsDef \cup LinkAlertsDef
DeviceOfDef    == (downA :> a) @@ (downA2 :> a) @@ (downB :> b) @@ (downC :> c)
                  @@ (ifAB :> a) @@ (ifBA :> b)
RemoteDef      == [x \in AllAlerts |-> IF x = ifAB THEN b ELSE IF x = ifBA THEN a ELSE NoDevice]
=============================================================================
