------------------------------- MODULE MCSci -------------------------------
(***************************************************************************)
(* Two instances of one protocol and a third of the other, and two ids     *)
(* that are only registered, so that a map holds three names: the          *)
(* hashes of b, d and e collide in tables of up to 8 slots, and a table    *)
(* grows when it is half full and when a chain is taken.                   *)
(***************************************************************************)
EXTENDS Sci

MCNameOf == <<"a", "b", "c", "d", "e">>
MCProtocols == {<<ProtocolP, ProtocolP, ProtocolLS>>, <<ProtocolLS, ProtocolLS, ProtocolP>>}

\* Instance 1 knows the points, instance 2 learns who talks to it, as servers do.
MCDirectory == <<{2, 4, 5}, {}, {1}>>

MCPeers == {{1, 2}, {1, 3}}

\* Instance 1 commands, instance 2 is commanded, instance 3 is disregarded by both.
Commands == {ChangeLocation, ChangeBrightness}
Reports == {LocationStatus, Timeout, SignalAspectStatus, BrightnessStatus}
MCOffered == <<{VersionRequest, StatusRequest} \union Commands, {StatusFinish} \union Reports,
               {ChangeLocation}>>
MCHandled == <<CommonTypes \union Reports, (CommonTypes \ {StatusFinish}) \union Commands,
               CommonTypes \union Reports \union Commands>>

MCMix == [n \in {"a", "b", "c", "d", "e"} |-> CASE n = "a" -> 3 [] n = "b" -> 0 [] n = "c" -> 1
                           [] n = "d" -> 8 [] n = "e" -> 16]

Aspect(way, back) == [lamps |-> <<1, 255, 15, 255, 26, 255>>, deprecation |-> 255,
                     upstream |-> back, downstream |-> way, dark_switching |-> 1]

MCValues(p, t) ==
    CASE t = VersionRequest -> {1}
      [] t = VersionResponse -> [result : {2}, version : {1}, checksum : {0, 82, 83}]
      [] t \in {StatusRequest, StatusBegin, StatusFinish} -> {NoValue}
      [] p = ProtocolP /\ t = Timeout -> {NoValue}
      [] p = ProtocolLS /\ t \in {ShowSignalAspect, SignalAspectStatus} ->
            {Aspect(15, 2)}
      [] OTHER -> {4}
=============================================================================
