----------------------------- MODULE MCScripts ------------------------------
(***************************************************************************)
(* What a server is made to run and how it talks, part by part: script     *)
(* hosts, configuration and manifests, serialisation, the file system and  *)
(* packages, and the network layer's receive window, session table and     *)
(* replication tracker. No part reads another's variables, so a behaviour  *)
(* picks the one that moves and the others stay as they began: every       *)
(* behaviour of each is checked, at the sum of their state spaces.         *)
(***************************************************************************)
EXTENDS ScriptHosts, Config, Wire, Packages, Reliability, Sessions,
        Replication

MCWireInts ==
    {I64(n) : n \in {0, 127, 128, 255, 256, 65535, 65536, -1, -32, -33, -128, -129, -32768, -32769}}
    \cup {<<0, 0, 0, 0, 255, 255, 255, 255>>, <<0, 0, 0, 1, 0, 0, 0, 0>>,
          <<127, 255, 255, 255, 255, 255, 255, 255>>, <<255, 255, 255, 255, 127, 255, 255, 255>>,
          <<128, 0, 0, 0, 0, 0, 0, 0>>}
MCLuaInts ==
    {I64(n) : n \in {0, 127, 128, 256, 65535, 65536, -1, -33, -128, -129}}
    \cup {<<127, 255, 255, 255, 255, 255, 255, 255>>}
MCCfgContents ==
    {<<>>, <<Text>>, <<Exec("a", "plain"), Text>>, <<Text, Exec("b", "plain")>>,
     <<Exec("a", "dotted"), Exec("b", "plain"), Exec("b", "plain")>>,
     <<Exec("a", "inner")>>, <<Exec("root", "plain")>>, <<Text, Exec("b", "up")>>,
     <<Exec("a", "absolute")>>, <<Exec("a", "empty")>>, <<Text, BadText>>}

MCRelatives ==
    {<<>>, <<"f">>, <<"d">>, <<"d", "f">>, <<".", "f">>, <<"d", "..", "f">>,
     <<"..", "f">>, <<"", "f">>, <<"nul">>, <<"f:s">>, <<"d", "g">>, <<"n", "f">>}
MCDirLinks == {<<"a", "d">>}
MCFileLinks == {<<"a", "f">>}

VARIABLE moving     \* the machine that moves

scriptsVars ==
    <<luaVars, backtickVars, vectorVars, wireVars, includeVars, normVars,
      manifestVars, resolveVars, installVars, extensionVars, loadVars,
      imageVars, analysisVars, tickVars, jsVars, vfsVars, packageVars,
      registryVars, reliabilityVars, sessionVars, replicationVars, busVars,
      moving>>

ScriptsInit ==
    /\ LuaInit /\ BacktickInit /\ VectorInit /\ WireInit /\ IncludeInit
    /\ NormInit /\ ManifestInit /\ ResolveInit /\ InstallInit /\ ExtensionInit
    /\ LoadInit /\ ImageInit /\ AnalysisInit /\ TickInit /\ JsInit /\ VfsInit
    /\ PackagesInit /\ RegistriesInit /\ ReliabilityInit /\ SessionsInit
    /\ ReplicationInit /\ BusInit
    /\ moving \in {"tables", "backticks", "vectors", "wire", "includes",
                   "normalize", "manifest", "resolve", "install", "extension",
                   "loadplan", "image", "analysis", "ticks", "js", "vfs",
                   "packages", "registries", "window", "sessions",
                   "replication", "bus"}

(* The variables of every machine but the one that moves stay as they are. *)
OthersStay ==
    /\ UNCHANGED moving
    /\ IF moving = "tables" THEN TRUE ELSE UNCHANGED luaVars
    /\ IF moving = "backticks" THEN TRUE ELSE UNCHANGED backtickVars
    /\ IF moving = "vectors" THEN TRUE ELSE UNCHANGED vectorVars
    /\ IF moving = "wire" THEN TRUE ELSE UNCHANGED wireVars
    /\ IF moving = "includes" THEN TRUE ELSE UNCHANGED includeVars
    /\ IF moving = "normalize" THEN TRUE ELSE UNCHANGED normVars
    /\ IF moving = "manifest" THEN TRUE ELSE UNCHANGED manifestVars
    /\ IF moving = "resolve" THEN TRUE ELSE UNCHANGED resolveVars
    /\ IF moving = "install" THEN TRUE ELSE UNCHANGED installVars
    /\ IF moving = "extension" THEN TRUE ELSE UNCHANGED extensionVars
    /\ IF moving = "loadplan" THEN TRUE ELSE UNCHANGED loadVars
    /\ IF moving = "image" THEN TRUE ELSE UNCHANGED imageVars
    /\ IF moving = "analysis" THEN TRUE ELSE UNCHANGED analysisVars
    /\ IF moving = "ticks" THEN TRUE ELSE UNCHANGED tickVars
    /\ IF moving = "js" THEN TRUE ELSE UNCHANGED jsVars
    /\ IF moving = "vfs" THEN TRUE ELSE UNCHANGED vfsVars
    /\ IF moving = "packages" THEN TRUE ELSE UNCHANGED packageVars
    /\ IF moving = "registries" THEN TRUE ELSE UNCHANGED registryVars
    /\ IF moving = "window" THEN TRUE ELSE UNCHANGED reliabilityVars
    /\ IF moving = "sessions" THEN TRUE ELSE UNCHANGED sessionVars
    /\ IF moving = "replication" THEN TRUE ELSE UNCHANGED replicationVars
    /\ IF moving = "bus" THEN TRUE ELSE UNCHANGED busVars

ScriptsNext ==
    \/ moving = "tables" /\ LuaNext /\ OthersStay
    \/ moving = "backticks" /\ BacktickNext /\ OthersStay
    \/ moving = "vectors" /\ VectorNext /\ OthersStay
    \/ moving = "wire" /\ WireNext /\ OthersStay
    \/ moving = "includes" /\ IncludeNext /\ OthersStay
    \/ moving = "normalize" /\ NormNext /\ OthersStay
    \/ moving = "manifest" /\ ManifestNext /\ OthersStay
    \/ moving = "resolve" /\ ResolveNext /\ OthersStay
    \/ moving = "install" /\ InstallNext /\ OthersStay
    \/ moving = "extension" /\ ExtensionNext /\ OthersStay
    \/ moving = "loadplan" /\ LoadNext /\ OthersStay
    \/ moving = "image" /\ ImageNext /\ OthersStay
    \/ moving = "analysis" /\ AnalysisNext /\ OthersStay
    \/ moving = "ticks" /\ advance_ticks /\ OthersStay
    \/ moving = "js" /\ JsNext /\ OthersStay
    \/ moving = "vfs" /\ VfsNext /\ OthersStay
    \/ moving = "packages" /\ PackagesNext /\ OthersStay
    \/ moving = "registries" /\ RegistriesNext /\ OthersStay
    \/ moving = "window" /\ ReliabilityNext /\ OthersStay
    \/ moving = "sessions" /\ SessionsNext /\ OthersStay
    \/ moving = "replication" /\ ReplicationNext /\ OthersStay
    \/ moving = "bus" /\ BusNext /\ OthersStay

ScriptsSpec == ScriptsInit /\ [][ScriptsNext]_scriptsVars
=============================================================================
