---------------------- MODULE MCDockerTroubleshooting ----------------------
(***************************************************************************)
(* Catalogues and registry for model checking DockerTroubleshooting.       *)
(***************************************************************************)
EXTENDS DockerTroubleshooting

CONSTANT UseShippedCatalogue

\* The keys CMakeLists.txt:26-36 registers: the file names of the actions.
MCRegistered  == {"OpenUrl", "RunApp", "CheckConnectivity"}
MCImplemented == {"OpenUrl"}

\* standalone/solutions.json as it is shipped.
Shipped == {[problem |-> "docker_not_found", name |-> "Download Docker",
             action |-> "open_url"]}

\* A catalogue that names its actions as they are registered, with a second
\* problem and a second solution.
WellNamed ==
  { [problem |-> "docker_not_found", name |-> "Download Docker", action |-> "OpenUrl"],
    [problem |-> "docker_not_found", name |-> "Docker help",     action |-> "OpenUrl"],
    [problem |-> "no_network",       name |-> "Check the host",  action |-> "RunApp"] }

MCCatalogue == IF UseShippedCatalogue THEN Shipped ELSE WellNamed
=============================================================================
