------------------------------ MODULE Generator -----------------------------
(***************************************************************************)
(* From proto files to the client header: proto2yaml.py collects the       *)
(* services of all files, cpp-grpc-auto-gen.py renders the template, which *)
(* loops over them.  A service is its package and its name here; methods   *)
(* and message types are left out.                                         *)
(***************************************************************************)
EXTENDS Integers, Sequences, SequencesExt

CONSTANTS Packages, Names,   \* of services
          client_class_name, \* the option of proto2yaml.py
          MaxService         \* bound: services in the files

VARIABLES services,   \* the services in the files, in the order of protoc
          stage,      \* "proto", "yaml" or "header"
          config,     \* the yaml: [package, interface]
          classes     \* the classes of the client header, with their stubs

vars == <<services, stage, config, classes>>

Init ==
    /\ services = << >> /\ stage = "proto"
    /\ config = [package |-> "", interface |-> {}] /\ classes = {}

\* A file declares another service; protoc refuses a name twice in a package.
Declare(p, n) ==
    /\ stage = "proto" /\ Len(services) < MaxService
    /\ [package |-> p, name |-> n] \notin ToSet(services)
    /\ services' = Append(services, [package |-> p, name |-> n])
    /\ UNCHANGED <<stage, config, classes>>

\* generate_yaml: the package of the first service, and a dictionary with the
\* name of each service as its key.
GenerateYaml ==
    /\ stage = "proto" /\ services # << >> /\ stage' = "yaml"
    /\ config' = [package |-> services[1].package,
                  interface |-> {s.name : s \in ToSet(services)}]
    /\ UNCHANGED <<services, classes>>

\* The template declares a class for each key, always by the one name.
RenderClient ==
    /\ stage = "yaml" /\ stage' = "header"
    /\ classes' = {[name |-> client_class_name,
                    stub |-> [package |-> config.package, name |-> n]] : n \in config.interface}
    /\ UNCHANGED <<services, config>>

Next ==
    \/ \E p \in Packages, n \in Names : Declare(p, n)
    \/ GenerateYaml \/ RenderClient

Spec == Init /\ [][Next]_vars

-----------------------------------------------------------------------------
\* README.md:13, "A client implementation for each defined service": the header
\* that each <service>_client.cpp includes has a class with the stub of every
\* service, by a name of its own, without which it does not compile.  It holds
\* for one service only.
ClientForEachService ==
    stage = "header" =>
        /\ \A s \in ToSet(services) : \E d \in classes : d.stub = s
        /\ \A d, e \in classes : d.name = e.name => d = e
=============================================================================
