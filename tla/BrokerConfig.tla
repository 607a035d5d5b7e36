---------------------------- MODULE BrokerConfig ----------------------------
(***************************************************************************)
(* The content of one configuration secret and the operations that the     *)
(* controllers perform on it: BrokerConfig and the mutators of             *)
(* internal/config/config_writer.go.  Names and Values are opaque; a       *)
(* section is a partial map from names to entries, since the code looks    *)
(* entries up by name and never adds a name twice.                         *)
(***************************************************************************)
CONSTANTS
    Namespaces,     \* namespaces that may hold a configuration secret
    Sections,       \* sections with named entries: servers, a2aAgents
    Names,          \* names of entries, namespace/name of a registration
    Values,         \* contents of an entry, of virtualServers, of the CA bundle
    None            \* no secret, no entry, no value

Configs == [entries : [Sections -> [Names -> Values \cup {None}]],
            virtualServers : Values \cup {None},
            gatewayCACertPEM : Values \cup {None}]

\* emptyConfigFile: no servers, no virtual servers, and no other section.
EmptyConfig == [entries |-> [s \in Sections |-> [n \in Names |-> None]],
                virtualServers |-> None, gatewayCACertPEM |-> None]

\* The calls of the writer.  A removal names no namespace: it goes through all.
Ops ==      [kind : {"upsert"}, ns : Namespaces, section : Sections,
             name : Names, value : Values]
       \cup [kind : {"remove"}, section : Sections, name : Names]
       \cup [kind : {"virtualServers", "caBundle"}, ns : Namespaces,
             value : Values \cup {None}]
       \cup [kind : {"empty", "ensure", "delete"}, ns : Namespaces]

\* None stands for a missing value, secret or call, and is none itself.
ASSUME ConfigAssumption == None \notin Values /\ None \notin Configs /\ None \notin Ops

\* What a call makes of the content it has read.
Applied(o, c) ==
    CASE o.kind = "upsert" -> [c EXCEPT !.entries[o.section][o.name] = o.value]
      [] o.kind = "remove" -> [c EXCEPT !.entries[o.section][o.name] = None]
      [] o.kind = "virtualServers" -> [c EXCEPT !.virtualServers = o.value]
      [] o.kind = "caBundle" -> [c EXCEPT !.gatewayCACertPEM = o.value]
      [] o.kind = "empty" -> EmptyConfig
      [] OTHER -> c

\* ConfigChanged of MCPServer and of A2AAgent: any field makes a difference.
ConfigChanged(new, old) == new # old

\* The write is skipped: the entry is unchanged or not there, the bundle is
\* the same, or the call was only to make sure that the secret exists.
Skipped(o, c) ==
    \/ o.kind = "ensure"
    \/ o.kind = "upsert" /\ ~ConfigChanged(o.value, c.entries[o.section][o.name])
    \/ o.kind = "remove" /\ c.entries[o.section][o.name] = None
    \/ o.kind = "caBundle" /\ c.gatewayCACertPEM = o.value
=============================================================================
