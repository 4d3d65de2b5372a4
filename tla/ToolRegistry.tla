---------------------------- MODULE ToolRegistry ----------------------------
(***************************************************************************)
(* ToolRegistry (src/plugin_bridge/hooks/tool_registry.cpp): the tools of  *)
(* native plugins and of sidecars, in the order they were registered, and  *)
(* the list of their schemas.  Each operation holds the registry's lock.   *)
(*                                                                         *)
(* A name is <<plugin, tool>>, or <<Short, tool>> when it has no prefix.   *)
(***************************************************************************)
EXTENDS Naturals, Sequences

CONSTANTS
    Plugins,
    Tools,
    Vias,     \* the clients remote tools are called through
    Short     \* stands for a missing plugin prefix

ASSUME RegistryAssumption == Short \notin Plugins

VARIABLES
    entries,  \* entries_: native tools
    remote,   \* remote_entries_: tools of sidecars
    schemas   \* schemas_cache_: what the model is shown

registryVars == <<entries, remote, schemas>>

Qualified == Plugins \X Tools
Names == (Plugins \cup {Short}) \X Tools

Entry == [name : Qualified, via : Vias]
NotFound == 0

ShortOf(name) == <<Short, name[2]>>

NamesOf(seq) == [i \in DOMAIN seq |-> seq[i].name]

\* A list without the elements that are not in a set, in order.
Kept(seq, S) ==
    LET kept[i \in 0 .. Len(seq)] ==
            IF i = 0 THEN <<>>
            ELSE IF seq[i] \in S THEN Append(kept[i - 1], seq[i])
            ELSE kept[i - 1]
    IN kept[Len(seq)]

\* ... and without a plugin's tools.
Without(seq, p) == Kept(seq, {e \in Entry : e.name[1] # p})

\* rebuild_cache_locked
Rebuild == schemas' = NamesOf(entries' \o remote')

RegistryInit ==
    /\ entries = <<>>
    /\ remote = <<>>
    /\ schemas = <<>>

\* register_provider adds the tools of a native plugin, in its order.
RegisterProvider(tools) ==
    /\ entries' = entries \o tools
    /\ UNCHANGED remote
    /\ Rebuild

\* register_remote adds one tool, also when its name is there already.
RegisterRemote(entry) ==
    /\ remote' = Append(remote, entry)
    /\ UNCHANGED entries
    /\ Rebuild

\* Bug: the schemas of tools that are gone stay on offer.
BugUnregisterRemotePlugin(p) ==
    /\ remote' = Without(remote, p)
    /\ UNCHANGED <<entries, schemas>>

UnregisterRemotePlugin(p) ==
    /\ remote' = Without(remote, p)
    /\ UNCHANGED entries
    /\ Rebuild

UnregisterPlugin(p) ==
    /\ entries' = Without(entries, p)
    /\ UNCHANGED remote
    /\ Rebuild

HasTools == entries # <<>> \/ remote # <<>>

\* The first registered tool that a name stands for, by its full name before
\* its short one, native before remote.
Index(name) ==
    LET all == entries \o remote
        full == {i \in DOMAIN all : all[i].name = name}
        short == {i \in DOMAIN all : ShortOf(all[i].name) = name}
        found == IF full # {} THEN full ELSE short
    IN IF found = {} THEN NotFound
       ELSE CHOOSE i \in found : \A j \in found : i <= j

Lookup(name) == (entries \o remote)[Index(name)]

-----------------------------------------------------------------------------
RegistryTypeOK ==
    /\ entries \in Seq(Entry)
    /\ remote \in Seq(Entry)
    /\ schemas \in Seq(Qualified)

\* The model is offered exactly the tools that can be called, in the order in
\* which a short name is resolved, whatever was added and removed before.
SchemasExact == schemas = NamesOf(entries \o remote)
=============================================================================
