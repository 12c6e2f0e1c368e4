-------------------------------- MODULE Config --------------------------------
(***************************************************************************)
(* The configuration (lib/m_config.c).  A valid document is walked in      *)
(* order; sections of another profile are passed over, plugins are loaded  *)
(* with the options collected from their children, databases and TLS       *)
(* contexts are registered.  What a document may hold is what concrete.dtd *)
(* allows.                                                                 *)
(***************************************************************************)
EXTENDS Integers, SequencesExt

CONSTANTS
  Docs,       (* the documents: elements [tag, ..., kids]                  *)
  Existing,   (* the paths access() finds: [cwd |-> prefixed, path |-> ...] *)
  None

Production == "production"
Debug == "debug"

VARIABLES
  conf,       (* server_conf: the profile is a set                         *)
  doc,        (* the document being processed                              *)
  todo,       (* the elements left at each level, the innermost first      *)
  plugins,    (* the plugins opened, with their arguments                  *)
  pools,      (* db_pool                                                   *)
  ssl,        (* ssl_ctx: whose context is there                           *)
  path,       (* _plugin_path                                              *)
  result

vars == <<conf, doc, todo, plugins, pools, ssl, path, result>>

Init ==
  /\ conf = [profile |-> {Production, Debug}, force |-> FALSE, threads |-> 0]
  /\ doc = None /\ todo = <<>>
  /\ plugins = <<>> /\ pools = {} /\ ssl = {}
  /\ path = None /\ result = "none"

(* config_force_profile.                                                   *)
Force(p) ==
  /\ doc = None /\ ~ conf.force
  /\ conf' = [conf EXCEPT !.profile = p, !.force = TRUE]
  /\ UNCHANGED <<doc, todo, plugins, pools, ssl, path, result>>

(* config_process, once the document is parsed and validated.              *)
Process(d) ==
  /\ doc = None
  /\ doc' = d /\ todo' = << <<d>> >> /\ result' = "walking"
  /\ UNCHANGED <<conf, plugins, pools, ssl, path>>

-----------------------------------------------------------------------------
(* _config_apply.                                                          *)

At(tag) == todo # <<>> /\ Head(todo) # <<>> /\ Head(Head(todo)).tag = tag
Node == Head(Head(todo))
Pass == todo' = <<Tail(Head(todo))>> \o Tail(todo)
Enter == todo' = <<Node.kids, Tail(Head(todo))>> \o Tail(todo)

Leave ==
  /\ todo # <<>> /\ Head(todo) = <<>>
  /\ todo' = Tail(todo)
  /\ result' = IF Len(todo) = 1 THEN "applied" ELSE result
  /\ UNCHANGED <<conf, doc, plugins, pools, ssl, path>>

(* An error frees the databases and the TLS contexts, not the plugins.     *)
Fail ==
  /\ todo' = <<>> /\ result' = "failed"
  /\ pools' = {} /\ ssl' = {}
  /\ UNCHANGED <<doc, plugins>>

Root ==
  /\ At("concrete") /\ Enter
  /\ conf' = IF conf.force \/ Node.profile = "any" THEN conf
             ELSE [conf EXCEPT !.profile = {Node.profile}]
  /\ UNCHANGED <<doc, plugins, pools, ssl, path, result>>

Skipped(e) == e.profile # "any" /\ e.profile \notin conf.profile

Section(tag) ==
  /\ At(tag)
  /\ IF Skipped(Node) THEN Pass ELSE Enter
  /\ UNCHANGED <<conf, doc, plugins, pools, ssl, path, result>>

PoolSize ==
  /\ At("threads")
  /\ IF Node.number \in 1 .. 255
     THEN /\ conf' = [conf EXCEPT !.threads = Node.number]
          /\ Pass
          /\ UNCHANGED <<doc, plugins, pools, ssl, path, result>>
     ELSE Fail /\ UNCHANGED <<conf, path>>

(* plugin_setpath, and once more from the working directory.               *)
Plugins ==
  LET tries == SelectSeq([i \in 1 .. 2 |-> [cwd |-> i = 2, path |-> Node.path]],
                         LAMBDA p : p \in Existing) IN
  /\ At("plugins")
  /\ UNCHANGED conf
  /\ \/ Skipped(Node) /\ Pass
        /\ UNCHANGED <<doc, plugins, pools, ssl, path, result>>
     \/ ~ Skipped(Node) /\ tries # <<>> /\ path' = Head(tries) /\ Enter
        /\ UNCHANGED <<doc, plugins, pools, ssl, result>>
     \/ ~ Skipped(Node) /\ tries = <<>> /\ Fail /\ UNCHANGED path

-----------------------------------------------------------------------------
(* _config_load_plugin.                                                    *)

(* A string of the document, and the node it was read from: two entries    *)
(* with the same node and text are the same memory.                        *)
Text(i, t) == [node |-> i, text |-> t]

Option_Reset(acc, kid) ==         \* mutant: an option leaves nothing to the next
  LET i == acc.i + 1
      name == IF kid.tag = "option" /\ kid.name # "reload" THEN Text(i, kid.name) ELSE None
      value == IF kid.tag = "option" /\ kid.value # None THEN Text(i, kid.value) ELSE Text(i, "") IN
  [i |-> i, name |-> None, value |-> None,
   argv |-> IF name # None THEN acc.argv \o <<name, value>> ELSE acc.argv]

(* One child of a plugin: the name and the value found so far stay from    *)
(* one child to the next.                                                  *)
Option(acc, kid) ==
  LET i == acc.i + 1
      name == IF kid.tag = "option" /\ kid.name # "reload" THEN Text(i, kid.name) ELSE acc.name
      given == IF kid.tag = "option" /\ kid.value # None THEN Text(i, kid.value) ELSE acc.value
      taken == kid.tag = "option" /\ name # None
      value == IF taken /\ given = None THEN Text(i, "") ELSE given IN
  [i |-> i, name |-> name, value |-> value,
   argv |-> IF taken THEN acc.argv \o <<name, value>> ELSE acc.argv]

Arguments(kids) ==
  FoldLeft(Option, [i |-> 0, name |-> None, value |-> None, argv |-> <<>>], kids).argv

(* _config_ssl: the first valid pair or authority of a plugin is kept.     *)
Secured(e) == \E i \in DOMAIN e.kids : e.kids[i].tag = "ssl" /\ e.kids[i].complete

Loaded(id) == \E i \in DOMAIN plugins : plugins[i].id = id

LoadPlugin ==
  /\ At("plugin") /\ Pass
  /\ \/ plugins' = plugins /\ UNCHANGED ssl
     \/ /\ ~ Loaded(Node.id)
        /\ ssl' = IF Secured(Node) THEN ssl \cup {Node.id} ELSE ssl
        /\ plugins' = Append(plugins, [id |-> Node.id, argv |-> Arguments(Node.kids),
                                       kids |-> Node.kids])
  /\ UNCHANGED <<conf, doc, pools, path, result>>

(* plugin_getopt looks at names and values alike.                          *)
Getopt(argv, opt) ==
  LET at == {i \in 1 .. Len(argv) - 1 : argv[i].text = opt} IN
  IF at = {} THEN None ELSE argv[(CHOOSE i \in at : \A j \in at : i <= j) + 1].text

-----------------------------------------------------------------------------
(* _config_open_db: a pool of that name is kept, and an opening may fail.  *)
Database ==
  /\ At("database")
  /\ IF Node.connections \notin 1 .. 255 THEN Pass /\ UNCHANGED pools
     ELSE Pass /\ pools' \in {pools, pools \cup {Node.id}}
  /\ UNCHANGED <<conf, doc, plugins, ssl, path, result>>

Next ==
  \/ \E p \in {{Production}, {Debug}, {Production, Debug}} : Force(p)
  \/ \E d \in Docs : Process(d)
  \/ Root \/ PoolSize \/ Plugins \/ LoadPlugin \/ Database \/ Leave
  \/ \E tag \in {"options", "databases"} : Section(tag)

-----------------------------------------------------------------------------
-----------------------------------------------------------------------------
(* What a profile leaves out has no effect: the plugins, the databases and *)
(* the number of threads come from sections of the profile that is         *)
(* selected, and a profile forced by the command line wins.                *)
Selected == IF conf.force \/ doc.profile = "any" THEN conf.profile ELSE {doc.profile}
Active(tag) ==
  {i \in DOMAIN doc.kids :
     doc.kids[i].tag = tag /\ doc.kids[i].profile \in {"any"} \cup Selected}
Inside(tag) == UNION {{doc.kids[i].kids[j] : j \in DOMAIN doc.kids[i].kids} : i \in Active(tag)}
ProfileObeyed ==
  doc # None =>
    /\ {plugins[i].id : i \in DOMAIN plugins} \subseteq {e.id : e \in Inside("plugins")}
    /\ pools \subseteq {e.id : e \in Inside("databases")}
    /\ conf.threads \in {0} \cup {e.number : e \in Inside("options")}
    /\ result = "applied" =>
         conf.threads # 0 \/ Inside("options") = {}

(* The arguments of a plugin are the names and values of its options, each *)
(* freed once, exactly when every option has a value and none is called    *)
(* reload; otherwise an option takes what an earlier one left.             *)
IsOption(e) == e.tag = "option"
Named(e) == IsOption(e) /\ e.name # "reload"
Proper(kids) ==
  \A i \in DOMAIN kids :
    /\ IsOption(kids[i]) /\ ~ Named(kids[i]) => ~ \E j \in 1 .. i - 1 : Named(kids[j])
    /\ Named(kids[i]) /\ kids[i].value = None =>
         ~ \E j \in 1 .. i - 1 : Named(kids[j]) \/ (IsOption(kids[j]) /\ kids[j].value # None)
Pairs(kids) ==
  FlattenSeq([i \in 1 .. Len(kids) |->
    IF Named(kids[i])
    THEN <<Text(i, kids[i].name), Text(i, IF kids[i].value = None THEN "" ELSE kids[i].value)>>
    ELSE <<>>])
OptionsOwned ==
  \A i \in DOMAIN plugins :
    (plugins[i].argv = Pairs(plugins[i].kids)) <=> Proper(plugins[i].kids)

(* A plugin finds the value of its option, unless the value of an earlier  *)
(* option is the name it looks for.                                        *)
Misleading(argv, n) == \E m \in 1 .. n - 1 : argv[m].text = argv[n].text
GetoptFinds ==
  \A i \in DOMAIN plugins :
    LET argv == plugins[i].argv IN
    \A n \in {m \in 1 .. Len(argv) : m % 2 = 1} :
      Misleading(argv, n) \/ Getopt(argv, argv[n].text) = argv[n + 1].text

(* After an error no database and no TLS context is left.                  *)
FailureClears == result = "failed" => pools = {} /\ ssl = {} /\ todo = <<>>

ConfigSafe == ProfileObeyed /\ OptionsOwned /\ GetoptFinds /\ FailureClears
=============================================================================
