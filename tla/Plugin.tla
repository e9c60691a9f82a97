------------------------------- MODULE Plugin -------------------------------
(***************************************************************************)
(* The plugin tables of the daemon: the configuration files it has loaded  *)
(* (plugin_config_jsonlist), which message sets off which others           *)
(* (monitor_msglist), and the messages that each member is masked from     *)
(* sending and receiving. Requests on the control port load a file or a    *)
(* directory, load all files again, and clean up; each runs with           *)
(* mlist_mutex held. Files change and members come and go in between.      *)
(*                                                                         *)
(* The tables keep names, units and paths in arrays, and snprintf cuts     *)
(* what is too long for them; the tests for what is there already compare  *)
(* the strings as they came.                                               *)
(*                                                                         *)
(* A document is a parsed file: the sequence of its "list", or NoList. The *)
(* triggering of messages is left out: its call is commented out in        *)
(* _ipcd_msg_probe, and so are the tests of the masks.                     *)
(***************************************************************************)
EXTENDS Integers, Sequences, SequencesExt

CONSTANTS
    Files,           \* paths of configuration files
    Documents,       \* what a file may hold once it is parsed
    NoList,          \* a document without "list"
    Unusable,        \* content of a file that is missing, empty or no JSON
    Listings,        \* what the names in a directory stand for
    Names,           \* alias names of members
    CutNames,        \* of names of messages that are too long: what is stored
    CutUnits,        \* of units with too long a text: the unit that is stored
    CutPaths,        \* of paths that are too long: what is stored
    NoConfig,        \* plugin_config_jsonlist while it is NULL
    Star,            \* the name "*" in a mask
    MaxRequests,     \* bound on the requests
    MaxMembers       \* bound on the members

ASequence(s) == s \in Seq(Range(s))

ASSUME FilesAssumption ==
    /\ Listings \subseteq Seq(Files)
    /\ \A d \in Documents :
          /\ ASequence(d)
          /\ \A item \in Range(d) :
                /\ item.type = "m2m" => ASequence(item.monitor) /\ ASequence(item.broadcast)
                /\ item.type = "mask_msg" => ASequence(item.send) /\ ASequence(item.recv)
    /\ NoConfig \notin Seq([filename : Files, root : Documents])

\* What snprintf stores fits: it is not cut again.
CutOnce(cut) == \A x \in DOMAIN cut : cut[x] \notin DOMAIN cut

ASSUME CutAssumption ==
    /\ CutOnce(CutNames) /\ CutOnce(CutUnits) /\ CutOnce(CutPaths)
    /\ Range(CutPaths) \subseteq Files

VARIABLES
    disk,       \* what each file holds
    config,     \* plugin_config_jsonlist: plugin_units, or NULL
    monitors,   \* monitor_msglist, empty when NULL: monitor_msgs
    mlist,      \* the members, with their masks
    requests    \* how many requests there were

pluginVars == <<disk, config, monitors, mlist, requests>>

Tables == [config |-> config, monitors |-> monitors, mlist |-> mlist]

PluginInit == /\ disk \in [Files -> Documents \cup {NoList, Unusable}]
              /\ config = NoConfig
              /\ monitors = <<>>
              /\ mlist = <<>>
              /\ requests = 0

-----------------------------------------------------------------------------
\* What the array holds after snprintf.
Stored(cut, x) == IF x \in DOMAIN cut THEN cut[x] ELSE x

\* A unit is the same only if message and type are.
Known(units, u) == u \in Range(units)

Places(ms, name) == {k \in DOMAIN ms : ms[k].monitor_msg_name = name}

\* ipcd_plugin_monitor_msg_insert: the unit goes to the last entry of the message,
\* or to a new one.
Inserted(ms, name, u) ==
    IF Places(ms, name) = {}
    THEN Append(ms, [monitor_msg_name |-> Stored(CutNames, name),
                     broadcast_msglist |-> <<Stored(CutUnits, u)>>])
    ELSE LET k == Max(Places(ms, name))
         IN  IF Known(ms[k].broadcast_msglist, u) THEN ms
             ELSE [ms EXCEPT ![k].broadcast_msglist = Append(@, Stored(CutUnits, u))]

\* Loops are functions of their turns: what is left after i of them.

\* The inner loop of ipcd_plugin_parse_m2m: the message sets off all of "broadcast".
WithUnits(ms, name, broadcast) ==
    LET after[i \in 0..Len(broadcast)] ==
            IF i = 0 THEN ms ELSE Inserted(after[i - 1], name, broadcast[i])
    IN  after[Len(broadcast)]

\* ipcd_plugin_parse_m2m: each message of "monitor" does.
WithM2m(ms, item) ==
    LET after[i \in 0..Len(item.monitor)] ==
            IF i = 0 THEN ms ELSE WithUnits(after[i - 1], item.monitor[i], item.broadcast)
    IN  after[Len(item.monitor)]

\* The masks in s that are for a member of that name.
MasksFor(pname, s) ==
    LET after[i \in 0..Len(s)] ==
            IF i = 0 THEN <<>>
            ELSE IF s[i].pname \in {pname, Star} THEN Append(after[i - 1], s[i])
            ELSE after[i - 1]
    IN  after[Len(s)]

\* ipcd_plugin_parse_mask: it masks the members of the moment, and does not look
\* for masks that they have.
WithMasks(ml, item) ==
    [k \in DOMAIN ml |->
        [ml[k] EXCEPT !.mask_sender = @ \o MasksFor(ml[k].pname, item.send),
                      !.mask_receiver = @ \o MasksFor(ml[k].pname, item.recv)]]

WithItem(t, item) ==
    CASE item.type = "m2m" -> [t EXCEPT !.monitors = WithM2m(@, item)]
      [] item.type = "mask_msg" -> [t EXCEPT !.mlist = WithMasks(@, item)]
      [] OTHER -> t

\* ipcd_plugin_parse_root for a document with a "list"
WithRoot(t, root) ==
    LET after[i \in 0..Len(root)] == IF i = 0 THEN t ELSE WithItem(after[i - 1], root[i])
    IN  after[Len(root)]

-----------------------------------------------------------------------------
\* A name with an underscore and a capital, as in Listed_Never, is a mutant:
\* a plausible slip in the definition that follows it.

Listed_Never(t, f) == FALSE

\* The path, as realpath gives it, is compared with those that are stored.
Listed(t, f) == t.config # NoConfig /\ \E k \in DOMAIN t.config : t.config[k].filename = f

\* ipcd_plugin_monitor_add_file. The list is created even when the document has
\* nothing for it.
WithFile(t, f) ==
    IF Listed(t, f) \/ disk[f] = Unusable THEN t
    ELSE LET created == [t EXCEPT !.config = IF @ = NoConfig THEN <<>> ELSE @]
         IN  IF disk[f] = NoList THEN created
             ELSE WithRoot([created EXCEPT !.config =
                                Append(@, [filename |-> Stored(CutPaths, f), root |-> disk[f]])],
                           disk[f])

\* ipcd_plugin_monitor_add_dir: the names that it finds are looked up in the
\* working directory of the daemon, whatever the directory was.
WithDir(t, listing) ==
    LET after[i \in 0..Len(listing)] == IF i = 0 THEN t ELSE WithFile(after[i - 1], listing[i])
    IN  after[Len(listing)]

\* The units up to the first whose file can no longer be used: there
\* ipcd_plugin_refresh returns.
Refreshed(units) ==
    {k \in DOMAIN units : \A j \in 1..k : disk[units[j].filename] # Unusable}

WithUnitRefreshed_RootOnly(t, k) ==
    LET root == disk[t.config[k].filename]
    IN  IF root = NoList THEN t ELSE [t EXCEPT !.config[k].root = root]

\* A turn of ipcd_plugin_refresh: a document without "list" leaves the old one,
\* any other adds to the tables what they do not hold.
WithUnitRefreshed(t, k) ==
    LET root == disk[t.config[k].filename]
    IN  IF root = NoList THEN t
        ELSE WithRoot([t EXCEPT !.config[k].root = root], root)

\* ipcd_plugin_refresh
AllRefreshed(t) ==
    IF t.config = NoConfig THEN t
    ELSE LET after[k \in 0..Len(t.config)] ==
                 IF k = 0 THEN t
                 ELSE IF k \in Refreshed(t.config) THEN WithUnitRefreshed(after[k - 1], k)
                 ELSE after[k - 1]
         IN  after[Len(t.config)]

NewMember(n) == [pname |-> n, mask_sender |-> <<>>, mask_receiver |-> <<>>]

Cleaned_MasksKept(t) == [t EXCEPT !.config = NoConfig, !.monitors = <<>>]

\* ipcd_plugin_monitor_msg_clean and ipcd_plugin_monitor_clean, which leaves the
\* masks alone when no file was loaded. It deletes the units while it walks them
\* by index, so every second one is only freed with the list, and its document
\* is not freed at all.
Cleaned(t) ==
    IF t.config = NoConfig THEN [t EXCEPT !.monitors = <<>>]
    ELSE [config |-> NoConfig, monitors |-> <<>>,
          mlist |-> [k \in DOMAIN t.mlist |-> NewMember(t.mlist[k].pname)]]

-----------------------------------------------------------------------------
\* A request on the control port that leaves the tables t.
Request(t) == /\ requests < MaxRequests
              /\ requests' = requests + 1
              /\ config' = t.config
              /\ monitors' = t.monitors
              /\ mlist' = t.mlist
              /\ UNCHANGED disk

AddFile(f) == Request(WithFile(Tables, f))
AddDir(listing) == Request(WithDir(Tables, listing))
Refresh == Request(AllRefreshed(Tables))
Clean == Request(Cleaned(Tables))

\* Somebody writes, breaks or removes a file.
Edit(f) == /\ disk' \in {[disk EXCEPT ![f] = d] : d \in Documents \cup {NoList, Unusable}}
           /\ UNCHANGED <<config, monitors, mlist, requests>>

\* ipcd_join and ipcd_mlist_remove_via_pid, as far as the masks are concerned
Join(n) == /\ Len(mlist) < MaxMembers
           /\ \A k \in DOMAIN mlist : mlist[k].pname # n
           /\ mlist' = Append(mlist, NewMember(n))
           /\ UNCHANGED <<disk, config, monitors, requests>>

Exit == /\ \E k \in DOMAIN mlist : mlist' = RemoveAt(mlist, k)
        /\ UNCHANGED <<disk, config, monitors, requests>>

PluginNext == \/ \E f \in Files : AddFile(f) \/ Edit(f)
              \/ \E listing \in Listings : AddDir(listing)
              \/ Refresh
              \/ Clean
              \/ \E n \in Names : Join(n)
              \/ Exit

PluginSpec == PluginInit /\ [][PluginNext]_pluginVars

-----------------------------------------------------------------------------
\* Message name sets off u, both as they are stored.
InForce(name, u) ==
    \E k \in DOMAIN monitors :
        /\ monitors[k].monitor_msg_name = Stored(CutNames, name)
        /\ Stored(CutUnits, u) \in Range(monitors[k].broadcast_msglist)

\* What the daemon shows as the document of a loaded file (ipcd_plugin_view) is
\* in the tables, all of it, as far as it fits: after files that changed, broke
\* or lost their "list", and after a refresh that stopped half way.
ShownIsInForce ==
    config # NoConfig =>
        \A k \in DOMAIN config : \A item \in Range(config[k].root) :
            item.type = "m2m" =>
                \A name \in Range(item.monitor), u \in Range(item.broadcast) :
                    InForce(name, u)

\* However often files are loaded, refreshed and share rules, a message is
\* listed once, sets nothing off twice, and no file is loaded twice
\* (ipcd_plugin_trigger stops at the first entry of a message that it finds). The
\* exceptions are what remains of strings that were cut: these are never found.
NothingTwice ==
    /\ \A j, k \in DOMAIN monitors :
          monitors[j].monitor_msg_name = monitors[k].monitor_msg_name
             => j = k \/ monitors[j].monitor_msg_name \in Range(CutNames)
    /\ \A k \in DOMAIN monitors :
          LET units == monitors[k].broadcast_msglist
          IN  \A i, j \in DOMAIN units :
                 units[i] = units[j] => i = j \/ units[i] \in Range(CutUnits)
    /\ config # NoConfig =>
          \A j, k \in DOMAIN config :
             config[j].filename = config[k].filename
                => j = k \/ config[j].filename \in Range(CutPaths)

\* When no file is loaded no rule and no mask is left, of members that joined
\* before, between and after loading either.
NoFileNoTrace ==
    config = NoConfig => /\ monitors = <<>>
                     /\ \A k \in DOMAIN mlist : mlist[k] = NewMember(mlist[k].pname)

=============================================================================
