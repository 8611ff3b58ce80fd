--------------------------- MODULE OwnerServicesMC ---------------------------
(***************************************************************************)
(* The services behind the owner's pages that share no state, checked side *)
(* by side: a behaviour chooses one of them and never leaves it.           *)
(***************************************************************************)
EXTENDS TLC, VideoQueue, Restream, ChatStream, AlertAssets, ProviderConnect

Symmetry == Permutations(Workers)

VARIABLE part
servicesVars == <<part, vars, restreamVars, chatVars, assetVars, connectVars>>

ServicesInit ==
    /\ part \in {"videos", "restream", "chat", "assets", "connect"}
    /\ VideoInit /\ RestreamInit /\ ChatInit /\ AssetsInit /\ ConnectInit
    /\ part # "chat" => viewer.mode = "editor"

ServicesNext ==
    \/ part = "videos" /\ VideoNext /\ UNCHANGED <<part, restreamVars, chatVars, assetVars, connectVars>>
    \/ part = "restream" /\ RestreamNext /\ UNCHANGED <<part, vars, chatVars, assetVars, connectVars>>
    \/ part = "chat" /\ ChatNext /\ UNCHANGED <<part, vars, restreamVars, assetVars, connectVars>>
    \/ part = "assets" /\ AssetsNext /\ UNCHANGED <<part, vars, restreamVars, chatVars, connectVars>>
    \/ part = "connect" /\ ConnectNext /\ UNCHANGED <<part, vars, restreamVars, chatVars, assetVars>>

ServicesSpec == ServicesInit /\ [][ServicesNext]_servicesVars

(* The rows, sessions, entries, events, uploads and attempts of each service are of their kinds. *)
ServicesTypeOK == VideoTypeOK /\ RestreamTypeOK /\ ChatTypeOK /\ AssetsTypeOK /\ ConnectTypeOK
=============================================================================
