----------------------------- MODULE MCTokenLife -----------------------------
(***************************************************************************)
(* TokenLife on a small instance: two ticks to the second, and lifetimes   *)
(* in the order the defaults have (a leeway shorter than an access token,  *)
(* an access token shorter than a session).                                *)
(***************************************************************************)
EXTENDS TokenLife, Durations, TLC

ReqSymmetry == Permutations(Req)

\* Whatever duration is configured; the session has the lifetimes of the constants,
\* and is looked at with one setting only.
MCInit == Init /\ DurationsInit

\* Next, action by action.
MCNext ==
  \/ \E r \in Req : \/ authorize(r)           /\ UNCHANGED setting
                    \/ authorize_roles(r)     /\ UNCHANGED setting
                    \/ create_session(r)      /\ UNCHANGED setting
                    \/ sign_token_pair(r)     /\ UNCHANGED setting
                    \/ refresh_response(r)    /\ UNCHANGED setting
                    \/ get_session(r)         /\ UNCHANGED setting
                    \/ load_session_user(r)   /\ UNCHANGED setting
                    \/ Leave(r)               /\ UNCHANGED setting
  \/ Logout      /\ UNCHANGED setting
  \/ ChangeRoles /\ UNCHANGED setting
  \/ Tick        /\ UNCHANGED setting

MCSpec == MCInit /\ [][MCNext]_<<vars, setting>>

OneSetting == setting = EmptySetting
=============================================================================
