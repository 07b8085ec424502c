---------------------------- MODULE ConfigRegister ----------------------------
(***************************************************************************)
(* What `config set`, `reset` and `profile` promise when several of them   *)
(* run at once, without files, stages or truncation.  The configuration is *)
(* a register of known keys.  A command takes effect at one moment, at     *)
(* most once, with all that it asks for: on a configuration that was there *)
(* at some time since it began, and was not made by itself.  Updates in    *)
(* between may be lost, the defaults may show for a while or stay, and the *)
(* register may break.  What others put in while it was under way can stay *)
(* where the command leaves a key open, and nowhere else: a key it asks    *)
(* for, or has a value of, is its own.  While nobody has asked for         *)
(* anything, nothing changes; a command that nobody disturbs works on what *)
(* it found.  ConfigStore is shown to implement this.                      *)
(***************************************************************************)
CONSTANTS Clients, Keys,
          Requests,    \* what may be asked: the new values of some keys
          NoRequest,   \* of a client that has asked for nothing
          Starts,      \* configurations at the beginning
          NoValue,     \* the value of a key that is left open
          Defaults,    \* the configuration of an empty file
          NewText,     \* what is put into a new file; it leaves some keys open
          Broken       \* what nobody can read

VARIABLES config,      \* the configuration
          request,     \* of each client, what it has asked for
          base,        \* of each client, the configurations there were since it asked
          made         \* of each client, what others have put in since it asked

registerVars == <<config, request, base, made>>

Waiting(w) == request[w] # NoRequest

\* What a request makes of a configuration.  One that gives every key needs none.
Result(r, old)  == [k \in Keys |-> IF k \in DOMAIN r THEN r[k] ELSE old[k]]
Applies(r, old) == old # Broken \/ Keys \subseteq DOMAIN r

\* The others that wait see what w makes of the configuration; w starts from what it
\* finds, and may go on from what it has put into a new file.
Seen(w, own) ==
  base' = [v \in Clients |->
             IF request'[v] = NoRequest THEN {}
             ELSE IF ~Waiting(v) THEN {config}
             ELSE IF v = w THEN base[v] \cup own
             ELSE IF config' # config THEN base[v] \cup {config'} ELSE base[v]]

\* What w puts in concerns all the others that wait.
PutIn(w, texts) ==
  made' = [v \in Clients |->
             IF request'[v] = NoRequest \/ ~Waiting(v) THEN {}
             ELSE IF v = w THEN made[v] ELSE made[v] \cup texts]

\* The value of a key, where the default stands for what is left open.
Value(text, k) == IF text[k] = NoValue THEN Defaults[k] ELSE text[k]

\* The text of w, with something of the others where it leaves a key open; or neither.
Becomes(w, text) ==
  \/ config' = Broken
  \/ /\ config' = [k \in Keys |-> config'[k]]
     /\ \A k \in Keys : \/ config'[k] = Value(text, k)
                        \/ text[k] = NoValue /\ \E other \in made[w] : config'[k] = Value(other, k)

Finished(w) == request' = [request EXCEPT ![w] = NoRequest]

Init == /\ config \in Starts
        /\ request = [w \in Clients |-> NoRequest]
        /\ base = [w \in Clients |-> {}]
        /\ made = [w \in Clients |-> {}]

Ask(w, r) == /\ ~Waiting(w)
             /\ request' = [request EXCEPT ![w] = r]
             /\ UNCHANGED config /\ PutIn(w, {})

TakeEffect(w) == \E old \in base[w] :
                   /\ Waiting(w) /\ Applies(request[w], old)
                   /\ Becomes(w, Result(request[w], old))
                   /\ Finished(w) /\ PutIn(w, {Result(request[w], old)})

Blank(w)  == Waiting(w) /\ config' = Defaults /\ UNCHANGED request /\ PutIn(w, {})
Renew(w)  == Waiting(w) /\ Becomes(w, NewText) /\ UNCHANGED request /\ PutIn(w, {NewText})
GiveUp(w) == Waiting(w) /\ Finished(w) /\ UNCHANGED config /\ PutIn(w, {})

Next == \/ \E w \in Clients :
            /\ \/ \E r \in Requests : Ask(w, r)
               \/ TakeEffect(w) \/ Blank(w) \/ GiveUp(w)
            /\ Seen(w, {})
       \/ \E w \in Clients : Renew(w) /\ Seen(w, {config'})

Spec == Init /\ [][Next]_registerVars

===============================================================================
