-------------------------------- MODULE SSH --------------------------------
(***************************************************************************)
(* prepare_ssh (ssh.py) and _start_ssh: whose keys open this node.  The    *)
(* key file lies in the container's own file system: it outlives a         *)
(* supervisor that dies at any point and is found by the next one.         *)
(***************************************************************************)
EXTENDS Integers, FiniteSets

CONSTANTS
    Keys        \* lines that ssh-keygen accepts

\* The other lines: a comment, one that is no public key, private-key material.
Others == {"comment", "garbage", "private"}
ASSUME KeysAssumption == Keys \intersect Others = {}

VARIABLES
    enable,     \* ssh.enable
    offered,    \* the lines of each source, in select_authorized_keys's order
    keyfile,    \* those of /run/yeetllm/authorized_keys; {} also when there is none
    sshd,       \* where _start_ssh is, or what it came to
    fault       \* history: this life failed to read, write or run some file, or
                \* wrote one in part

sshVars == <<enable, offered, keyfile, sshd, fault>>

\* YEETLLM_SSH_AUTHORIZED_KEYS, SSH_PUBLIC_KEY, the mounted file, PUBLIC_KEY.
Sources == 1..4
Texts == SUBSET (Keys \union Others)
Offers == [Sources -> Texts]

---------------------------------------------------------------------------

\* select_authorized_keys: the first source that is not blank.
Selected ==
    IF \E s \in Sources : offered[s] # {}
    THEN offered[CHOOSE s \in Sources :
                    offered[s] # {} /\ \A t \in 1..s - 1 : offered[t] = {}]
    ELSE {}

\* Some key, and a fingerprint for every line but the comments.
IsKeyList(text) ==
    text \intersect Keys # {} /\ text \intersect {"garbage", "private"} = {}

\* What is no key list leaves SSH off, unless the configuration demands SSH: then
\* prepare_ssh raises a RuntimeValidationError.
Reject_Lenient == sshd' = "off"
Reject == sshd' = IF enable = "on" THEN "refused" ELSE "off"

SelectKeys ==
    /\ sshd = "due"
    /\ IF enable = "off" THEN sshd' = "off"
       ELSE IF Selected = {} \/ "private" \in Selected THEN Reject
       ELSE sshd' = "write"
    /\ UNCHANGED <<enable, offered, keyfile, fault>>

\* write_private_text: what the file held is gone.  os.write is called once, and may
\* stop after some lines, or within one.
WriteKeys_KeepsOld ==
    /\ sshd = "write" /\ sshd' = "validate"
    /\ \/ /\ keyfile' = IF keyfile = {} THEN Selected ELSE keyfile
          /\ UNCHANGED fault
       \/ /\ \E part \in SUBSET Selected : keyfile' \in {part, part \union {"garbage"}}
          /\ fault' = TRUE
    /\ UNCHANGED <<enable, offered>>
WriteKeys ==
    /\ sshd = "write" /\ sshd' = "validate"
    /\ \/ keyfile' = Selected /\ UNCHANGED fault
       \/ /\ \E part \in SUBSET Selected : keyfile' \in {part, part \union {"garbage"}}
          /\ fault' = TRUE
    /\ UNCHANGED <<enable, offered>>

\* validate_key_file counts the fingerprints of the file against its lines.
ValidateKeys ==
    /\ sshd = "validate"
    /\ IF IsKeyList(keyfile)
       THEN sshd' = "start" /\ UNCHANGED keyfile
       ELSE Reject /\ keyfile' = {}
    /\ UNCHANGED <<enable, offered, fault>>

\* New host keys, sshd -t, sshd itself, and a look at it after 0.1 s.
StartSshd ==
    /\ sshd = "start" /\ sshd' \in {"on", "failed"}
    /\ UNCHANGED <<enable, offered, keyfile, fault>>

\* The mounted file cannot be read, or an OSError leaves prepare_ssh; that of the
\* key file's writing may come before the file is emptied, then, or at its chmod.
FileFails ==
    /\ sshd \in {"due", "write", "validate", "start"} /\ enable # "off"
    /\ sshd' = "refused" /\ fault' = TRUE
    /\ keyfile' \in IF sshd = "write" THEN {keyfile, {}, Selected} ELSE {keyfile}
    /\ UNCHANGED <<enable, offered>>

StartSsh == SelectKeys \/ WriteKeys \/ ValidateKeys \/ StartSshd \/ FileFails

---------------------------------------------------------------------------

\* sshd admits the keys of the first source this life offers, and no others: not
\* those an earlier life left in the file, nor a list with an unusable line
\* (README.md:269-278, ssh.py:43-46, 90-92).  Only a write cut short may leave some
\* of them out.  A node without sshd is one nobody demanded it of and that has no
\* usable key list (README.md:279-282), or could not write it.
SshdServesThisLife ==
    /\ sshd = "on" =>
          /\ enable # "off" /\ IsKeyList(keyfile)
          /\ keyfile \subseteq Selected
          /\ keyfile = Selected \/ fault
    /\ sshd = "off" =>
          \/ enable = "off"
          \/ enable = "auto" /\ (fault \/ ~IsKeyList(Selected))
=============================================================================
