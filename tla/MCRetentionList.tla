-------------------------- MODULE MCRetentionList --------------------------
(* Listings of up to MaxArchives archives under every `--keep` up to 3.    *)
EXTENDS RetentionList

CONSTANTS private, bare

MCSettings == {private, bare}
MCKeeps    == 1..3

============================================================================
