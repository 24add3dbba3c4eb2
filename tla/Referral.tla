------------------------------ MODULE Referral ------------------------------
(***************************************************************************)
(* The referral program (crates/solana/referral): a wallet mints official  *)
(* NFTs into a pool of its own; another wallet that claims one of them     *)
(* becomes its lower, for good.  The services read `upper' to name the     *)
(* wallets a swap rewards.                                                 *)
(*                                                                         *)
(* One action is one instruction: a transaction either does all of it or   *)
(* nothing.  Fees in SOL, events and rent are left out.                    *)
(***************************************************************************)
EXTENDS Integers, FiniteSets, Functions

CONSTANTS
  Wallets,      \* the wallets that mint and claim
  Mints,        \* the mints the administrator may make official
  FirstMint,    \* the official mint init_config names
  MaxMinted,    \* bound: the NFTs a wallet mints in all
  None          \* no upper (Option::None)

ASSUME ReferralAssumption ==
  /\ IsFiniteSet(Wallets) /\ IsFiniteSet(Mints) /\ FirstMint \in Mints
  /\ MaxMinted \in Nat
  /\ None \notin Wallets

VARIABLES
  nft_mint,     \* ReferralConfig.nft_mint: the official mint
  upper,        \* upper[w]: ReferralAccount.upper of w
  counters,     \* counters[w]: MintCounter of w, NoCounter before its first mint
  nft_pool,     \* nft_pool[m][w]: NFTs of mint m in the account of w's pool
  held          \* held[m][w]: NFTs of mint m in w's own account

referralVars == <<nft_mint, upper, counters, nft_pool, held>>

(* A wallet that never minted has no MintCounter; the account is created   *)
(* empty with the first mint.                                              *)
NoCounter == [exists |-> FALSE, total_mint |-> 0, remain_mint |-> 0]

ReferralInit ==
  /\ nft_mint = FirstMint
  /\ upper = [w \in Wallets |-> None]
  /\ counters = [w \in Wallets |-> NoCounter]
  /\ nft_pool = [m \in Mints |-> [w \in Wallets |-> 0]]
  /\ held = [m \in Mints |-> [w \in Wallets |-> 0]]

(* mint_nft: the NFTs go to the pool account of the official mint of now.  *)
MintNft(w, amount) ==
  /\ amount > 0
  /\ counters[w].total_mint + amount <= MaxMinted
  /\ counters' = [counters EXCEPT
       ![w] = [exists      |-> TRUE,
               total_mint  |-> @.total_mint + amount,
               remain_mint |-> @.remain_mint + amount]]
  /\ nft_pool' = [nft_pool EXCEPT ![nft_mint][w] = @ + amount]
  /\ UNCHANGED <<nft_mint, upper, held>>

(* Variant for mutation: the counter of the upper is not taken down.       *)
ClaimNftKeepsRemain(w, u) ==
  /\ counters[u].exists
  /\ upper[w] = None
  /\ w # u
  /\ counters[u].remain_mint > 0
  /\ nft_pool[nft_mint][u] >= 1
  /\ upper' = [upper EXCEPT ![w] = u]
  /\ nft_pool' = [nft_pool EXCEPT ![nft_mint][u] = @ - 1]
  /\ held' = [held EXCEPT ![nft_mint][w] = @ + 1]
  /\ UNCHANGED <<nft_mint, counters>>

(* claim_nft: w takes an NFT of u's pool and becomes u's lower.  The       *)
(* MintCounter and the ReferralAccount of u must exist (both are created   *)
(* by mint_nft); w has no upper yet and is not u.  The transfer fails when *)
(* the pool of the official mint is empty, whatever the counter says.      *)
ClaimNft(w, u) ==
  /\ counters[u].exists
  /\ upper[w] = None
  /\ w # u
  /\ counters[u].remain_mint > 0
  /\ nft_pool[nft_mint][u] >= 1
  /\ upper' = [upper EXCEPT ![w] = u]
  /\ counters' = [counters EXCEPT ![u].remain_mint = @ - 1]
  /\ nft_pool' = [nft_pool EXCEPT ![nft_mint][u] = @ - 1]
  /\ held' = [held EXCEPT ![nft_mint][w] = @ + 1]
  /\ UNCHANGED nft_mint

(* update_nft_mint: only the configuration changes; pools and counters     *)
(* filled under the old mint stay as they are.                             *)
UpdateNftMint(m) ==
  /\ nft_mint' = m
  /\ UNCHANGED <<upper, counters, nft_pool, held>>

ReferralNext ==
  \/ \E w \in Wallets, amount \in 1..MaxMinted : MintNft(w, amount)
  \/ \E w, u \in Wallets : ClaimNft(w, u)
  \/ \E m \in Mints : UpdateNftMint(m)

----------------------------------------------------------------------------
Lowers(u) == {w \in Wallets : upper[w] = u}

(* The upper of the upper, rewarded by the swaps of w beside the upper.    *)
UpperUpper(w) == IF upper[w] = None THEN None ELSE upper[upper[w]]

ReferralTypeOK ==
  /\ nft_mint \in Mints
  /\ upper \in [Wallets -> Wallets \cup {None}]
  /\ counters \in [Wallets -> [exists : BOOLEAN, total_mint : Nat, remain_mint : Nat]]
  /\ nft_pool \in [Mints -> [Wallets -> Nat]]
  /\ held \in [Mints -> [Wallets -> Nat]]

(* The NFTs of u a claim can reach, and those it cannot: claim_nft moves   *)
(* NFTs of the official mint of now only.                                  *)
Claimable(u) == nft_pool[nft_mint][u]
Stranded(u)  == SumFunction([m \in Mints |-> IF m = nft_mint THEN 0 ELSE nft_pool[m][u]])

(* What a wallet minted and has not given away lies in its pools, and the  *)
(* counter is exactly that: a claim is never refused for the counter while *)
(* the NFT is there, and without NFTs stranded under an earlier mint none  *)
(* the counter promises is refused for want of the NFT.  With them the     *)
(* counter promises too much: remain_mint is not, as mint_nft.rs:10 says,  *)
(* what can be claimed, but that and what is stranded.                     *)
ClaimsAccounted ==
  \A w \in Wallets :
    /\ counters[w].total_mint = counters[w].remain_mint + Cardinality(Lowers(w))
    /\ counters[w].remain_mint = Claimable(w) + Stranded(w)
=============================================================================
