----------------------------- MODULE MCCpmmPool -----------------------------
(* The model-checking instance of CpmmPool with CpmmService.               *)
EXTENDS CpmmService, TLC

CONSTANTS alice, bob, nft, nft2

TwoWallets   == {alice, bob}
TwoMints     == {nft, nft2}
Wallet       == Permutations(TwoWallets)
TwoConfigs   == {[trade |-> 4, creator |-> 0], [trade |-> 4, creator |-> 1]}
SmallPools   == {<<6, 7>>}
Powers       == {1, 2, 4, 8, 16, 32, 64, 128, 256, 512, 1024, 2048}
NoneOrSwap   == {{}, {"swap", "deposit"}}
=============================================================================
