--------------------------- MODULE SwapchainChoice ---------------------------
(* What createSwapChain() chooses (client/src/VulkanRenderer.cpp) from what   *)
(* the surface supports.  Sizes are those of one dimension.                   *)
EXTENDS Integers, Sequences

\* VkSurfaceCapabilitiesKHR as Vulkan promises it: FIFO is always there,
\* maxImageCount 0 means no limit, and a surface without an extent of its own
\* (Unset) takes any within its limits.
Unset == -1
IsSurface(caps) ==
  /\ caps.minImageCount \in Nat \ {0} /\ caps.maxImageCount \in Nat
  /\ caps.maxImageCount = 0 \/ caps.minImageCount <= caps.maxImageCount
  /\ "FIFO" \in caps.presentModes
  /\ caps.formats \in Seq(STRING) \ {<<>>}
  /\ caps.minImageExtent \in Nat /\ caps.maxImageExtent \in Nat
  /\ caps.minImageExtent <= caps.maxImageExtent
  /\ caps.currentExtent \in Nat \cup {Unset} /\ caps.framebuffer \in Nat
  /\ caps.currentExtent # Unset =>
       caps.currentExtent \in caps.minImageExtent..caps.maxImageExtent

\* Mutant of Requested: the maximum is not looked at.
RequestedUnlimited(caps) == caps.minImageCount + 1
\* imageCount
Requested(caps) ==
  IF caps.maxImageCount > 0 /\ caps.minImageCount + 1 > caps.maxImageCount
  THEN caps.maxImageCount ELSE caps.minImageCount + 1

chooseSwapSurfaceFormat(formats) ==
  IF \E k \in 1..Len(formats) : formats[k] = "B8G8R8A8_SRGB" THEN "B8G8R8A8_SRGB"
  ELSE formats[1]

chooseSwapPresentMode(modes, setting) ==
  IF setting = "TripleBuffer" /\ "MAILBOX" \in modes THEN "MAILBOX"
  ELSE IF setting = "Immediate" /\ "IMMEDIATE" \in modes THEN "IMMEDIATE"
  ELSE "FIFO"

Clamp(x, low, high) == IF x < low THEN low ELSE IF high < x THEN high ELSE x
chooseSwapExtent(caps) ==
  IF caps.currentExtent # Unset THEN caps.currentExtent
  ELSE Clamp(caps.framebuffer, caps.minImageExtent, caps.maxImageExtent)

\* The swapchain that comes of it, with the number of images the driver made.
Chosen(caps, setting, count) ==
  [caps |-> caps, images |-> count, asked |-> Requested(caps),
   format |-> chooseSwapSurfaceFormat(caps.formats),
   mode |-> chooseSwapPresentMode(caps.presentModes, setting),
   extent |-> chooseSwapExtent(caps)]

\* vkCreateSwapchainKHR's conditions on what is asked for.
Supported(chain) ==
  LET caps == chain.caps IN
    /\ chain.asked >= caps.minImageCount
    /\ caps.maxImageCount # 0 => chain.asked <= caps.maxImageCount
    /\ chain.format \in {caps.formats[k] : k \in 1..Len(caps.formats)}
    /\ chain.mode \in caps.presentModes
    /\ chain.extent \in caps.minImageExtent..caps.maxImageExtent
==============================================================================
