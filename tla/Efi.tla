-------------------------------- MODULE Efi --------------------------------
(***************************************************************************)
(* The firmware interface's status codes, as the boot loader declares them *)
(* (src/bootloader/src/inc/efi.h).  An EFI_STATUS is an unsigned 64 bit    *)
(* number whose top bit, here ErrorBit, marks an error.                    *)
(***************************************************************************)
EXTENDS Integers

ErrorBit == 64

EFIERR(a) == ErrorBit + a

EFI_SUCCESS == 0
EFI_LOAD_ERROR == EFIERR(1)
EFI_INVALID_PARAMETER == EFIERR(2)
EFI_UNSUPPORTED == EFIERR(3)
EFI_BUFFER_TOO_SMALL == EFIERR(5)
EFI_NOT_FOUND == EFIERR(14)
EFI_NOT_STARTED == EFIERR(19)
EFI_INCOMPATIBLE_VERSION == EFIERR(25)

Statuses == 0 .. 2 * ErrorBit - 1

\* The test of efi.h:17 on an unsigned number.
EFI_ERROR(a) == a < 0

=============================================================================
